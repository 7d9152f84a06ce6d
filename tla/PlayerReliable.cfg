\* Frames are lost, responses are not; the token thread takes part.
SPECIFICATION PlayerSpec
CONSTANTS
  Senders <- WithToken
  NoSender = NoSender
  Requests <- WithTokenRequests
  Answers <- AnyAnswer
  Faults = {"lostFrame"}
  Damaged = {}
  MaxSlice = 512
  RetryLimit = 1
  MaxCalls = 6
  MaxInFlight = 2
  Main = "main"
  Files <- AllFiles
  ReadFaults = FALSE
INVARIANT OfferedIsSong
INVARIANT SongHeard
PROPERTY ExactlyOnce
CHECK_DEADLOCK FALSE
