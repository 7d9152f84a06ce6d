\* Each part comes to its end: the program exits, the queue is destroyed.
SPECIFICATION PartsSpec
CONSTANTS
  User = "player"
  Producers = {"player"}
  Consumers = {"player"}
  N = 4
  Garbage = Garbage
  MaxPuts = 7
  NULL = NULL
  Period = 2
  BufferSize = 3
  AutoStart = TRUE
  MaxPosts = 2
  MaxTries = 1
  LocalFiles <- SongFiles
  LocalAnswers <- SongAnswers
  MaxFrames = 2
  FirstBytes <- Bytes
  NextBytes = {0, 1, 128, 255}
  MaxLength = 3
  BUFFER_SIZE = 2
  SIZE_MAX = 20
  PieceSizes = {0, 1, 2, 4}
  Documents <- SomeDocuments
  MaxAnswer = 7
INVARIANT BuffersAccounted
INVARIANT CallbackFresh
INVARIANT ThreadHasRecorder
INVARIANT StartNotLost
INVARIANT LocalInOrder
INVARIANT LocalHeard
INVARIANT CrcIsRemainder
INVARIANT ResultFits
INVARIANT SofaCommandSent
PROPERTY IsFifo
PROPERTY StopHeeded
PROPERTY LocalEnds
PROPERTY ReaderIsChannel
CHECK_DEADLOCK FALSE
