SPECIFICATION MCSpec
CONSTANTS
  NULL = NULL
  FREED = FREED
  RSTRING_INCSTEP = 1
  RSTRING_DEFAULT = 1
  Alphabets <- ThreeAlphabets
  CallbackSets <- AllCallbacks
  MaxNodes = 5
  NewTypes <- SomeTypes
  Labels <- ShortTexts
  Values <- ValueTokens
  Texts <- ShortTexts
  Number <- One
  DocumentChars <- SomeDocumentChars
  RawChars <- SomeRawChars
  EscapedPieces <- SomeEscapedPieces
  MaxDocument = 5
  MaxRaw = 3
  MaxEscaped = 3
CHECK_DEADLOCK FALSE
INVARIANT TextsFit
INVARIANT TokensAreJson
INVARIANT SaxSeesTokens
INVARIANT TreeSound
INVARIANT ParserTreeSound
INVARIANT WhiteSpaceKeepsTokens
INVARIANT EscapesKeepCharacters
PROPERTY WalksTheTree
PROPERTY PrintsWhatItRead
PROPERTY FollowsTheGrammar
PROPERTY CallsReturn
