SPECIFICATION FairSpec
CONSTANTS
  c1 = c1
  c2 = c2
  c3 = c3
  None = None
  Conns <- BothBobs
  Names <- TwoNames
  clientName <- NameOfConn
  Texts <- MCTexts
  Words <- MCWords
  Password = "sesame"
  Lines <- BobLines
  WhisperWords <- MCWhisperWords
  MaxInputs = 2
  PresenceInputs = {}
  MaxFailures = 1
CHECK_DEADLOCK FALSE
PROPERTIES
  JoinAnswered
  ListArrives
  KickedDisconnects
  NameReleased
