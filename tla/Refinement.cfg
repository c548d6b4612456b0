SPECIFICATION WindowSpec
CONSTANTS
  c1 = c1
  c2 = c2
  c3 = c3
  None = None
  Conns <- TwoConns
  Names <- TwoNames
  clientName <- NameOfConn
  Texts <- MCTexts
  Words <- MCWords
  Password = "sesame"
  Lines <- AllLines
  WhisperWords <- MCWhisperWords
  MaxInputs = 2
  PresenceInputs = {"AWAY"}
  MaxFailures = 0
CHECK_DEADLOCK FALSE
INVARIANTS
  RoomInv
  MirrorsInv
  MirrorConverges
  ListShowsMirror
  WindowInv
  AnswersInv
PROPERTIES
  ServerSpec
  ImplementsBroadcast
