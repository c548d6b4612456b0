SPECIFICATION Spec
CONSTANTS
  c1 = c1
  c2 = c2
  c3 = c3
  None = None
  Conns <- TwoConns
  Names <- TwoNames
  clientName <- NameOfConn
  Texts <- MCTexts
  Words <- MCWords
  Password = "sesame"
  Lines <- CommandLines
  WhisperWords <- MCWhisperWords
  MaxInputs = 4
  PresenceInputs = {}
  MaxFailures = 0
CHECK_DEADLOCK FALSE
INVARIANTS
  NoGhostSpeech
  MotdConverges
