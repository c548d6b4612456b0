SPECIFICATION Spec
CONSTANTS
  c1 = c1
  c2 = c2
  c3 = c3
  None = None
  Conns <- TwoConns
  Names <- TwoNames
  clientName <- NameOfConn
  Texts <- MCTexts
  Words <- MCWords
  Password = "sesame"
  Lines <- TalkLines
  WhisperWords <- MCWhisperWords
  MaxInputs = 2
  PresenceInputs = {}
  MaxFailures = 0
CHECK_DEADLOCK FALSE
INVARIANTS
  WhisperStaysPrivate
