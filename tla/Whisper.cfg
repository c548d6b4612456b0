SPECIFICATION WindowSpec
CONSTANTS
  c1 = c1
  c2 = c2
  c3 = c3
  None = None
  Conns <- ThreeConns
  Names <- ThreeNames
  clientName <- OwnNames
  Texts <- MCTexts
  Words <- MCWords
  Password = "sesame"
  Lines <- WhisperLines
  WhisperWords <- MCWhisperWords
  MaxInputs = 2
  PresenceInputs = {}
  MaxFailures = 0
CHECK_DEADLOCK FALSE
INVARIANTS
  WhisperConfined
  ListShowsMirror
