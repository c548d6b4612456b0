SPECIFICATION Spec
CONSTANTS
  None = None
  Conns = {}
  Names <- ShortNames
  clientName <- NoConns
  Texts <- LongText
  Words <- ShortNames
  Password = "sesame"
  FirstId = 1
  MaxId = 3
  PresenceInputs = {"AWAY"}
CHECK_DEADLOCK FALSE
INVARIANTS
  WhisperUnheard
