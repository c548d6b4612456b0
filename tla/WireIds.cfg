SPECIFICATION Spec
CONSTANTS
  None = None
  Conns = {}
  Names <- ShortNames
  clientName <- NoConns
  Texts <- FittingTexts
  Words <- ShortNames
  Password = "sesame"
  FirstId = 127
  MaxId = 128
  PresenceInputs = {}
CHECK_DEADLOCK FALSE
INVARIANTS
  MirrorsFollow
