SPECIFICATION Spec
CONSTANTS
  None = None
  Conns = {}
  Names <- LongNames
  clientName <- NoConns
  Texts <- FittingTexts
  Words <- LongNames
  Password = "sesame"
  FirstId = 126
  MaxId = 127
  PresenceInputs = {"AWAY"}
CHECK_DEADLOCK FALSE
INVARIANTS
  ReceivedAsSent
  MirrorsFollow
