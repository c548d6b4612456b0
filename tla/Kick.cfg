SPECIFICATION Spec
CONSTANTS
  c1 = c1
  c2 = c2
  c3 = c3
  None = None
  Conns <- ThreeConns
  Names <- TwoNames
  clientName <- NameOfConn
  Texts <- MCTexts
  Words <- MCWords
  Password = "sesame"
  Lines <- KickLines
  WhisperWords <- MCWhisperWords
  MaxInputs = 3
  PresenceInputs = {}
  MaxFailures = 0
SYMMETRY Symmetry
CHECK_DEADLOCK FALSE
INVARIANTS
  TypeOK
  NoDanglingConnection
  KickIsLast
  MirrorConverges
  NoGhostSpeech
  NobodyWaitsInVain
  AnsweredOnce
PROPERTIES
  MembershipEndsWithConnection
