SPECIFICATION Spec
CONSTANTS
  Sizes = 16
  Lengths <- Fitting
  Broken = Broken
  MaxSent = 3
CHECK_DEADLOCK FALSE
INVARIANTS
  TypeOK
  FullMessageReceived
PROPERTIES
  ImplementsChannel
