SPECIFICATION Spec
CONSTANTS
  Sizes = 16
  Lengths <- Oversized
  Broken = Broken
  MaxSent = 2
CHECK_DEADLOCK FALSE
INVARIANTS
  FullMessageReceived
