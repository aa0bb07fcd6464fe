\* What the next batch points at when it is decoded.
SPECIFICATION Spec
CONSTANTS
  Sizes <- MCSizes
  Limits <- MCLimits
  CtxPad = 2
  WarmupSize = 3
INVARIANTS
  FedSampled
CHECK_DEADLOCK FALSE
