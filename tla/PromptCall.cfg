\* Every default and override of each limit on both platforms, and texts that
\* contain the headings.
SPECIFICATION CallFairSpec
CONSTANTS
  Sizes <- MCSizes
  Limits <- MCLimits
  Requests <- MCRequests
  Words <- MCWords
  MaxInt = 4
  CtxPad = 2
  WarmupSize = 3
  Undefined = Undefined
  NaN = NaN
  Infinity = Infinity
  NegInfinity = NegInfinity
INVARIANTS
  CallTypeOK
  CallerLimitsKept
  NoLimitInvented
  FalsyIsSafe
  SplitUndoes
  RoomForBatch
  Released
  IInv
PROPERTIES
  CallEnds
  EndsNearer
CHECK_DEADLOCK FALSE
