\* One instance that is used with care, two with which anything may be done.
SPECIFICATION FairSpec
CONSTANTS
  Instances = {i1, i2, i3}
  Calls = {c1, c2}
  NoInst = NoInst
  Careful = {i1}
INVARIANTS
  OwnModel
  OnlyWarmupOrphans
  NotLoadedIsTrue
  CarefulAlive
  IInv
PROPERTIES
  PromptsSettle
  KeepsContract
CHECK_DEADLOCK FALSE
