\* One instance used with care, next to one that is unloaded twice.
SPECIFICATION Spec
CONSTANTS
  Instances = {i1, i2}
  Calls = {c1}
  NoInst = NoInst
  Careful = {i2}
  Addrs <- MCAddrs
INVARIANTS
  CarefulAlive
CHECK_DEADLOCK FALSE
