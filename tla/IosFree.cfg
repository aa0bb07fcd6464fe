\* An application that unloads whenever it likes, twice if it likes, but for one
\* instance that it uses with care.
SPECIFICATION Spec
CONSTANTS
  Instances = {i1, i2, i3}
  Calls = {c1, c2}
  NoInst = NoInst
  Careful = {i1}
  Addrs <- MCAddrs
INVARIANTS
  IInv
  UnloadReleases
  CarefulIsolated
PROPERTIES
  KeepsContractOnce
CHECK_DEADLOCK FALSE
