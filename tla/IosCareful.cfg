\* An application that follows README.md:208-217.
SPECIFICATION FairSpec
CONSTANTS
  Instances = {i1, i2, i3}
  Calls = {c1, c2}
  NoInst = NoInst
  Careful = {i1, i2, i3}
  Addrs <- MCAddrs
INVARIANTS
  NoDangling
PROPERTIES
  KeepsContract
CHECK_DEADLOCK FALSE
