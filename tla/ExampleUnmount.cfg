\* The chat screen is left while it is thinking.
SPECIFICATION AppSpec
CONSTANTS
  Instances = {m1}
  Calls = {s1}
  NoInst = NoInst
  Careful = {}
INVARIANTS
  UsingAlive
CHECK_DEADLOCK FALSE
