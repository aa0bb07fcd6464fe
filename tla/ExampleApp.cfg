\* Two mounts of the chat screen and three messages.
SPECIFICATION AppFairSpec
CONSTANTS
  Instances = {m1, m2}
  Calls = {s1, s2, s3}
  NoInst = NoInst
  Careful = {}
INVARIANTS StatusIsTrue RefusedOnlyWhenGone PresentAlive
PROPERTIES GoneGivesBack SendsEnd
CHECK_DEADLOCK FALSE
