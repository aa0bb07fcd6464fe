\* Android: loads capture while prompts run on pool threads.
SPECIFICATION Spec
CONSTANTS
  l1 = l1
  l2 = l2
  w1 = w1
  p1 = p1
  p2 = p2
  Loads <- MCLoads
  Warmups <- MCWarmups
  Prompts <- MCPrompts
  Stderr = Stderr
  NoLog = NoLog
  PromptsSwap = FALSE
INVARIANTS
  TargetLive
  IInv
SYMMETRY Symmetry
CHECK_DEADLOCK FALSE
