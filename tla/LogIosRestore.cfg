\* iOS: two prompts at once, and nothing else.
SPECIFICATION Spec
CONSTANTS
  l1 = l1
  l2 = l2
  w1 = w1
  p1 = p1
  p2 = p2
  Loads <- MCNone
  Warmups <- MCNone
  Prompts <- MCPrompts
  Stderr = Stderr
  NoLog = NoLog
  PromptsSwap = TRUE
INVARIANTS
  RestoredAtRest
SYMMETRY Symmetry
CHECK_DEADLOCK FALSE
