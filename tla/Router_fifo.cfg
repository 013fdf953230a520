\* Two messages per pair; the buffer holds everything that may be kept.
CONSTANTS
  w1 = w1  s1 = s1  s2 = s2
  Stub = Stub  Nil = Nil
  Address = {w1, s1, s2}
  Pairs <- MCPairs
  MaxSent = 2
  BufSize = 4
SPECIFICATION FairSpec
INVARIANT CountCoversKept
PROPERTIES ImplementsFifoPairs PostedIsTaken
CHECK_DEADLOCK FALSE
