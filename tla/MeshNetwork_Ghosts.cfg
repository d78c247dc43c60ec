SPECIFICATION FairSpec
CONSTANTS
  n1 = n1
  n2 = n2
  n3 = n3
  n4 = n4
  n5 = n5
  Addr = {n1, n2, n3, n4, n5}
  Links <- MCLinks
  Talks <- MCTalks
  MAX_SENDERS = 4
  MAX_HOPS = 3
  WEIGHT_THRESHOLD = 1
  WEIGHT_MAX = 3
  First = n1
  After <- MCAfter
  WEIGHT_STEP = 2
  PAIRS = 3
  NoAddr = noaddr
  MAX_MISHAPS = 2
PROPERTIES GhostsDropped
