SPECIFICATION FairSpec
CONSTANTS
  MAX_SENDERS = 2
  MAX_HOPS = 3
  WEIGHT_THRESHOLD = 1
  WEIGHT_MAX = 3
  WEIGHT_STEP = 2
  Self = self
  p1 = p1
  p2 = p2
  p3 = p3
  Addr = {self, p1, p2, p3}
  InRange = {p1, p2}
  NoAddr = noaddr
  NoReport = noreport
  Reports <- MCReports
INVARIANTS
  TypeOK
  LookupAgrees
PROPERTY SilentLeaves
