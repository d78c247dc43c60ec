SPECIFICATION FairSpec
CONSTANTS
  MAX_SENDERS = 2
  MAX_HOPS = 3
  WEIGHT_THRESHOLD = 2
  WEIGHT_MAX = 4
  WEIGHT_STEP = 2
  Self = self
  Addr = {self, p1, p2, p3}
  NoAddr = noaddr
  Reports <- MCReports
INVARIANTS
  TypeOK
  LookupAgrees
  RouteSound
  ChildOwned
PROPERTIES
  SilenceForgets
  QuietEmpties
