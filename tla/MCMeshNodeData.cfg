SPECIFICATION Spec
CONSTANTS
  MAX_SENDERS = 3
  MAX_HOPS = 3
  WEIGHT_THRESHOLD = 1
  WEIGHT_MAX = 3
  WEIGHT_STEP = 2
  Self = self
  p1 = p1
  p2 = p2
  p3 = p3
  p4 = p4
  Addr = {self, p1, p2, p3, p4}
  NoAddr = noaddr
  InRange = {p1, p2}
  PAIRS = 2
  Pings <- MCOnePing
  Datas <- MCDatas
  RX_BUFFER_DEPTH = 4
  MAX_DATA_LENGTH = 4
  Byte = {0, 1, 2, 3}
  CR = 1
  Cipher <- MCCipher
  Payloads <- MCPayload
INVARIANTS
  RxTypeOK
  RoundListsOnce
  PingsKeepRules
PROPERTIES
  UnreadKept
  DataToNeighbors
