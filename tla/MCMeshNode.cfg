SPECIFICATION Spec
CONSTANTS
  MAX_SENDERS = 2
  MAX_HOPS = 3
  WEIGHT_THRESHOLD = 1
  WEIGHT_MAX = 3
  WEIGHT_STEP = 2
  Self = self
  p1 = p1
  p2 = p2
  p3 = p3
  p4 = p4
  Addr = {self, p1, p2, p3, p4}
  NoAddr = noaddr
  InRange = {p1, p2, p3}
  PAIRS = 3
  Pings <- MCPings
  Datas <- MCNone
  RX_BUFFER_DEPTH = 2
  MAX_DATA_LENGTH = 6
  Byte = {0, 1, 2, 3}
  CR = 1
  Cipher <- MCCipher
  Payloads <- MCNone
INVARIANTS
  TypeOK
  BuffersApart
PROPERTY TableImplemented
