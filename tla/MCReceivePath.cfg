SPECIFICATION PathSpec
CONSTANTS
  RX_BUFFER_DEPTH = 6
  MAX_DATA_LENGTH = 4
  Byte = {0, 1, 2, 3}
  CR = 1
  Cipher <- MCCipher
  Payloads <- MCPlain
INVARIANT KeepsUp
PROPERTY DeliversMessages
