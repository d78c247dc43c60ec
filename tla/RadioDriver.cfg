SPECIFICATION FairSpec
CONSTANTS
  Frames = {4, 8}
  RX_FIFO = 3
INVARIANTS
  TypeOK
  Hears
  PingAlone
  WholeFrames
PROPERTIES
  LineReleased
  KeepsHearing
