SPECIFICATION TouchSpec
CONSTANTS
  WIDTH = 800
  HEIGHT = 480
  Xs = {0, 266, 532, 799}
  Ys = {0, 160, 320}
  SLOTS = 2
INVARIANTS
  TouchTypeOK
  OneSwipe
PROPERTY SwipeComplete
CHECK_DEADLOCK FALSE
