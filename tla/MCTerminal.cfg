SPECIFICATION FairSpec
CONSTANTS
  Items = {0, 1}
  Kinds = {"TEMP"}
  Sensors <- MCSensors
  Values <- MCValues
  Types = {0, 1}
  ROWS = 30
  COLS = 100
  Touches <- MCTouches
  MAX_AGE = 0
  SETTING_CYCLES = 1
  DISPLAY_CYCLES = 2
CHECK_DEADLOCK FALSE
INVARIANTS TypeOK Attributed
PROPERTIES HeldTouchIdle Refreshed
