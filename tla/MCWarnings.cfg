SPECIFICATION FairSpec
CONSTANTS
  Plants = {0, 1, 2}
  Rooms = {0, 1}
  Climates <- MCClimates
  Waters <- MCWaters
  Leftover = 0
  Types = {0, 1, 2, 3}
  TypesOf <- MCTypesOf
  Limits <- MCLimits
INVARIANTS TypeOK RoomWarnings
PROPERTY AdviceSettles
