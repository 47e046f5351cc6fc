SPECIFICATION PlayerPageFairSpec
CONSTANTS
  Formats = {"predictions", "streak"}
  Option = {"up", "down"}
  Legs = 2
  Patient = TRUE
  MaxClicks = 3
  MaxPolls = 2
  MaxLosses = 1
CHECK_DEADLOCK FALSE
INVARIANTS
  LastClickWins
PROPERTIES
  ScreenSettles
