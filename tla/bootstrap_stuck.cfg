SPECIFICATION BootFairSpec
CONSTANTS
  b1 = b1
  b2 = b2
  Start = {b1, b2}
  Other = {}
  Nobody = Nobody
  MaxEdits = 0
  MaxDeaths = 1
PROPERTIES SeededAtLast
CHECK_DEADLOCK FALSE
