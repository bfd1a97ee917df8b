SPECIFICATION CSpec
CONSTANTS
  Reqs = {r1, r2}
  MaxTime = 2
  MaxPosts = 3
  MaxFaults = 0
CHECK_DEADLOCK FALSE
PROPERTY NoSpuriousLogin
