SPECIFICATION CFairSpec
CONSTANTS
  Reqs = {r1, r2}
  MaxTime = 2
  MaxPosts = 3
  MaxFaults = 1
CHECK_DEADLOCK FALSE
INVARIANTS ClientTypeOK CookieStaysUsable
PROPERTY CallsSettle
