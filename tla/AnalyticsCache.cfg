SPECIFICATION ACFairSpec
CONSTANTS
  Files = {f1}
  Reqs = {r1, r2}
  Loads = {d1}
  NoFile = NoFile
  Limit = 1
  MaxJobs = 2
  MaxFaults = 1
CHECK_DEADLOCK FALSE
INVARIANTS ACTypeOK CacheSeesIngestions
PROPERTIES StaleEntriesGoAway SettlesUntilLoss
