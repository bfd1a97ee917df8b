SPECIFICATION FairSpec
CONSTANTS
  Files = {f1}
  Reqs = {r1}
  NoFile = NoFile
  Limit = 2
  MaxJobs = 1
  MaxFaults = 1
CHECK_DEADLOCK FALSE
PROPERTY ProcessingSettles
