SPECIFICATION Spec
CONSTANTS
  Files = {f1, f2, f3}
  Reqs = {r1, r2}
  NoFile = NoFile
  Limit = 1
  MaxJobs = 2
  MaxFaults = 1
CHECK_DEADLOCK FALSE
SYMMETRY Symmetry
INVARIANTS TypeOK DoneMeansIngested OneIngestionPerJob QuotaOvershootBounded BytesKept
PROPERTY CatalogSpec
