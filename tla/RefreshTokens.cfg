SPECIFICATION Spec
CONSTANTS
  Reqs = {r1, r2}
  MaxTime = 3
  MaxPosts = 5
  MaxFaults = 1
SYMMETRY Symmetry
CHECK_DEADLOCK FALSE
INVARIANTS RTTypeOK RotationBounded SessionSurvivesRotation
