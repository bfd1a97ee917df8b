SPECIFICATION Spec
CONSTANTS
  Subs = {s1, s2}
  NoSub = NoSub
  Reqs = {r1, r2}
  Prices = {"pro"}
  Edits = {"free", "starter"}
  MaxEvents = 2
SYMMETRY Symmetry
INVARIANTS BTypeOK AccessWasBought SettledAccess
PROPERTY TornOnlyByRace
