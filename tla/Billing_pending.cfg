SPECIFICATION Spec
CONSTANTS
  Subs = {s1, s2}
  NoSub = NoSub
  Reqs = {r1}
  Prices = {"pro"}
  Edits = {}
  MaxEvents = 3
INVARIANT PendingPaymentBlocked
