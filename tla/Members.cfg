SPECIFICATION Spec
CONSTANTS
  Users = {u0, u1, u2}
  Founder = u0
  Invites = {i1}
  Reqs = {r1, r2}
  NoUser = NoUser
  NoInvite = NoInvite
  Limit = 3
SYMMETRY Symmetry
INVARIANTS MTypeOK InvitationBounded
PROPERTIES CancelledAdmitsNobody LastManagerLeavesByRace
