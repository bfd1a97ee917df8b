SPECIFICATION Spec
CONSTANTS
  Users = {u0, u1, u2}
  Founder = u0
  Invites = {i1, i2}
  Reqs = {r1}
  NoUser = NoUser
  NoInvite = NoInvite
  Limit = 3
PROPERTY RemovalSparesLastOwner
