CONSTANTS
  Users = {u1}
  Passwords = {a}
  Roles = {"admin"}
  DevUsers = {}
  Requests = {p1, p2}
  AccessTTL = 1
  RefreshTTL = 1
  None = None
  MaxTokens = 3
  MaxGen = 1
  MaxTime = 0
  Upgrades = FALSE
SPECIFICATION Spec
SYMMETRY Symmetry
PROPERTY RefreshTokenWorksOnce
