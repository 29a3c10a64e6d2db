CONSTANTS
  Users = {u1, u2}
  Passwords = {a}
  Roles = {"normie", "admin"}
  DevUsers = {}
  Requests = {p1, p2}
  AccessTTL = 1
  RefreshTTL = 1
  None = None
  MaxTokens = 2
  MaxGen = 1
  MaxTime = 0
  Upgrades = FALSE
SPECIFICATION Spec
SYMMETRY Symmetry
INVARIANTS SignInsHaveOwners
PROPERTIES AdminRemains RevivalNeedsRefresh AdminChangesAreAudited
