CONSTANTS
  Users = {u1}
  Passwords = {a, b}
  Roles = {"admin"}
  DevUsers = {u1}
  Requests = {p1}
  AccessTTL = 1
  RefreshTTL = 2
  None = None
  MaxTokens = 3
  MaxGen = 2
  MaxTime = 3
  Upgrades = TRUE
SPECIFICATION Spec
SYMMETRY Symmetry
INVARIANTS TypeOK RevokedStaysRevoked SignInOutlivesAccess
PROPERTIES ImplementsSignIns
