SPECIFICATION Spec
CONSTANTS
  boss = boss
  aide = aide
  None = None
  h1 = h1
  h2 = h2
  User <- MCUser
  Founder = boss
  Given <- MCGiven
  MaxSalts = 2
  Client = {1, 2}
  Asker = {1}
  Request = {1, 2}
  Pair = {1, 2, 3}
  Handler <- MCHandler
  MaxPending = 1
  MaxIdleClients = 1
  PendingTTL = 1
  CodeTTL = 1
  AccessTTL = 1
  RefreshTTL = 2
  Horizon = 3
SYMMETRY Symmetric
INVARIANTS AdminRemains OnePair RevokedIsGone DiesWithAccount GrantsShown
PROPERTIES HoldersKept
