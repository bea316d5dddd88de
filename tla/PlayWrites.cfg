CONSTANTS
  Characters = {c1, c2}
  Second = c2
  Drafts = {d1, d2}
  Calls = {k1, k2}
  Fields = {hp, slots}
  MaxVersions = 3
  MaxPatches = 2
  MaxWrites = 2
  MaxAttempts = 2
  Null = Null
  Requests = {k1, k2}
  Keys = {w1, w2, clientKey}
  Humans = {human, other}
  Seats = {seat}
  Rolls = {check}
  Actions = {act}
  MaxEvents = 5
  Adventures = {adventure}
  AdventureEntries = {theirScene}
  AdventureOf <- TheirAdventure
  DM = DM
  human = human
  other = other
  seat = seat
  check = check
  act = act
  Images = {i1, i2}
  clientKey = clientKey
  Dice = {1, 20}
  SceneEntries = {sc}
  ItemEntries = {it}
  adventure = adventure
  theirScene = theirScene
  OverrideIds = {o1}
  WorldKeys = {w1, w2}
  Sessions = {n1}
SPECIFICATION MCSpec
INVARIANTS StateIsWhole VersionsFormAChain ConfirmedOnceAsCompiled LockOrder RollsAndRowsMatchLog WorldIsWhole
PROPERTIES LegalMoves ManagedBetweenSessions ImplementsSheet
SYMMETRY Symmetry
CHECK_DEADLOCK FALSE
