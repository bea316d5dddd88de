\* A movement that pauses where it began is given the walk speed twice.
SPECIFICATION MCSpec
CONSTANTS
    c1 = c1  c2 = c2  m1 = m1  m2 = m2  bless = bless  bane = bane
    None = None
    Characters = {c1, c2}
    Monsters = {m1, m2}
    Pack = {m1, m2}
    Totals = {1, 2}
    AttacksAllowed = 2
    Cells = {0, 1, 2, 3}
    Door = 1
    Paths <- LinePaths
    Speed = 2
    MaxRound = 2
    MaxSession = 2
    MaxBoard = 4
    MaxCalls = 2
    Spells = {bless, bane}
    MaxCasts = 3
    MaxChecks = 2
    MaxRows = 3
CHECK_DEADLOCK FALSE
INVARIANT BaseSpeedOncePerTurn
