\* Three scenes: a lobby, a Seat passed between humans and AIs, two Campaigns.
SPECIFICATION ScenesSpec
CONSTANTS
    c1 = c1  c2 = c2  dm1 = dm1  dm2 = dm2  pl1 = pl1  pl2 = pl2  pl3 = pl3  sp1 = sp1
    None = None
    Campaigns = {c1, c2}
    Seats = {dm1, dm2, pl1, pl2, pl3, sp1}
    SeatCampaign <- SceneCampaign
    SeatRole <- SceneRole
    Grants = {g1, g2}
    Sessions = {n1, n2}
    Characters = {ch1, ch2}
    AccessSessions = {h1, h2}
    Requests = {r1}
    MaxEpoch = 1
\* nothing may be left to do: every primary key used, every bound reached
CHECK_DEADLOCK FALSE
SYMMETRY Symmetry
INVARIANTS
    SelectionPlayable
    GrantIsCurrent
    NoStrandedPlayerSeat
    LeasesSound
    OneSessionPerCampaign
PROPERTIES
    LeaseRefined
