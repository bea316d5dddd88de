\* The whole behaviour from an empty Room: one Campaign, one grant, one Session.
SPECIFICATION Spec
CONSTANTS
    c1 = c1  c2 = c2  dm1 = dm1  dm2 = dm2  pl1 = pl1  pl2 = pl2  pl3 = pl3  sp1 = sp1
    None = None
    Campaigns = {c1}
    Seats = {dm1, pl1}
    SeatCampaign <- DuoCampaign
    SeatRole <- DuoRole
    Grants = {g1}
    Sessions = {n1}
    Characters = {ch1}
    AccessSessions = {h1}
    Requests = {r1}
    MaxEpoch = 1
\* nothing may be left to do: every primary key used, every bound reached
CHECK_DEADLOCK FALSE
SYMMETRY Symmetry
INVARIANTS
    TypeOK
    GrantsFollowScope
    DMSeatFixed
PROPERTIES
    AuthorityRefined
