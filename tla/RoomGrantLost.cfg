\* An AI DM's grant, revoked under the Session it has just started.
SPECIFICATION SwitchSpec
CONSTANTS
    c1 = c1  c2 = c2  dm1 = dm1  dm2 = dm2  pl1 = pl1  pl2 = pl2  pl3 = pl3  sp1 = sp1
    None = None
    Campaigns = {c1, c2}
    Seats = {dm1, dm2}
    SeatCampaign <- SwitchCampaign
    SeatRole <- SwitchRole
    Grants = {g1}
    Sessions = {n1}
    Characters = {}
    AccessSessions = {}
    Requests = {r1}
    MaxEpoch = 1
\* nothing may be left to do: every primary key used, every bound reached
CHECK_DEADLOCK FALSE
SYMMETRY Symmetry
INVARIANTS
    BoundDMGrantLastsSession
