----------------------------- MODULE TableState -----------------------------
(***************************************************************************)
(* The shared database state of one Room of Adventure Table: its           *)
(* Campaigns, Seats, AI controller grants, Sessions, participants and      *)
(* Character leases (persistence/rooms/tables.py).  The operations on it   *)
(* are in CampaignLobby, AIControl and SessionLifecycle; RoomTable puts    *)
(* them together.                                                          *)
(*                                                                         *)
(* A row that does not exist yet is "absent" / "unminted" / "unused"; a    *)
(* row a cascade removed is "deleted" (a grant's removal is "revoked": it  *)
(* can neither be found nor authorize).  Primary keys are never reused.    *)
(***************************************************************************)
EXTENDS Naturals, FiniteSets

CONSTANTS
    Campaigns, Seats, Grants, Sessions, Characters,
    AccessSessions,      \* human room_access_sessions of the Room
    Requests,            \* AI requests being authenticated at one time
    SeatCampaign,        \* [Seats -> Campaigns], campaign_seats.campaign_id
    SeatRole,            \* [Seats -> Roles], campaign_seats.role
    MaxEpoch,            \* bound: voluntary controller changes stop here
    None                 \* SQL NULL

Roles == {"dm", "player", "spectator"}

ASSUME SeatAssumption ==
    /\ SeatCampaign \in [Seats -> Campaigns]
    /\ SeatRole \in [Seats -> Roles]

ASSUME KeyAssumption ==
    /\ AccessSessions \cap Grants = {}
    /\ None \notin Campaigns \cup Seats \cup Grants \cup Sessions
                    \cup Characters \cup AccessSessions

ASSUME EpochAssumption == MaxEpoch \in Nat

VARIABLES
    \* rooms, campaigns, campaign_roster_entries, characters
    activeCampaign,      \* rooms.active_campaign_id
    campaignStatus,      \* [Campaigns -> status]
    roster,              \* [Campaigns -> [Characters -> entry status]]
    archived,            \* the Characters with archived_at set
    \* campaign_seats
    seatState, controller, epoch, selected,
    \* ai_controller_grants
    grantStatus, grantSeat, grantGen, grantSession, grantReturn,
    ttlOver,             \* the clock has passed pre_session_expires_at
    \* sessions, session_participants, active_character_session_leases
    sessionStatus, dmSeat, dmController, dmGeneration, joined, plays, lease,
    \* calls in flight between two of their transactions
    pendingSelect,       \* select_campaign calls past their status check
    pendingClear,        \* archive calls before their second transaction
    pendingStart,        \* AI Start calls that have read their clock
    probe                \* resolve_current_scope calls between two reads

campaignVars == <<activeCampaign, campaignStatus, roster, archived>>
seatVars     == <<seatState, controller, epoch, selected>>
grantVars    == <<grantStatus, grantSeat, grantGen, grantSession, grantReturn, ttlOver>>
sessionVars  == <<sessionStatus, dmSeat, dmController, dmGeneration, joined, plays, lease>>
callVars     == <<pendingSelect, pendingClear, pendingStart, probe>>
vars         == <<campaignVars, seatVars, grantVars, sessionVars, callVars>>

LiveStatuses     == {"draft", "active", "completed", "archived"}
CampaignStatuses == LiveStatuses \cup {"absent", "deleted"}
\* "available" stands for roster status active or inactive, "gone" for retired or dead
RosterStatuses   == {"absent", "available", "gone"}
SeatStates       == {"absent", "live", "archived", "deleted"}
Controllers      == AccessSessions \cup Grants \cup {None}
ProbeStages      == {"idle", "read", "denied"}

IdleProbe == [stage |-> "idle", grant |-> None, session |-> None, expired |-> FALSE]

CampaignTypeOK ==
    /\ activeCampaign \in Campaigns \cup {None}
    /\ campaignStatus \in [Campaigns -> CampaignStatuses]
    /\ roster \in [Campaigns -> [Characters -> RosterStatuses]]
    /\ archived \in SUBSET Characters

SeatTypeOK ==
    /\ seatState \in [Seats -> SeatStates]
    /\ controller \in [Seats -> Controllers]
    /\ epoch \in [Seats -> Nat]
    /\ selected \in [Seats -> Characters \cup {None}]

GrantTypeOK ==
    /\ grantStatus \in [Grants -> {"unminted", "active", "revoked"}]
    /\ grantSeat \in [Grants -> Seats \cup {None}]
    /\ grantGen \in [Grants -> Nat]
    /\ grantSession \in [Grants -> Sessions \cup {None}]
    /\ grantReturn \in [Grants -> AccessSessions \cup {None}]
    /\ ttlOver \in [Grants -> BOOLEAN]
    /\ \A g \in Grants : grantStatus[g] # "unminted" => grantSeat[g] # None

SessionTypeOK ==
    /\ sessionStatus \in [Sessions -> {"unused", "active", "ended", "abandoned"}]
    /\ dmSeat \in [Sessions -> Seats \cup {None}]
    /\ dmController \in [Sessions -> Controllers]
    /\ dmGeneration \in [Sessions -> Nat]
    /\ joined \in [Sessions -> SUBSET Seats]
    /\ plays \in [Sessions -> [Seats -> Characters \cup {None}]]
    /\ lease \in [Characters -> Sessions \cup {None}]
    /\ \A n \in Sessions : sessionStatus[n] # "unused" => dmSeat[n] # None

CallTypeOK ==
    /\ pendingSelect \in SUBSET Campaigns
    /\ pendingClear \in SUBSET Campaigns
    /\ pendingStart \in SUBSET Grants
    /\ probe \in [Requests -> [stage : ProbeStages, grant : Grants \cup {None},
                               session : Sessions \cup {None}, expired : BOOLEAN]]

\* Every column holds a value of its domain.
TypeOK == CampaignTypeOK /\ SeatTypeOK /\ GrantTypeOK /\ SessionTypeOK /\ CallTypeOK

-----------------------------------------------------------------------------
(* The initial state, and the queries the handlers share.                  *)

GrantInit ==
    /\ grantStatus = [g \in Grants |-> "unminted"]
    /\ grantSeat = [g \in Grants |-> None]
    /\ grantGen = [g \in Grants |-> 0]
    /\ grantSession = [g \in Grants |-> None]
    /\ grantReturn = [g \in Grants |-> None]
    /\ ttlOver = [g \in Grants |-> FALSE]

SessionInit ==
    /\ sessionStatus = [n \in Sessions |-> "unused"]
    /\ dmSeat = [n \in Sessions |-> None]
    /\ dmController = [n \in Sessions |-> None]
    /\ dmGeneration = [n \in Sessions |-> 0]
    /\ joined = [n \in Sessions |-> {}]
    /\ plays = [n \in Sessions |-> [s \in Seats |-> None]]
    /\ lease = [ch \in Characters |-> None]

CallInit ==
    /\ pendingSelect = {} /\ pendingClear = {} /\ pendingStart = {}
    /\ probe = [r \in Requests |-> IdleProbe]

\* an empty database: the Room exists, nothing in it does
Init ==
    /\ activeCampaign = None
    /\ campaignStatus = [c \in Campaigns |-> "absent"]
    /\ roster = [c \in Campaigns |-> [ch \in Characters |-> "absent"]]
    /\ archived = {}
    /\ seatState = [s \in Seats |-> "absent"]
    /\ controller = [s \in Seats |-> None]
    /\ epoch = [s \in Seats |-> 0]
    /\ selected = [s \in Seats |-> None]
    /\ GrantInit /\ SessionInit /\ CallInit

Live(s) == seatState[s] = "live"

\* the Session's Campaign is the Campaign of its DM Seat
SessionOf(n, c) == dmSeat[n] \in Seats /\ SeatCampaign[dmSeat[n]] = c

ActiveSession(n) == sessionStatus[n] = "active"

HasActiveSession(c) == \E n \in Sessions : ActiveSession(n) /\ SessionOf(n, c)

\* roster status active or inactive, and the Character not archived
Eligible(c, ch) == roster[c][ch] = "available" /\ ch \notin archived

NoGrantsOfSeat(s) == {}   \* mutant: the Seat's earlier grants are overlooked

ActiveGrantsOfSeat(s) == {g \in Grants : grantStatus[g] = "active" /\ grantSeat[g] = s}

\* mutant: only the DM's grant is looked for
DMGrantsOfSession(n) ==
    {g \in Grants : grantStatus[g] = "active" /\ grantSession[g] = n /\ dmController[n] = g}

ActiveGrantsOfSession(n) == {g \in Grants : grantStatus[g] = "active" /\ grantSession[g] = n}

\* UPDATE ai_controller_grants SET status = 'revoked' WHERE id IN (gs)
WithRevoked(gs) ==
    [g \in Grants |-> IF g \in gs /\ grantStatus[g] # "unminted"
                      THEN "revoked" ELSE grantStatus[g]]
=============================================================================
