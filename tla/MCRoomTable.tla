----------------------------- MODULE MCRoomTable -----------------------------
(***************************************************************************)
(* Small Rooms for TLC.  One run has the whole behaviour from an empty     *)
(* Room with one Campaign (Spec).  The others start from a Room already    *)
(* set up, with one Campaign or two - a state the whole behaviour reaches -*)
(* and leave out the operations their question does not depend on.  One of *)
(* them has three such scenes: a lobby, a hand-off, two Campaigns.         *)
(***************************************************************************)
EXTENDS RoomTable, TLC

CONSTANTS c1, c2, dm1, dm2, pl1, pl2, pl3, sp1

\* one Campaign with a DM and a Player Seat
DuoCampaign == dm1 :> c1 @@ pl1 :> c1
DuoRole     == dm1 :> "dm" @@ pl1 :> "player"

\* two Campaigns whose DM Seats an AI may hold
SwitchCampaign == dm1 :> c1 @@ dm2 :> c2
SwitchRole     == dm1 :> "dm" @@ dm2 :> "dm"

\* the Seats of the three scenes, c2 in the third only
SceneCampaign == dm1 :> c1 @@ pl1 :> c1 @@ pl3 :> c1 @@ sp1 :> c1 @@ dm2 :> c2 @@ pl2 :> c2
SceneRole     == dm1 :> "dm" @@ pl1 :> "player" @@ pl3 :> "player" @@ sp1 :> "spectator"
                 @@ dm2 :> "dm" @@ pl2 :> "player"

Symmetry == Permutations(Grants) \cup Permutations(Sessions) \cup Permutations(AccessSessions)
            \cup Permutations(Characters)

\* Init, except that the Campaigns are active, their Seats are created and held
\* by who, and their rosters are filled; no other row of these exists
ReadyInit(campaigns, seats, characters, who) ==
    /\ activeCampaign = None
    /\ campaignStatus = [c \in Campaigns |-> IF c \in campaigns THEN "active" ELSE "absent"]
    /\ roster = [c \in Campaigns |-> [ch \in Characters |->
                    IF c \in campaigns /\ ch \in characters THEN "available" ELSE "absent"]]
    /\ archived = {}
    /\ seatState = [s \in Seats |-> IF s \in seats THEN "live" ELSE "absent"]
    /\ controller = [s \in Seats |-> IF s \in seats THEN who ELSE None]
    /\ epoch = [s \in Seats |-> IF s \in seats /\ who # None THEN 1 ELSE 0]
    /\ selected = [s \in Seats |-> None]
    /\ GrantInit /\ SessionInit /\ CallInit

Switching == \E c \in Campaigns : SelectBegin(c) \/ SelectCommit(c)

Started == {n \in Sessions : sessionStatus[n] # "unused"}
Listed == {ch \in Characters : \E c \in Campaigns : roster[c][ch] # "absent"}

\* one lobby whose two Player Seats and Spectator compete for two Characters,
\* before and during one Session
LobbyInit == \E h \in AccessSessions : ReadyInit({c1}, {dm1, pl1, pl3, sp1}, Characters, h)

LobbyNext ==
    /\ \/ Switching \/ RosterNext \/ SessionNext
       \/ \E s \in Seats :
             \/ ArchiveSeat(s) \/ DeleteSeat(s)
             \/ \E ch \in Characters \cup {None} : SelectCharacter(s, ch)
    /\ Cardinality(Started') <= 1

\* one Player Seat passed between humans and AIs, one Campaign, no roster change
HandoffInit == \E ch \in Characters : ReadyInit({c1}, {dm1, pl1}, {ch}, None)

HandoffNext ==
    /\ \/ Switching \/ AINext \/ SessionNext \/ Crash
       \/ \E s \in Seats :
             \/ ArchiveSeat(s)
             \/ \E who \in AccessSessions \cup {None} : SetController(s, who)
             \/ \E ch \in Listed : SelectCharacter(s, ch)
    /\ Cardinality(Started') <= 1

\* the same Character played in two Campaigns, all Seats with one human
TwinInit == \E h \in AccessSessions, ch \in Characters : ReadyInit({c1, c2}, {dm1, pl1, dm2, pl2}, {ch}, h)

TwinNext ==
    /\ \/ Switching \/ RosterNext \/ SessionNext
       \/ \E s \in Seats, ch \in Characters : SelectCharacter(s, ch)
    /\ Cardinality(Listed') <= 1

\* a scene is known by the rows that exist
ScenesNext ==
    \/ seatState[sp1] # "absent" /\ LobbyNext
    \/ seatState[sp1] = "absent" /\ campaignStatus[c2] = "absent" /\ HandoffNext
    \/ campaignStatus[c2] # "absent" /\ TwinNext

ScenesSpec == (LobbyInit \/ HandoffInit \/ TwinInit) /\ [][ScenesNext]_vars

\* selecting and archiving Campaigns, with no crash
ArchiveSpec == ReadyInit(Campaigns, Seats, Characters, None) /\ [][CampaignNext]_vars

\* AI DMs while Campaigns are switched and archived
SwitchNext ==
    \/ Switching \/ ClearSelection \/ AINext \/ SessionNext \/ Crash
    \/ \E c \in Campaigns :
          \/ ClearArchivedSelection(c)
          \/ \E status \in {"active", "archived"} : SetStatus(c, status)
    \/ \E s \in Seats : ArchiveSeat(s) \/ SetController(s, None)

SwitchSpec == ReadyInit(Campaigns, Seats, Characters, None) /\ [][SwitchNext]_vars
=============================================================================
