--------------------------- MODULE CampaignLobby ---------------------------
(***************************************************************************)
(* Campaigns, rosters and Seats outside play: domain/rooms/campaigns.py,   *)
(* domain/rooms/seats.py and their repositories.                           *)
(*                                                                         *)
(* A guard is what the transaction itself checks under its row locks.  The *)
(* services also check, in an earlier transaction, that the Campaign is    *)
(* active and selected; nothing holds that answer, so the transaction may  *)
(* run after it became stale and it is no guard here.  The one such check  *)
(* a document relies on (an archived Campaign is never selected) is a step *)
(* of its own: SelectBegin.                                                *)
(***************************************************************************)
EXTENDS TableState

Exists(c) == campaignStatus[c] \in LiveStatuses

\* the active DM grants of c that no Session has bound
UnboundGrants(c) ==
    {g \in Grants : /\ grantStatus[g] = "active"
                    /\ grantSeat[g] \in Seats
                    /\ SeatCampaign[grantSeat[g]] = c
                    /\ SeatRole[grantSeat[g]] = "dm"
                    /\ grantSession[g] = None}

RevokeUnbound(c) ==
    /\ grantStatus' = WithRevoked(UnboundGrants(c))
    /\ UNCHANGED <<grantSeat, grantGen, grantSession, grantReturn, ttlOver>>

CreateCampaign(c) ==
    /\ campaignStatus[c] = "absent"
    /\ campaignStatus' = [campaignStatus EXCEPT ![c] = "draft"]
    /\ UNCHANGED <<activeCampaign, roster, archived>>
    /\ UNCHANGED <<seatVars, grantVars, sessionVars, callVars>>

\* any status may follow any other; archiving still owes clear_selection_if_campaign
SetStatus(c, status) ==
    /\ Exists(c)
    /\ campaignStatus' = [campaignStatus EXCEPT ![c] = status]
    /\ IF status = "active" THEN UNCHANGED grantVars ELSE RevokeUnbound(c)
    /\ pendingClear' = IF status = "archived" THEN pendingClear \cup {c} ELSE pendingClear
    /\ UNCHANGED <<activeCampaign, roster, archived>>
    /\ UNCHANGED <<seatVars, sessionVars, pendingSelect, pendingStart, probe>>

ClearArchivedSelection(c) ==
    /\ c \in pendingClear
    /\ pendingClear' = pendingClear \ {c}
    /\ IF activeCampaign = c
       THEN activeCampaign' = None /\ RevokeUnbound(c)
       ELSE UNCHANGED <<activeCampaign, grantVars>>
    /\ UNCHANGED <<campaignStatus, roster, archived>>
    /\ UNCHANGED <<seatVars, sessionVars, pendingSelect, pendingStart, probe>>

\* mutant: the grants of the Campaign switched away from live on
MoveSelectionOnly(c) == activeCampaign' = c /\ UNCHANGED grantVars

\* select_active_campaign: the grants of the Campaign switched away from die
MoveSelection(c) ==
    IF activeCampaign = c
    THEN UNCHANGED <<activeCampaign, grantVars>>
    ELSE /\ activeCampaign' = c
         /\ IF activeCampaign \in Campaigns
            THEN RevokeUnbound(activeCampaign)
            ELSE UNCHANGED grantVars

SelectBegin(c) ==
    /\ Exists(c)
    /\ campaignStatus[c] # "archived"
    /\ pendingSelect' = pendingSelect \cup {c}
    /\ UNCHANGED <<campaignVars, seatVars, grantVars, sessionVars>>
    /\ UNCHANGED <<pendingClear, pendingStart, probe>>

\* the foreign key refuses a Campaign deleted since SelectBegin
SelectCommit(c) ==
    /\ c \in pendingSelect
    /\ pendingSelect' = pendingSelect \ {c}
    /\ IF Exists(c) THEN MoveSelection(c) ELSE UNCHANGED <<activeCampaign, grantVars>>
    /\ UNCHANGED <<campaignStatus, roster, archived>>
    /\ UNCHANGED <<seatVars, sessionVars, pendingClear, pendingStart, probe>>

ClearSelection ==
    /\ activeCampaign # None
    /\ MoveSelection(None)
    /\ UNCHANGED <<campaignStatus, roster, archived>>
    /\ UNCHANGED <<seatVars, sessionVars, callVars>>

SeatsOf(c) == {s \in Seats : SeatCampaign[s] = c}

\* the rows of Seats ss disappear, and by cascade their grants
DropSeats(ss) ==
    /\ seatState'  = [s \in Seats |-> IF s \in ss THEN "deleted" ELSE seatState[s]]
    /\ controller' = [s \in Seats |-> IF s \in ss THEN None ELSE controller[s]]
    /\ selected'   = [s \in Seats |-> IF s \in ss THEN None ELSE selected[s]]
    /\ grantStatus' = WithRevoked({g \in Grants : grantStatus[g] = "active"
                                                  /\ grantSeat[g] \in ss})
    /\ UNCHANGED epoch
    /\ UNCHANGED <<grantSeat, grantGen, grantSession, grantReturn, ttlOver>>

DeleteDraft(c) ==
    /\ campaignStatus[c] = "draft"
    /\ \A n \in Sessions : ~SessionOf(n, c)
    /\ campaignStatus' = [campaignStatus EXCEPT ![c] = "deleted"]
    /\ activeCampaign' = IF activeCampaign = c THEN None ELSE activeCampaign
    /\ roster' = [roster EXCEPT ![c] = [ch \in Characters |-> "absent"]]
    /\ DropSeats({s \in SeatsOf(c) : seatState[s] # "absent"})
    /\ UNCHANGED <<archived, sessionVars, callVars>>

-----------------------------------------------------------------------------
(* Roster entries and Characters.                                          *)

KeepSelections(ss, ch) == UNCHANGED selected   \* mutant: no cascade to the Seats

ClearSelections(ss, ch) ==
    selected' = [s \in Seats |-> IF s \in ss /\ selected[s] = ch THEN None ELSE selected[s]]

AddToRoster(c, ch, status) ==
    /\ Exists(c)
    /\ roster[c][ch] = "absent"
    /\ roster' = [roster EXCEPT ![c][ch] = status]
    /\ UNCHANGED <<activeCampaign, campaignStatus, archived>>
    /\ UNCHANGED <<seatVars, grantVars, sessionVars, callVars>>

\* retired or dead also empties the Seats that selected the Character;
\* status "absent" is remove_roster_entry
UpdateRoster(c, ch, status) ==
    /\ roster[c][ch] # "absent"
    /\ roster' = [roster EXCEPT ![c][ch] = status]
    /\ IF status = "available" THEN UNCHANGED selected ELSE ClearSelections(SeatsOf(c), ch)
    /\ UNCHANGED <<activeCampaign, campaignStatus, archived>>
    /\ UNCHANGED <<seatState, controller, epoch, grantVars, sessionVars, callVars>>

\* mutant: the Seats' selection is taken for the lease
Unselected(ch) == \A s \in Seats : selected[s] # ch

Unleased(ch) == lease[ch] = None

\* archive under unleased_character_write_scope: Seats and Character locked first
ArchiveCharacter(ch) ==
    /\ ch \notin archived
    /\ Unleased(ch)
    /\ archived' = archived \cup {ch}
    /\ ClearSelections(Seats, ch)
    /\ UNCHANGED <<activeCampaign, campaignStatus, roster>>
    /\ UNCHANGED <<seatState, controller, epoch, grantVars, sessionVars, callVars>>

UnarchiveCharacter(ch) ==
    /\ ch \in archived
    /\ archived' = archived \ {ch}
    /\ UNCHANGED <<activeCampaign, campaignStatus, roster>>
    /\ UNCHANGED <<seatVars, grantVars, sessionVars, callVars>>

-----------------------------------------------------------------------------
(* Seats.                                                                  *)

CreateSeat(s) ==
    /\ Exists(SeatCampaign[s])
    /\ seatState[s] = "absent"
    /\ seatState' = [seatState EXCEPT ![s] = "live"]
    /\ UNCHANGED <<controller, epoch, selected>>
    /\ UNCHANGED <<campaignVars, grantVars, sessionVars, callVars>>

\* mutant: only a human DM is fixed
FixedByHumanSession(s) ==
    \E n \in Sessions : /\ ActiveSession(n) /\ dmSeat[n] = s
                        /\ dmController[n] \in AccessSessions

FixedByActiveSession(s) == \E n \in Sessions : ActiveSession(n) /\ dmSeat[n] = s

\* neither a DM Seat in play nor a Player Seat its AI still holds
MayLoseController(s) ==
    /\ SeatRole[s] = "dm" => ~FixedByActiveSession(s)
    /\ SeatRole[s] = "player" => controller[s] \notin Grants

RevokeIfAI(s) ==
    /\ grantStatus' = IF controller[s] \in Grants
                      THEN WithRevoked(ActiveGrantsOfSeat(s)) ELSE grantStatus
    /\ UNCHANGED <<grantSeat, grantGen, grantSession, grantReturn, ttlOver>>

SetController(s, who) ==
    /\ Live(s)
    /\ who # controller[s]
    /\ MayLoseController(s)
    /\ epoch[s] < MaxEpoch
    /\ controller' = [controller EXCEPT ![s] = who]
    /\ epoch' = [epoch EXCEPT ![s] = @ + 1]
    /\ RevokeIfAI(s)
    /\ UNCHANGED <<seatState, selected, campaignVars, sessionVars, callVars>>

\* (campaign_id, selected_character_id) is unique
SelectCharacter(s, ch) ==
    /\ Live(s)
    /\ SeatRole[s] = "player"
    /\ ch # None => /\ Eligible(SeatCampaign[s], ch)
                    /\ \A t \in SeatsOf(SeatCampaign[s]) \ {s} : selected[t] # ch
    /\ selected' = [selected EXCEPT ![s] = ch]
    /\ UNCHANGED <<seatState, controller, epoch>>
    /\ UNCHANGED <<campaignVars, grantVars, sessionVars, callVars>>

ArchiveSeat(s) ==
    /\ Live(s)
    /\ MayLoseController(s)
    /\ seatState' = [seatState EXCEPT ![s] = "archived"]
    /\ controller' = [controller EXCEPT ![s] = None]
    /\ epoch' = [epoch EXCEPT ![s] = IF controller[s] = None THEN @ ELSE @ + 1]
    /\ selected' = [selected EXCEPT ![s] = None]
    /\ RevokeIfAI(s)
    /\ UNCHANGED <<campaignVars, sessionVars, callVars>>

\* delete_unreferenced: no participant and no Session has ever named the Seat
DeleteSeat(s) ==
    /\ seatState[s] \in {"live", "archived"}
    /\ \A n \in Sessions : s \notin joined[n] /\ dmSeat[n] # s
    /\ DropSeats({s})
    /\ UNCHANGED <<campaignVars, sessionVars, callVars>>

CampaignNext ==
    \/ ClearSelection
    \/ \E c \in Campaigns :
          \/ CreateCampaign(c) \/ DeleteDraft(c)
          \/ SelectBegin(c) \/ SelectCommit(c) \/ ClearArchivedSelection(c)
          \/ \E status \in LiveStatuses : SetStatus(c, status)

RosterNext ==
    \/ \E c \in Campaigns, ch \in Characters :
          \/ \E status \in {"available", "gone"} : AddToRoster(c, ch, status)
          \/ \E status \in RosterStatuses : UpdateRoster(c, ch, status)
    \/ \E ch \in Characters : ArchiveCharacter(ch) \/ UnarchiveCharacter(ch)

SeatNext ==
    \E s \in Seats :
        \/ CreateSeat(s) \/ ArchiveSeat(s) \/ DeleteSeat(s)
        \/ \E who \in AccessSessions \cup {None} : SetController(s, who)
        \/ \E ch \in Characters \cup {None} : SelectCharacter(s, ch)
=============================================================================
