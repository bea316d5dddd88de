-------------------------- MODULE SessionLifecycle --------------------------
(***************************************************************************)
(* Session Start, Late Join, End and Abandon: domain/rooms/sessions.py,    *)
(* persistence/rooms/sessions.py and session_live.py.  Start serializes on *)
(* the Campaign row and the Seat rows, everything during a Session on the  *)
(* Session row, so each transaction is one step; only the AI Start reads   *)
(* its clock before it waits for the locks (AIStartBegin).                 *)
(***************************************************************************)
EXTENDS TableState

\* mutant: an active Session is not looked for
StartScopeOfCampaign(c) == campaignStatus[c] = "active" /\ activeCampaign = c

\* _lock_start_scope
StartScope(c) ==
    /\ campaignStatus[c] = "active"
    /\ activeCampaign = c
    /\ ~HasActiveSession(c)

\* _lobby_participants: Player Seats with a Character and human Spectators
LobbyPlayers(c) ==
    {s \in Seats : /\ SeatCampaign[s] = c /\ Live(s)
                   /\ SeatRole[s] = "player" /\ selected[s] # None}

LobbySpectators(c) ==
    {s \in Seats : /\ SeatCampaign[s] = c /\ Live(s)
                   /\ SeatRole[s] = "spectator" /\ controller[s] \in AccessSessions}

\* mutant: leases of other Campaigns are overlooked
LobbyEligible(c) ==
    \A s \in LobbyPlayers(c) :
        controller[s] \notin Grants /\ Eligible(c, selected[s])

\* one of these refuses the whole Start
LobbyReady(c) ==
    \A s \in LobbyPlayers(c) :
        /\ controller[s] \notin Grants
        /\ Eligible(c, selected[s])
        /\ lease[selected[s]] = None

\* _insert_session_rows: the Session, its participants and their leases
InsertSession(n, s, generation) ==
    LET c == SeatCampaign[s] IN
    /\ sessionStatus[n] = "unused"
    /\ sessionStatus' = [sessionStatus EXCEPT ![n] = "active"]
    /\ dmSeat' = [dmSeat EXCEPT ![n] = s]
    /\ dmController' = [dmController EXCEPT ![n] = controller[s]]
    /\ dmGeneration' = [dmGeneration EXCEPT ![n] = generation]
    /\ joined' = [joined EXCEPT ![n] = {s} \cup LobbyPlayers(c) \cup LobbySpectators(c)]
    /\ plays' = [plays EXCEPT ![n] =
                    [t \in Seats |-> IF t \in LobbyPlayers(c) THEN selected[t] ELSE None]]
    /\ lease' = [ch \in Characters |->
                    IF \E t \in LobbyPlayers(c) : selected[t] = ch THEN n ELSE lease[ch]]

StartFromLobby(n, s) ==
    /\ StartScope(SeatCampaign[s])
    /\ Live(s)
    /\ SeatRole[s] = "dm"
    /\ controller[s] \in AccessSessions
    /\ LobbyReady(SeatCampaign[s])
    /\ InsertSession(n, s, 0)
    /\ UNCHANGED <<campaignVars, seatVars, grantVars, callVars>>

\* the AI authenticates and start_from_ai_dm_grant reads its clock
AIStartBegin(g) ==
    /\ grantStatus[g] = "active"
    /\ grantSession[g] = None
    /\ ~ttlOver[g]
    /\ pendingStart' = pendingStart \cup {g}
    /\ UNCHANGED <<campaignVars, seatVars, grantVars, sessionVars>>
    /\ UNCHANGED <<pendingSelect, pendingClear, probe>>

\* the clock read in AIStartBegin decides, not the time of the commit
AIStartCommit(n, g) ==
    LET s == grantSeat[g] IN
    /\ g \in pendingStart
    /\ pendingStart' = pendingStart \ {g}
    /\ StartScope(SeatCampaign[s])
    /\ grantStatus[g] = "active"
    /\ grantSession[g] = None
    /\ Live(s)
    /\ SeatRole[s] = "dm"
    /\ controller[s] = g
    /\ epoch[s] = grantGen[g]
    /\ LobbyReady(SeatCampaign[s])
    /\ InsertSession(n, s, grantGen[g])
    /\ grantSession' = [grantSession EXCEPT ![g] = n]
    /\ ttlOver' = [ttlOver EXCEPT ![g] = FALSE]
    /\ UNCHANGED <<grantStatus, grantSeat, grantGen, grantReturn>>
    /\ UNCHANGED <<campaignVars, seatVars, pendingSelect, pendingClear, probe>>

AIStartFail(g) ==
    /\ g \in pendingStart
    /\ pendingStart' = pendingStart \ {g}
    /\ UNCHANGED <<campaignVars, seatVars, grantVars, sessionVars>>
    /\ UNCHANGED <<pendingSelect, pendingClear, probe>>

\* _caller_is_current_dm and _revalidate_current_dm_binding; a human access
\* session is never revoked
CurrentDM(n) ==
    \/ dmController[n] \in AccessSessions
    \/ /\ dmController[n] \in Grants
       /\ LET g == dmController[n]
              s == dmSeat[n]
          IN /\ Live(s) /\ controller[s] = g /\ epoch[s] = dmGeneration[n]
             /\ grantStatus[g] = "active" /\ grantSession[g] = n
             /\ grantSeat[g] = s /\ grantGen[g] = dmGeneration[n]

JoinUnleased(n, s) == lease[selected[s]] = None   \* mutant: a participant may join again

JoinOnce(n, s) == s \notin joined[n]               \* mutant: leases are overlooked

FreeToJoin(n, s) == s \notin joined[n] /\ lease[selected[s]] = None

LateJoin(n, s) ==
    /\ ActiveSession(n)
    /\ SessionOf(n, SeatCampaign[s])
    /\ CurrentDM(n)
    /\ Live(s)
    /\ SeatRole[s] = "player"
    /\ selected[s] # None
    /\ FreeToJoin(n, s)
    /\ Eligible(SeatCampaign[s], selected[s])
    /\ joined' = [joined EXCEPT ![n] = @ \cup {s}]
    /\ plays' = [plays EXCEPT ![n][s] = selected[s]]
    /\ lease' = [lease EXCEPT ![selected[s]] = n]
    /\ UNCHANGED <<sessionStatus, dmSeat, dmController, dmGeneration>>
    /\ UNCHANGED <<campaignVars, seatVars, grantVars, callVars>>

\* mutant: only DM Seats are given back
DMSeatsHeldBy(gs) == {s \in Seats : controller[s] \in gs /\ SeatRole[s] = "dm"}

SeatsHeldBy(gs) == {s \in Seats : controller[s] \in gs}

\* finalize_in_transaction.  Some caller may always finish a Session: the
\* current human DM, or the Owner (Abandon, and End when the DM is an AI).
Finalize(n, status) ==
    LET gs == ActiveGrantsOfSession(n)
        released == SeatsHeldBy(gs)
    IN
    /\ ActiveSession(n)
    /\ controller' = [s \in Seats |-> IF s \in released THEN None ELSE controller[s]]
    /\ epoch' = [s \in Seats |-> IF s \in released THEN epoch[s] + 1 ELSE epoch[s]]
    /\ grantStatus' = WithRevoked(gs)
    /\ sessionStatus' = [sessionStatus EXCEPT ![n] = status]
    /\ lease' = [ch \in Characters |-> IF lease[ch] = n THEN None ELSE lease[ch]]
    /\ UNCHANGED <<seatState, selected, grantSeat, grantGen, grantSession, grantReturn, ttlOver>>
    /\ UNCHANGED <<dmSeat, dmController, dmGeneration, joined, plays, campaignVars, callVars>>

SessionNext ==
    \/ \E n \in Sessions, s \in Seats : StartFromLobby(n, s) \/ LateJoin(n, s)
    \/ \E g \in Grants : AIStartBegin(g) \/ AIStartFail(g)
    \/ \E n \in Sessions, g \in Grants : AIStartCommit(n, g)
    \/ \E n \in Sessions, status \in {"ended", "abandoned"} : Finalize(n, status)
=============================================================================
