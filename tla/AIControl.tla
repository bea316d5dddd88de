------------------------------ MODULE AIControl ------------------------------
(***************************************************************************)
(* AI controller grants: persistence/rooms/ai_controllers.py.  A grant is  *)
(* minted with generation = the Seat's next controller_epoch and bound to  *)
(* the Seat in the same transaction.  Handoff, Take Back and reassignment  *)
(* run inside TableEventRepository.append, which holds the Session's row   *)
(* and refuses a Session that is not active.                               *)
(*                                                                         *)
(* resolve_current_scope takes no lock: it reads the grant row, then the   *)
(* rows that decide, and only then writes.  Each of the three is a step.   *)
(***************************************************************************)
EXTENDS TableState

FreshGrant(g) == grantStatus[g] = "unminted"

\* mutant: the generation of the last controller is used again
SameGeneration(s) == epoch[s]

NextGeneration(s) == epoch[s] + 1

\* insert the grant row and point the Seat at it, epoch = generation
BindGrant(g, s, session, return) ==
    /\ FreshGrant(g)
    /\ grantStatus' = [WithRevoked(ActiveGrantsOfSeat(s)) EXCEPT ![g] = "active"]
    /\ grantSeat' = [grantSeat EXCEPT ![g] = s]
    /\ grantGen' = [grantGen EXCEPT ![g] = NextGeneration(s)]
    /\ grantSession' = [grantSession EXCEPT ![g] = session]
    /\ grantReturn' = [grantReturn EXCEPT ![g] = return]
    /\ controller' = [controller EXCEPT ![s] = g]
    /\ epoch' = [epoch EXCEPT ![s] = NextGeneration(s)]
    /\ UNCHANGED <<ttlOver, seatState, selected, campaignVars, sessionVars, callVars>>

MintPreSessionDM(g, s) ==
    /\ Live(s)
    /\ SeatRole[s] = "dm"
    /\ campaignStatus[SeatCampaign[s]] = "active"
    /\ activeCampaign = SeatCampaign[s]
    /\ ~HasActiveSession(SeatCampaign[s])
    /\ BindGrant(g, s, None, None)

\* the Seat's human plays a Character in the active Session
MayHandOff(n, s) ==
    /\ ActiveSession(n)
    /\ SessionOf(n, SeatCampaign[s])
    /\ Live(s)
    /\ SeatRole[s] = "player"
    /\ controller[s] \in AccessSessions
    /\ s \in joined[n]
    /\ plays[n][s] # None

\* mutant: the Seat's id is stored where its human's belongs
HandoffOfSeat(g, n, s) == MayHandOff(n, s) /\ BindGrant(g, s, n, s)

PlayerHandoff(g, n, s) == MayHandOff(n, s) /\ BindGrant(g, s, n, controller[s])

\* the grant the Seat is bound to, still current for Session n
CurrentGrant(g, n, s) ==
    /\ controller[s] = g
    /\ grantStatus[g] = "active"
    /\ grantSession[g] = n
    /\ grantSeat[g] = s
    /\ grantGen[g] = epoch[s]

\* mutant: the Seat changes hands without a new epoch
ReturnSameEpoch(g, s, who) ==
    /\ grantStatus' = WithRevoked({g})
    /\ controller' = [controller EXCEPT ![s] = who]
    /\ UNCHANGED <<grantSeat, grantGen, grantSession, grantReturn, ttlOver>>
    /\ UNCHANGED <<seatState, epoch, selected, campaignVars, sessionVars, callVars>>

ReturnToHuman(g, s, who) ==
    /\ grantStatus' = WithRevoked({g})
    /\ controller' = [controller EXCEPT ![s] = who]
    /\ epoch' = [epoch EXCEPT ![s] = @ + 1]
    /\ UNCHANGED <<grantSeat, grantGen, grantSession, grantReturn, ttlOver>>
    /\ UNCHANGED <<seatState, selected, campaignVars, sessionVars, callVars>>

TakeBack(g, n, s) ==
    /\ ActiveSession(n)
    /\ Live(s)
    /\ CurrentGrant(g, n, s)
    /\ grantReturn[g] # None
    /\ ReturnToHuman(g, s, grantReturn[g])

AdminReassign(g, n, s, who) ==
    /\ ActiveSession(n)
    /\ SessionOf(n, SeatCampaign[s])
    /\ Live(s)
    /\ SeatRole[s] = "player"
    /\ CurrentGrant(g, n, s)
    /\ ReturnToHuman(g, s, who)

TtlRunsOut(g) ==
    /\ grantStatus[g] = "active"
    /\ grantReturn[g] = None
    /\ grantSession[g] = None
    /\ ttlOver' = [ttlOver EXCEPT ![g] = TRUE]
    /\ UNCHANGED <<grantStatus, grantSeat, grantGen, grantSession, grantReturn>>
    /\ UNCHANGED <<campaignVars, seatVars, sessionVars, callVars>>

-----------------------------------------------------------------------------
(* resolve_current_scope(grant, touch = TRUE), one call per Request.       *)

SetProbe(r, p) ==
    /\ probe' = [probe EXCEPT ![r] = p]
    /\ UNCHANGED <<pendingSelect, pendingClear, pendingStart>>

\* the call's clock, and its first read: the grant row, whose status,
\* session_id and expiry it goes on with
ResolveRead(r, g) ==
    /\ probe[r].stage = "idle"
    /\ grantStatus[g] = "active"
    /\ SetProbe(r, [stage |-> "read", grant |-> g, session |-> grantSession[g],
                   expired |-> ttlOver[g]])
    /\ UNCHANGED <<campaignVars, seatVars, grantVars, sessionVars>>

SeatStillBound(g) ==
    LET s == grantSeat[g] IN Live(s) /\ controller[s] = g /\ epoch[s] = grantGen[g]

\* an unbound grant needs its Campaign Start-eligible
PreSessionScope(g) ==
    LET c == SeatCampaign[grantSeat[g]] IN
    /\ SeatRole[grantSeat[g]] = "dm"
    /\ campaignStatus[c] = "active"
    /\ activeCampaign = c

\* a bound one needs its Session active and its part in it
SessionScope(g, n) ==
    LET s == grantSeat[g] IN
    /\ SessionOf(n, SeatCampaign[s])
    /\ ActiveSession(n)
    /\ IF SeatRole[s] = "dm"
       THEN dmController[n] = g /\ dmGeneration[n] = grantGen[g]
       ELSE s \in joined[n] /\ plays[n][s] # None

\* the other reads, judged with the session_id of the first one
ResolveJudge(r) ==
    /\ probe[r].stage = "read"
    /\ LET g == probe[r].grant
           n == probe[r].session
           granted == /\ SeatStillBound(g)
                      /\ IF n = None
                         THEN ~probe[r].expired /\ PreSessionScope(g)
                         ELSE SessionScope(g, n)
       IN  SetProbe(r, IF granted THEN IdleProbe ELSE [probe[r] EXCEPT !.stage = "denied"])
    /\ UNCHANGED <<campaignVars, seatVars, grantVars, sessionVars>>

\* UPDATE ... WHERE id = grant: whatever has happened to the row since
ResolveRevoke(r) ==
    /\ probe[r].stage = "denied"
    /\ grantStatus' = WithRevoked({probe[r].grant})
    /\ SetProbe(r, IdleProbe)
    /\ UNCHANGED <<grantSeat, grantGen, grantSession, grantReturn, ttlOver>>
    /\ UNCHANGED <<campaignVars, seatVars, sessionVars>>

AINext ==
    \/ \E g \in Grants, s \in Seats : MintPreSessionDM(g, s)
    \/ \E g \in Grants, n \in Sessions, s \in Seats :
          \/ PlayerHandoff(g, n, s) \/ TakeBack(g, n, s)
          \/ \E who \in AccessSessions : AdminReassign(g, n, s, who)
    \/ \E g \in Grants : TtlRunsOut(g)
    \/ \E r \in Requests :
          \/ ResolveJudge(r) \/ ResolveRevoke(r)
          \/ \E g \in Grants : ResolveRead(r, g)
=============================================================================
