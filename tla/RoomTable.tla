------------------------------ MODULE RoomTable ------------------------------
(***************************************************************************)
(* One Room: its lobby, its AI controllers and its Sessions, every         *)
(* transaction interleaved with every other.  Properties are grouped by    *)
(* the promise they belong to.                                             *)
(***************************************************************************)
EXTENDS CampaignLobby, AIControl, SessionLifecycle

\* the server process dies: calls between two transactions are never finished
Crash ==
    /\ pendingSelect' = {} /\ pendingClear' = {} /\ pendingStart' = {}
    /\ probe' = [r \in Requests |-> IdleProbe]
    /\ UNCHANGED <<campaignVars, seatVars, grantVars, sessionVars>>

Next == CampaignNext \/ RosterNext \/ SeatNext \/ AINext \/ SessionNext \/ Crash

Spec == Init /\ [][Next]_vars

-----------------------------------------------------------------------------
(* AI authority.                                                           *)

\* Every active grant is the one its live Seat is bound to, at the Seat's
\* current epoch: whatever revokes or replaces a controller leaves no second
\* token that still authorizes (P3-D rules 16 and 24).
GrantIsCurrent ==
    \A g \in Grants : grantStatus[g] = "active" =>
        /\ Live(grantSeat[g])
        /\ controller[grantSeat[g]] = g
        /\ epoch[grantSeat[g]] = grantGen[g]

\* No two grants of a Seat share a generation, and none is ahead of the Seat:
\* a (Seat, generation) pair names one AI for ever.
GenerationsDistinct ==
    \A g, h \in Grants :
        (/\ grantStatus[g] # "unminted" /\ grantStatus[h] # "unminted"
         /\ grantSeat[g] = grantSeat[h])
        => /\ grantGen[g] <= epoch[grantSeat[g]]
           /\ g # h => grantGen[g] # grantGen[h]

\* A grant bound to a Session authorizes only while that Session is active,
\* whether it ended, was abandoned, or the grant was minted as it ended
\* (P3-D rule 21).
BoundGrantsEndWithSession ==
    \A g \in Grants : (grantStatus[g] = "active" /\ grantSession[g] # None) =>
        ActiveSession(grantSession[g])

\* An unbound DM grant stays active only while its Campaign is active and
\* selected, however selection, status and mint interleave.
UnboundGrantsStartEligible ==
    \A g \in Grants : (grantStatus[g] = "active" /\ grantSession[g] = None) =>
        /\ campaignStatus[SeatCampaign[grantSeat[g]]] = "active"
        /\ activeCampaign = SeatCampaign[grantSeat[g]]

\* A grant authorizes no longer than what it was minted for: a Session that
\* runs, or a Campaign that may start one.
GrantsFollowScope == BoundGrantsEndWithSession /\ UnboundGrantsStartEligible

\* A Player Seat held by an AI can always be recovered: its grant is active
\* in a running Session it plays in, so Take Back, reassignment or End apply
\* (set_controller and archive refuse such a Seat).  In particular a Start
\* never meets one.
NoStrandedPlayerSeat ==
    \A s \in Seats : (SeatRole[s] = "player" /\ controller[s] \in Grants) =>
        LET g == controller[s] IN
        /\ Live(s)
        /\ grantStatus[g] = "active"
        /\ grantReturn[g] # None
        /\ grantSession[g] # None
        /\ ActiveSession(grantSession[g])
        /\ s \in joined[grantSession[g]]
        /\ SessionOf(grantSession[g], SeatCampaign[s])

\* Once revoked, a grant is never active again, and the scope a minted grant
\* carries is never rewritten, except that an unbound one is bound once.
GrantScopeImmutable ==
    [][\A g \in Grants : grantStatus[g] # "unminted" =>
        /\ grantStatus[g] = "revoked" => grantStatus'[g] = "revoked"
        /\ grantSeat'[g] = grantSeat[g]
        /\ grantGen'[g] = grantGen[g]
        /\ grantReturn'[g] = grantReturn[g]
        /\ grantSession'[g] = grantSession[g]
           \/ (grantStatus[g] = "active" /\ grantSession[g] = None)]_vars

-----------------------------------------------------------------------------
(* Sessions.                                                               *)

\* The DM fixed at Start keeps the live DM Seat, at the recorded generation,
\* until the Session is over: nothing in the lobby takes it away (rule 17).
DMSeatFixed ==
    \A n \in Sessions : ActiveSession(n) =>
        /\ dmSeat[n] \in Seats
        /\ Live(dmSeat[n])
        /\ controller[dmSeat[n]] = dmController[n]
        /\ dmController[n] \in Grants => epoch[dmSeat[n]] = dmGeneration[n]

\* Two Starts in one Campaign never both succeed.
OneSessionPerCampaign ==
    \A m, n \in Sessions : (m # n /\ ActiveSession(m) /\ ActiveSession(n)) =>
        SeatCampaign[dmSeat[m]] # SeatCampaign[dmSeat[n]]

\* What is played is leased and what is leased is played: a lease row exists
\* for exactly the Characters of participants of active Sessions.
LeaseExact ==
    \A ch \in Characters, n \in Sessions :
        lease[ch] = n <=> /\ ActiveSession(n)
                          /\ \E s \in joined[n] : plays[n][s] = ch

\* Two Seats of one Session never play the same Character.
OnePlayerPerCharacter ==
    \A n \in Sessions : \A s, t \in joined[n] :
        (s # t /\ plays[n][s] # None) => plays[n][s] # plays[n][t]

\* A selected Character can start: it is on the Campaign's roster, available
\* and not archived, and no other Seat of the Campaign selected it - through
\* every roster change, archive and deletion.
SelectionPlayable ==
    \A s \in Seats : selected[s] # None =>
        /\ Live(s)
        /\ SeatRole[s] = "player"
        /\ Eligible(SeatCampaign[s], selected[s])
        /\ \A t \in SeatsOf(SeatCampaign[s]) \ {s} : selected[t] # selected[s]

\* No Character in play is archived.
LeasedNotArchived == \A ch \in archived : lease[ch] = None

\* Both: what is leased is exactly what is played, and none of it is archived.
LeasesSound == LeaseExact /\ LeasedNotArchived

-----------------------------------------------------------------------------
(* The promises the tables implement.                                      *)

Authority == INSTANCE SeatAuthority WITH
    Humans <- AccessSessions, AIs <- Grants, NoOne <- None,
    holder <- controller,
    term   <- epoch,
    spent  <- {g \in Grants : grantStatus[g] # "unminted"},
    closed <- {s \in Seats : seatState[s] = "deleted"}

\* Seats keep the authority promise of SeatAuthority.
AuthorityRefined == Authority!Spec

\* computed from the participants, not from the lease table
UsersOf(ch) == {n \in Sessions : ActiveSession(n) /\ \E s \in joined[n] : plays[n][s] = ch}

Leases == INSTANCE ExclusiveLease WITH
    users <- [ch \in Characters |-> UsersOf(ch)],
    over  <- {n \in Sessions : sessionStatus[n] \in {"ended", "abandoned"}}

\* Sessions keep the lease promise of ExclusiveLease.
LeaseRefined == Leases!Spec

-----------------------------------------------------------------------------
(* Stated by the documents, and not what the code does.                    *)

\* The credential of an AI DM stays valid until its Session is over:
\* "one Start turns it into the Session's fixed controller credential".
BoundDMGrantLastsSession ==
    \A n \in Sessions : (ActiveSession(n) /\ dmController[n] \in Grants) =>
        grantStatus[dmController[n]] = "active"

\* With no call in flight, the selected Campaign is not archived: archiving
\* clears the selection and an archived Campaign cannot be selected.
ArchivedNotSelected ==
    (pendingClear = {} /\ pendingSelect = {} /\ activeCampaign # None) =>
        campaignStatus[activeCampaign] # "archived"
=============================================================================
