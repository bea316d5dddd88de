----------------------------- MODULE RoomProofs -----------------------------
(***************************************************************************)
(* Theorems about a Room of any size, in the order in which they build on  *)
(* each other: types, AI authority, Sessions, Characters and leases, and   *)
(* the abstract specifications a Room implements.                          *)
(***************************************************************************)
EXTENDS RoomTable, TLAPS

-----------------------------------------------------------------------------
(***************************************************************************)
(* Every reachable state of a Room, whatever its size, is well typed.  One *)
(* step per operation; the operations of one component share a lemma.      *)
(***************************************************************************)

LEMMA InitTypeOK == Init => TypeOK
<1> SUFFICES ASSUME Init PROVE TypeOK
    OBVIOUS
<1>1. CampaignTypeOK
      BY DEF Init, CampaignTypeOK, CampaignStatuses, RosterStatuses
<1>2. SeatTypeOK
      BY DEF Init, SeatTypeOK, SeatStates, Controllers
<1>3. GrantTypeOK
      BY DEF Init, GrantInit, GrantTypeOK
<1>4. SessionTypeOK
      BY DEF Init, SessionInit, SessionTypeOK, Controllers
<1>5. CallTypeOK
      BY DEF Init, CallInit, CallTypeOK, IdleProbe, ProbeStages
<1> QED
    BY <1>1, <1>2, <1>3, <1>4, <1>5 DEF TypeOK

\* revoking grants keeps the status column well typed
LEMMA RevokedType ==
    ASSUME GrantTypeOK, NEW gs
    PROVE  /\ WithRevoked(gs) \in [Grants -> {"unminted", "active", "revoked"}]
           /\ \A g \in Grants : WithRevoked(gs)[g] # "unminted" => grantSeat[g] # None
BY DEF GrantTypeOK, WithRevoked

-----------------------------------------------------------------------------

LEMMA CampaignTypeStep == TypeOK /\ CampaignNext => TypeOK'
<1> SUFFICES ASSUME TypeOK, CampaignNext PROVE TypeOK'
    OBVIOUS
<1> USE DEF campaignVars, seatVars, grantVars, sessionVars, callVars
<1>0. /\ CampaignTypeOK /\ SeatTypeOK /\ GrantTypeOK /\ SessionTypeOK /\ CallTypeOK
      BY DEF TypeOK
<1>1. CASE ClearSelection
  <2>1. CampaignTypeOK' /\ GrantTypeOK'
        BY <1>0, <1>1, RevokedType
        DEF ClearSelection, MoveSelection, RevokeUnbound, CampaignTypeOK, GrantTypeOK
  <2> QED
      BY <1>0, <1>1, <2>1
      DEF ClearSelection, TypeOK, SeatTypeOK, SessionTypeOK, CallTypeOK
<1>2. ASSUME NEW c \in Campaigns, CreateCampaign(c)
      PROVE  TypeOK'
      BY <1>0, <1>2
      DEF CreateCampaign, TypeOK, CampaignTypeOK, SeatTypeOK, GrantTypeOK,
          SessionTypeOK, CallTypeOK, CampaignStatuses, LiveStatuses
<1>3. ASSUME NEW c \in Campaigns, DeleteDraft(c)
      PROVE  TypeOK'
  <2>1. CampaignTypeOK'
        BY <1>0, <1>3 DEF DeleteDraft, CampaignTypeOK, CampaignStatuses, RosterStatuses
  <2>2. SeatTypeOK' /\ GrantTypeOK'
        BY <1>0, <1>3, RevokedType
        DEF DeleteDraft, DropSeats, SeatTypeOK, GrantTypeOK, SeatStates, Controllers
  <2> QED
      BY <1>0, <1>3, <2>1, <2>2 DEF DeleteDraft, TypeOK, SessionTypeOK, CallTypeOK
<1>4. ASSUME NEW c \in Campaigns, SelectBegin(c)
      PROVE  TypeOK'
      BY <1>0, <1>4
      DEF SelectBegin, TypeOK, CampaignTypeOK, SeatTypeOK, GrantTypeOK,
          SessionTypeOK, CallTypeOK
<1>5. ASSUME NEW c \in Campaigns, SelectCommit(c)
      PROVE  TypeOK'
  <2>1. CampaignTypeOK' /\ GrantTypeOK'
        BY <1>0, <1>5, RevokedType
        DEF SelectCommit, MoveSelection, RevokeUnbound, CampaignTypeOK, GrantTypeOK
  <2>2. CallTypeOK'
        BY <1>0, <1>5 DEF SelectCommit, CallTypeOK
  <2> QED
      BY <1>0, <1>5, <2>1, <2>2 DEF SelectCommit, TypeOK, SeatTypeOK, SessionTypeOK
<1>6. ASSUME NEW c \in Campaigns, ClearArchivedSelection(c)
      PROVE  TypeOK'
  <2>1. CampaignTypeOK' /\ GrantTypeOK'
        BY <1>0, <1>6, RevokedType
        DEF ClearArchivedSelection, RevokeUnbound, CampaignTypeOK, GrantTypeOK
  <2>2. CallTypeOK'
        BY <1>0, <1>6 DEF ClearArchivedSelection, CallTypeOK
  <2> QED
      BY <1>0, <1>6, <2>1, <2>2 DEF ClearArchivedSelection, TypeOK, SeatTypeOK, SessionTypeOK
<1>7. ASSUME NEW c \in Campaigns, NEW status \in LiveStatuses, SetStatus(c, status)
      PROVE  TypeOK'
  <2>1. CampaignTypeOK'
        BY <1>0, <1>7 DEF SetStatus, CampaignTypeOK, CampaignStatuses
  <2>2. GrantTypeOK'
        BY <1>0, <1>7, RevokedType DEF SetStatus, RevokeUnbound, GrantTypeOK
  <2>3. CallTypeOK'
        BY <1>0, <1>7 DEF SetStatus, CallTypeOK
  <2> QED
      BY <1>0, <1>7, <2>1, <2>2, <2>3 DEF SetStatus, TypeOK, SeatTypeOK, SessionTypeOK
<1> QED
    BY <1>1, <1>2, <1>3, <1>4, <1>5, <1>6, <1>7 DEF CampaignNext

LEMMA RosterTypeStep == TypeOK /\ RosterNext => TypeOK'
<1> SUFFICES ASSUME TypeOK, RosterNext PROVE TypeOK'
    OBVIOUS
<1> USE DEF campaignVars, seatVars, grantVars, sessionVars, callVars
<1>0. /\ CampaignTypeOK /\ SeatTypeOK /\ GrantTypeOK /\ SessionTypeOK /\ CallTypeOK
      BY DEF TypeOK
<1>1. ASSUME NEW c \in Campaigns, NEW ch \in Characters,
             NEW status \in {"available", "gone"}, AddToRoster(c, ch, status)
      PROVE  TypeOK'
  <2>1. CampaignTypeOK'
        BY <1>0, <1>1 DEF AddToRoster, CampaignTypeOK, RosterStatuses
  <2> QED
      BY <1>0, <1>1, <2>1
      DEF AddToRoster, TypeOK, SeatTypeOK, GrantTypeOK, SessionTypeOK, CallTypeOK
<1>2. ASSUME NEW c \in Campaigns, NEW ch \in Characters,
             NEW status \in RosterStatuses, UpdateRoster(c, ch, status)
      PROVE  TypeOK'
  <2>1. CampaignTypeOK'
        BY <1>0, <1>2 DEF UpdateRoster, CampaignTypeOK
  <2>2. SeatTypeOK'
        BY <1>0, <1>2 DEF UpdateRoster, ClearSelections, SeatTypeOK
  <2> QED
      BY <1>0, <1>2, <2>1, <2>2
      DEF UpdateRoster, TypeOK, GrantTypeOK, SessionTypeOK, CallTypeOK
<1>3. ASSUME NEW ch \in Characters, ArchiveCharacter(ch)
      PROVE  TypeOK'
      BY <1>0, <1>3
      DEF ArchiveCharacter, ClearSelections, TypeOK, CampaignTypeOK, SeatTypeOK,
          GrantTypeOK, SessionTypeOK, CallTypeOK
<1>4. ASSUME NEW ch \in Characters, UnarchiveCharacter(ch)
      PROVE  TypeOK'
      BY <1>0, <1>4
      DEF UnarchiveCharacter, TypeOK, CampaignTypeOK, SeatTypeOK,
          GrantTypeOK, SessionTypeOK, CallTypeOK
<1> QED
    BY <1>1, <1>2, <1>3, <1>4 DEF RosterNext

LEMMA SeatTypeStep == TypeOK /\ SeatNext => TypeOK'
<1> SUFFICES ASSUME TypeOK, NEW s \in Seats,
                    \/ CreateSeat(s) \/ ArchiveSeat(s) \/ DeleteSeat(s)
                    \/ \E who \in AccessSessions \cup {None} : SetController(s, who)
                    \/ \E ch \in Characters \cup {None} : SelectCharacter(s, ch)
             PROVE  TypeOK'
    BY DEF SeatNext
<1> USE DEF campaignVars, seatVars, grantVars, sessionVars, callVars
<1>0. /\ CampaignTypeOK /\ SeatTypeOK /\ GrantTypeOK /\ SessionTypeOK /\ CallTypeOK
      BY DEF TypeOK
<1>1. CASE CreateSeat(s)
      BY <1>0, <1>1
      DEF CreateSeat, TypeOK, CampaignTypeOK, SeatTypeOK, GrantTypeOK, SessionTypeOK,
          CallTypeOK, SeatStates
<1>2. CASE ArchiveSeat(s)
  <2>1. SeatTypeOK' /\ GrantTypeOK'
        BY <1>0, <1>2, RevokedType
        DEF ArchiveSeat, RevokeIfAI, SeatTypeOK, GrantTypeOK, SeatStates, Controllers
  <2> QED
      BY <1>0, <1>2, <2>1 DEF ArchiveSeat, TypeOK, CampaignTypeOK, SessionTypeOK, CallTypeOK
<1>3. CASE DeleteSeat(s)
  <2>1. SeatTypeOK' /\ GrantTypeOK'
        BY <1>0, <1>3, RevokedType
        DEF DeleteSeat, DropSeats, SeatTypeOK, GrantTypeOK, SeatStates, Controllers
  <2> QED
      BY <1>0, <1>3, <2>1 DEF DeleteSeat, TypeOK, CampaignTypeOK, SessionTypeOK, CallTypeOK
<1>4. ASSUME NEW who \in AccessSessions \cup {None}, SetController(s, who)
      PROVE  TypeOK'
  <2>1. SeatTypeOK' /\ GrantTypeOK'
        BY <1>0, <1>4, RevokedType
        DEF SetController, RevokeIfAI, SeatTypeOK, GrantTypeOK, Controllers
  <2> QED
      BY <1>0, <1>4, <2>1 DEF SetController, TypeOK, CampaignTypeOK, SessionTypeOK, CallTypeOK
<1>5. ASSUME NEW ch \in Characters \cup {None}, SelectCharacter(s, ch)
      PROVE  TypeOK'
      BY <1>0, <1>5
      DEF SelectCharacter, TypeOK, CampaignTypeOK, SeatTypeOK, GrantTypeOK,
          SessionTypeOK, CallTypeOK
<1> QED
    BY <1>1, <1>2, <1>3, <1>4, <1>5

-----------------------------------------------------------------------------

\* a new grant: the three operations that bind one differ in session and return
LEMMA BindType ==
    ASSUME TypeOK, NEW g \in Grants, NEW s \in Seats,
           NEW n \in Sessions \cup {None}, NEW return \in AccessSessions \cup {None},
           BindGrant(g, s, n, return)
    PROVE  TypeOK'
<1> USE DEF campaignVars, seatVars, grantVars, sessionVars, callVars
<1>0. /\ CampaignTypeOK /\ SeatTypeOK /\ GrantTypeOK /\ SessionTypeOK /\ CallTypeOK
      BY DEF TypeOK
<1>1. SeatTypeOK'
      BY <1>0 DEF BindGrant, NextGeneration, SeatTypeOK, Controllers
<1>2. grantStatus' \in [Grants -> {"unminted", "active", "revoked"}]
      BY <1>0, RevokedType DEF BindGrant
<1>3. \A h \in Grants : grantStatus'[h] # "unminted" => grantSeat'[h] # None
      BY <1>0, RevokedType, KeyAssumption DEF BindGrant, GrantTypeOK
<1>4. GrantTypeOK'
      BY <1>0, <1>2, <1>3 DEF BindGrant, NextGeneration, GrantTypeOK, SeatTypeOK
<1> QED
    BY <1>0, <1>1, <1>4 DEF BindGrant, TypeOK, CampaignTypeOK, SessionTypeOK, CallTypeOK

LEMMA ReturnType ==
    ASSUME TypeOK, NEW g \in Grants, NEW s \in Seats, NEW who \in AccessSessions,
           ReturnToHuman(g, s, who)
    PROVE  TypeOK'
<1> USE DEF campaignVars, seatVars, grantVars, sessionVars, callVars
<1>0. /\ CampaignTypeOK /\ SeatTypeOK /\ GrantTypeOK /\ SessionTypeOK /\ CallTypeOK
      BY DEF TypeOK
<1>1. SeatTypeOK' /\ GrantTypeOK'
      BY <1>0, RevokedType DEF ReturnToHuman, SeatTypeOK, GrantTypeOK, Controllers
<1> QED
    BY <1>0, <1>1 DEF ReturnToHuman, TypeOK, CampaignTypeOK, SessionTypeOK, CallTypeOK

LEMMA AITypeStep == TypeOK /\ AINext => TypeOK'
<1> SUFFICES ASSUME TypeOK, AINext PROVE TypeOK'
    OBVIOUS
<1> USE DEF campaignVars, seatVars, grantVars, sessionVars, callVars
<1>0. /\ CampaignTypeOK /\ SeatTypeOK /\ GrantTypeOK /\ SessionTypeOK /\ CallTypeOK
      BY DEF TypeOK
<1>1. ASSUME NEW g \in Grants, NEW s \in Seats, MintPreSessionDM(g, s)
      PROVE  TypeOK'
      BY <1>1, BindType DEF MintPreSessionDM
<1>2. ASSUME NEW g \in Grants, NEW n \in Sessions, NEW s \in Seats, PlayerHandoff(g, n, s)
      PROVE  TypeOK'
      BY <1>2, BindType DEF PlayerHandoff, MayHandOff
<1>3. ASSUME NEW g \in Grants, NEW n \in Sessions, NEW s \in Seats, TakeBack(g, n, s)
      PROVE  TypeOK'
  <2>1. grantReturn[g] \in AccessSessions
        BY <1>0, <1>3 DEF TakeBack, GrantTypeOK
  <2> QED
      BY <1>3, <2>1, ReturnType DEF TakeBack
<1>4. ASSUME NEW g \in Grants, NEW n \in Sessions, NEW s \in Seats,
             NEW who \in AccessSessions, AdminReassign(g, n, s, who)
      PROVE  TypeOK'
      BY <1>4, ReturnType DEF AdminReassign
<1>5. ASSUME NEW g \in Grants, TtlRunsOut(g)
      PROVE  TypeOK'
      BY <1>0, <1>5
      DEF TtlRunsOut, TypeOK, CampaignTypeOK, SeatTypeOK, GrantTypeOK, SessionTypeOK, CallTypeOK
<1>6. ASSUME NEW r \in Requests, NEW g \in Grants, ResolveRead(r, g)
      PROVE  TypeOK'
  <2>1. CallTypeOK'
        BY <1>0, <1>6 DEF ResolveRead, SetProbe, CallTypeOK, GrantTypeOK, ProbeStages
  <2> QED
      BY <1>0, <1>6, <2>1
      DEF ResolveRead, TypeOK, CampaignTypeOK, SeatTypeOK, GrantTypeOK, SessionTypeOK
<1>7. ASSUME NEW r \in Requests, ResolveJudge(r)
      PROVE  TypeOK'
  <2>1. CallTypeOK'
        BY <1>0, <1>7 DEF ResolveJudge, SetProbe, CallTypeOK, IdleProbe, ProbeStages
  <2> QED
      BY <1>0, <1>7, <2>1
      DEF ResolveJudge, TypeOK, CampaignTypeOK, SeatTypeOK, GrantTypeOK, SessionTypeOK
<1>8. ASSUME NEW r \in Requests, ResolveRevoke(r)
      PROVE  TypeOK'
  <2>1. CallTypeOK'
        BY <1>0, <1>8 DEF ResolveRevoke, SetProbe, CallTypeOK, IdleProbe, ProbeStages
  <2>2. GrantTypeOK'
        BY <1>0, <1>8, RevokedType DEF ResolveRevoke, GrantTypeOK
  <2> QED
      BY <1>0, <1>8, <2>1, <2>2
      DEF ResolveRevoke, TypeOK, CampaignTypeOK, SeatTypeOK, SessionTypeOK
<1> QED
    BY <1>1, <1>2, <1>3, <1>4, <1>5, <1>6, <1>7, <1>8 DEF AINext

-----------------------------------------------------------------------------

LEMMA InsertType ==
    ASSUME TypeOK, NEW n \in Sessions, NEW s \in Seats, NEW generation \in Nat,
           InsertSession(n, s, generation)
    PROVE  SessionTypeOK'
<1>0. SeatTypeOK /\ SessionTypeOK
      BY DEF TypeOK
<1>1. LobbyPlayers(SeatCampaign[s]) \subseteq Seats /\ LobbySpectators(SeatCampaign[s]) \subseteq Seats
      BY DEF LobbyPlayers, LobbySpectators
<1>2. joined' \in [Sessions -> SUBSET Seats]
      BY <1>0, <1>1 DEF InsertSession, SessionTypeOK
<1>3. plays' \in [Sessions -> [Seats -> Characters \cup {None}]]
      BY <1>0 DEF InsertSession, SessionTypeOK, SeatTypeOK
<1>4. \A m \in Sessions : sessionStatus'[m] # "unused" => dmSeat'[m] # None
      BY <1>0, KeyAssumption DEF InsertSession, SessionTypeOK
<1> QED
    BY <1>0, <1>2, <1>3, <1>4 DEF InsertSession, SessionTypeOK, SeatTypeOK

LEMMA SessionTypeStep == TypeOK /\ SessionNext => TypeOK'
<1> SUFFICES ASSUME TypeOK, SessionNext PROVE TypeOK'
    OBVIOUS
<1> USE DEF campaignVars, seatVars, grantVars, sessionVars, callVars
<1>0. /\ CampaignTypeOK /\ SeatTypeOK /\ GrantTypeOK /\ SessionTypeOK /\ CallTypeOK
      BY DEF TypeOK
<1>1. ASSUME NEW n \in Sessions, NEW s \in Seats, StartFromLobby(n, s)
      PROVE  TypeOK'
  <2>1. SessionTypeOK'
        BY <1>1, InsertType DEF StartFromLobby
  <2> QED
      BY <1>0, <1>1, <2>1
      DEF StartFromLobby, TypeOK, CampaignTypeOK, SeatTypeOK, GrantTypeOK, CallTypeOK
<1>2. ASSUME NEW n \in Sessions, NEW s \in Seats, LateJoin(n, s)
      PROVE  TypeOK'
  <2>1. SessionTypeOK'
        BY <1>0, <1>2 DEF LateJoin, SessionTypeOK, SeatTypeOK
  <2> QED
      BY <1>0, <1>2, <2>1
      DEF LateJoin, TypeOK, CampaignTypeOK, SeatTypeOK, GrantTypeOK, CallTypeOK
<1>3. ASSUME NEW g \in Grants, AIStartBegin(g) \/ AIStartFail(g)
      PROVE  TypeOK'
      BY <1>0, <1>3
      DEF AIStartBegin, AIStartFail, TypeOK, CampaignTypeOK, SeatTypeOK, GrantTypeOK,
          SessionTypeOK, CallTypeOK
<1>4. ASSUME NEW n \in Sessions, NEW g \in Grants, AIStartCommit(n, g)
      PROVE  TypeOK'
  <2>1. grantGen[g] \in Nat
        BY <1>0 DEF GrantTypeOK
  <2>2. grantSeat[g] \in Seats
        BY <1>0, <1>4 DEF AIStartCommit, GrantTypeOK
  <2>3. SessionTypeOK'
        BY <1>4, <2>1, <2>2, InsertType DEF AIStartCommit
  <2>4. GrantTypeOK' /\ CallTypeOK'
        BY <1>0, <1>4 DEF AIStartCommit, GrantTypeOK, CallTypeOK
  <2> QED
      BY <1>0, <1>4, <2>3, <2>4 DEF AIStartCommit, TypeOK, CampaignTypeOK, SeatTypeOK
<1>5. ASSUME NEW n \in Sessions, NEW status \in {"ended", "abandoned"}, Finalize(n, status)
      PROVE  TypeOK'
  <2>1. SeatTypeOK'
        BY <1>0, <1>5 DEF Finalize, SeatTypeOK, Controllers
  <2>2. GrantTypeOK'
        BY <1>0, <1>5, RevokedType DEF Finalize, GrantTypeOK
  <2>3. SessionTypeOK'
        BY <1>0, <1>5 DEF Finalize, ActiveSession, SessionTypeOK
  <2> QED
      BY <1>0, <1>5, <2>1, <2>2, <2>3 DEF Finalize, TypeOK, CampaignTypeOK, CallTypeOK
<1> QED
    BY <1>1, <1>2, <1>3, <1>4, <1>5 DEF SessionNext

LEMMA CrashType == TypeOK /\ Crash => TypeOK'
BY DEF Crash, TypeOK, CampaignTypeOK, SeatTypeOK, GrantTypeOK, SessionTypeOK, CallTypeOK,
       IdleProbe, ProbeStages, campaignVars, seatVars, grantVars, sessionVars

LEMMA StutterType == TypeOK /\ UNCHANGED vars => TypeOK'
BY DEF TypeOK, CampaignTypeOK, SeatTypeOK, GrantTypeOK, SessionTypeOK, CallTypeOK,
       vars, campaignVars, seatVars, grantVars, sessionVars, callVars

LEMMA TypeStep == TypeOK /\ [Next]_vars => TypeOK'
BY CampaignTypeStep, RosterTypeStep, SeatTypeStep, AITypeStep, SessionTypeStep,
   CrashType, StutterType DEF Next

\* Every column of every table of a Room holds a value of its domain after any
\* sequence of transactions, calls in flight and crashes.
THEOREM TypeCorrect == Spec => []TypeOK
<1>1. Init => TypeOK
      BY InitTypeOK
<1>2. TypeOK /\ [Next]_vars => TypeOK'
      BY TypeStep
<1> QED
    BY <1>1, <1>2, PTL DEF Spec

-----------------------------------------------------------------------------
(***************************************************************************)
(* AI authority in a Room of any size: an active grant is the controller   *)
(* of its live Seat, generations are never used twice, a grant outlives    *)
(* neither its Session nor the eligibility of its Campaign, and the DM     *)
(* fixed at Start keeps its Seat.                                          *)
(***************************************************************************)

\* the columns these invariants read, left alone
AuthorityFrame ==
    UNCHANGED <<seatState, controller, epoch, grantStatus, grantSeat, grantGen>>

\* operations outside the tables of authority
LEMMA OutsideAuthority ==
    ASSUME \/ RosterNext
           \/ \E c \in Campaigns : CreateCampaign(c) \/ SelectBegin(c)
           \/ \E s \in Seats, ch \in Characters \cup {None} : SelectCharacter(s, ch)
           \/ \E g \in Grants : TtlRunsOut(g) \/ AIStartBegin(g) \/ AIStartFail(g)
           \/ \E r \in Requests : ResolveJudge(r) \/ \E g \in Grants : ResolveRead(r, g)
           \/ \E n \in Sessions, s \in Seats : StartFromLobby(n, s) \/ LateJoin(n, s)
           \/ \E n \in Sessions, g \in Grants : AIStartCommit(n, g)
           \/ Crash
           \/ UNCHANGED vars
    PROVE  AuthorityFrame
<1> USE DEF AuthorityFrame, vars, campaignVars, seatVars, grantVars, sessionVars, callVars
<1>1. CASE RosterNext
      BY <1>1 DEF RosterNext, AddToRoster, UpdateRoster, ArchiveCharacter, UnarchiveCharacter
<1>2. CASE \E r \in Requests : ResolveJudge(r) \/ \E g \in Grants : ResolveRead(r, g)
      BY <1>2 DEF ResolveJudge, ResolveRead
<1> QED
    BY <1>1, <1>2
    DEF CreateCampaign, SelectBegin, SelectCharacter, TtlRunsOut, AIStartBegin, AIStartFail,
        StartFromLobby, LateJoin, AIStartCommit, Crash

-----------------------------------------------------------------------------
(* An active grant is current.                                             *)

\* revoking grants and touching nothing else keeps every active grant current
LEMMA RevokeKeepsCurrent ==
    ASSUME TypeOK, GrantIsCurrent, NEW gs,
           grantStatus' = WithRevoked(gs),
           UNCHANGED <<grantSeat, grantGen, seatState, controller, epoch>>
    PROVE  GrantIsCurrent'
BY DEF TypeOK, GrantTypeOK, GrantIsCurrent, WithRevoked, Live

LEMMA CampaignKeepsCurrent ==
    ASSUME TypeOK, GrantIsCurrent, CampaignNext
    PROVE  GrantIsCurrent'
<1> USE DEF campaignVars, seatVars, grantVars, sessionVars, callVars
<1>1. CASE AuthorityFrame
      BY <1>1 DEF AuthorityFrame, GrantIsCurrent, Live
<1>2. CASE ClearSelection
      BY <1>1, <1>2, RevokeKeepsCurrent
      DEF ClearSelection, MoveSelection, RevokeUnbound, AuthorityFrame
<1>3. ASSUME NEW c \in Campaigns,
             \/ SelectCommit(c) \/ ClearArchivedSelection(c)
             \/ \E status \in LiveStatuses : SetStatus(c, status)
      PROVE  GrantIsCurrent'
      BY <1>1, <1>3, RevokeKeepsCurrent
      DEF SelectCommit, ClearArchivedSelection, SetStatus, MoveSelection, RevokeUnbound,
          AuthorityFrame
<1>4. ASSUME NEW c \in Campaigns, DeleteDraft(c)
      PROVE  GrantIsCurrent'
      BY <1>4
      DEF DeleteDraft, DropSeats, SeatsOf, WithRevoked, GrantIsCurrent, Live,
          TypeOK, GrantTypeOK, SeatTypeOK
<1> QED
    BY <1>1, <1>2, <1>3, <1>4, OutsideAuthority DEF CampaignNext

LEMMA SeatKeepsCurrent ==
    ASSUME TypeOK, GrantIsCurrent, SeatNext
    PROVE  GrantIsCurrent'
<1> USE DEF campaignVars, seatVars, grantVars, sessionVars, callVars
<1>0. GrantTypeOK /\ SeatTypeOK
      BY DEF TypeOK
<1>1. ASSUME NEW s \in Seats, CreateSeat(s)
      PROVE  GrantIsCurrent'
      BY <1>0, <1>1 DEF CreateSeat, GrantIsCurrent, Live, GrantTypeOK, SeatTypeOK
<1>2. ASSUME NEW s \in Seats, ArchiveSeat(s)
      PROVE  GrantIsCurrent'
      BY <1>0, <1>2
      DEF ArchiveSeat, RevokeIfAI, ActiveGrantsOfSeat, WithRevoked, GrantIsCurrent, Live,
          GrantTypeOK, SeatTypeOK
<1>3. ASSUME NEW s \in Seats, DeleteSeat(s)
      PROVE  GrantIsCurrent'
      BY <1>0, <1>3
      DEF DeleteSeat, DropSeats, WithRevoked, GrantIsCurrent, Live, GrantTypeOK, SeatTypeOK
<1>4. ASSUME NEW s \in Seats, NEW who \in AccessSessions \cup {None}, SetController(s, who)
      PROVE  GrantIsCurrent'
      BY <1>0, <1>4
      DEF SetController, RevokeIfAI, ActiveGrantsOfSeat, WithRevoked, GrantIsCurrent, Live,
          GrantTypeOK, SeatTypeOK
<1>5. ASSUME AuthorityFrame
      PROVE  GrantIsCurrent'
      BY <1>5 DEF AuthorityFrame, GrantIsCurrent, Live
<1> QED
    BY <1>1, <1>2, <1>3, <1>4, <1>5, OutsideAuthority DEF SeatNext

LEMMA BindKeepsCurrent ==
    ASSUME TypeOK, GrantIsCurrent, NEW g \in Grants, NEW s \in Seats, NEW n, NEW return,
           Live(s), BindGrant(g, s, n, return)
    PROVE  GrantIsCurrent'
BY DEF BindGrant, FreshGrant, NextGeneration, ActiveGrantsOfSeat, WithRevoked, GrantIsCurrent,
       Live, TypeOK, GrantTypeOK, SeatTypeOK

LEMMA ReturnKeepsCurrent ==
    ASSUME TypeOK, GrantIsCurrent, NEW g \in Grants, NEW s \in Seats, NEW who,
           controller[s] = g, ReturnToHuman(g, s, who)
    PROVE  GrantIsCurrent'
BY DEF ReturnToHuman, WithRevoked, GrantIsCurrent, Live, TypeOK, GrantTypeOK, SeatTypeOK

LEMMA AIKeepsCurrent ==
    ASSUME TypeOK, GrantIsCurrent, AINext
    PROVE  GrantIsCurrent'
<1>1. ASSUME NEW g \in Grants, NEW s \in Seats, MintPreSessionDM(g, s)
      PROVE  GrantIsCurrent'
      BY <1>1, BindKeepsCurrent DEF MintPreSessionDM
<1>2. ASSUME NEW g \in Grants, NEW n \in Sessions, NEW s \in Seats, PlayerHandoff(g, n, s)
      PROVE  GrantIsCurrent'
      BY <1>2, BindKeepsCurrent DEF PlayerHandoff, MayHandOff
<1>3. ASSUME NEW g \in Grants, NEW n \in Sessions, NEW s \in Seats,
             TakeBack(g, n, s) \/ \E who \in AccessSessions : AdminReassign(g, n, s, who)
      PROVE  GrantIsCurrent'
      BY <1>3, ReturnKeepsCurrent DEF TakeBack, AdminReassign, CurrentGrant
<1>4. ASSUME NEW r \in Requests, ResolveRevoke(r)
      PROVE  GrantIsCurrent'
      BY <1>4, RevokeKeepsCurrent DEF ResolveRevoke, seatVars
<1>5. ASSUME AuthorityFrame
      PROVE  GrantIsCurrent'
      BY <1>5 DEF AuthorityFrame, GrantIsCurrent, Live
<1> QED
    BY <1>1, <1>2, <1>3, <1>4, <1>5, OutsideAuthority DEF AINext

LEMMA SessionKeepsCurrent ==
    ASSUME TypeOK, GrantIsCurrent, SessionNext
    PROVE  GrantIsCurrent'
<1>1. ASSUME NEW n \in Sessions, NEW status \in {"ended", "abandoned"}, Finalize(n, status)
      PROVE  GrantIsCurrent'
      BY <1>1
      DEF Finalize, ActiveGrantsOfSession, SeatsHeldBy, WithRevoked, GrantIsCurrent, Live,
          TypeOK, GrantTypeOK, SeatTypeOK
<1>2. ASSUME AuthorityFrame
      PROVE  GrantIsCurrent'
      BY <1>2 DEF AuthorityFrame, GrantIsCurrent, Live
<1> QED
    BY <1>1, <1>2, OutsideAuthority DEF SessionNext

LEMMA CurrentStep ==
    ASSUME TypeOK, GrantIsCurrent, [Next]_vars
    PROVE  GrantIsCurrent'
<1>1. ASSUME AuthorityFrame
      PROVE  GrantIsCurrent'
      BY <1>1 DEF AuthorityFrame, GrantIsCurrent, Live
<1> QED
    BY <1>1, CampaignKeepsCurrent, SeatKeepsCurrent, AIKeepsCurrent, SessionKeepsCurrent,
       OutsideAuthority DEF Next

\* However handoffs, take backs, reassignments, lobby changes, Starts, Ends and
\* failed authentications interleave, a Seat has at most one grant that
\* authorizes: the one it is bound to, at its epoch.
THEOREM GrantsStayCurrent == Spec => []GrantIsCurrent
<1>1. Init => GrantIsCurrent
      BY DEF Init, GrantInit, GrantIsCurrent
<1>2. TypeOK /\ GrantIsCurrent /\ [Next]_vars => GrantIsCurrent'
      BY CurrentStep
<1> QED
    BY <1>1, <1>2, TypeCorrect, PTL DEF Spec

-----------------------------------------------------------------------------
(* Only a mint or a handoff makes a grant, only a Start binds one.         *)

NoMint ==
    /\ UNCHANGED <<grantSeat, grantGen, grantReturn, grantSession>>
    /\ \A g \in Grants :
          /\ grantStatus'[g] = "unminted" <=> grantStatus[g] = "unminted"
          /\ grantStatus[g] = "revoked" => grantStatus'[g] = "revoked"
    /\ \A s \in Seats : epoch'[s] >= epoch[s]

LEMMA RevokeMintsNone ==
    ASSUME TypeOK, NEW gs, grantStatus' = WithRevoked(gs),
           UNCHANGED <<grantSeat, grantGen, grantReturn, grantSession>>,
           \A s \in Seats : epoch'[s] >= epoch[s]
    PROVE  NoMint
BY DEF NoMint, WithRevoked, TypeOK, GrantTypeOK

LEMMA FrameMintsNone ==
    ASSUME TypeOK, UNCHANGED <<grantStatus, grantSeat, grantGen, grantReturn, grantSession, epoch>>
    PROVE  NoMint
BY DEF NoMint, TypeOK, SeatTypeOK

LEMMA CampaignMintsNone ==
    ASSUME TypeOK, CampaignNext \/ RosterNext
    PROVE  NoMint
<1> USE DEF campaignVars, seatVars, grantVars, sessionVars, callVars
<1>0. \A s \in Seats : epoch[s] >= epoch[s]
      BY DEF TypeOK, SeatTypeOK
<1>1. CASE ClearSelection
      BY <1>0, <1>1, RevokeMintsNone, FrameMintsNone
      DEF ClearSelection, MoveSelection, RevokeUnbound
<1>2. ASSUME NEW c \in Campaigns,
             \/ SelectCommit(c) \/ ClearArchivedSelection(c)
             \/ \E status \in LiveStatuses : SetStatus(c, status)
      PROVE  NoMint
      BY <1>0, <1>2, RevokeMintsNone, FrameMintsNone
      DEF SelectCommit, ClearArchivedSelection, SetStatus, MoveSelection, RevokeUnbound
<1>3. ASSUME NEW c \in Campaigns, CreateCampaign(c) \/ SelectBegin(c)
      PROVE  NoMint
      BY <1>3, FrameMintsNone DEF CreateCampaign, SelectBegin
<1>4. ASSUME NEW c \in Campaigns, DeleteDraft(c)
      PROVE  NoMint
      BY <1>0, <1>4, RevokeMintsNone DEF DeleteDraft, DropSeats
<1>5. CASE RosterNext
      BY <1>5, FrameMintsNone
      DEF RosterNext, AddToRoster, UpdateRoster, ArchiveCharacter, UnarchiveCharacter
<1> QED
    BY <1>1, <1>2, <1>3, <1>4, <1>5 DEF CampaignNext

LEMMA SeatMintsNone ==
    ASSUME TypeOK, SeatNext
    PROVE  NoMint
<1> USE DEF campaignVars, seatVars, grantVars, sessionVars, callVars
<1>0. \A s \in Seats : epoch[s] \in Nat
      BY DEF TypeOK, SeatTypeOK
<1>1. ASSUME NEW s \in Seats,
             \/ CreateSeat(s)
             \/ \E ch \in Characters \cup {None} : SelectCharacter(s, ch)
      PROVE  NoMint
      BY <1>1, FrameMintsNone DEF CreateSeat, SelectCharacter
<1>2. ASSUME NEW s \in Seats, ArchiveSeat(s)
      PROVE  NoMint
  <2>1. \A t \in Seats : epoch'[t] >= epoch[t]
        BY <1>0, <1>2 DEF ArchiveSeat, TypeOK, SeatTypeOK
  <2> QED
      BY <1>2, <2>1, RevokeMintsNone, FrameMintsNone DEF ArchiveSeat, RevokeIfAI, NoMint
<1>3. ASSUME NEW s \in Seats, DeleteSeat(s)
      PROVE  NoMint
      BY <1>0, <1>3, RevokeMintsNone DEF DeleteSeat, DropSeats
<1>4. ASSUME NEW s \in Seats, NEW who \in AccessSessions \cup {None}, SetController(s, who)
      PROVE  NoMint
  <2>1. \A t \in Seats : epoch'[t] >= epoch[t]
        BY <1>0, <1>4 DEF SetController, TypeOK, SeatTypeOK
  <2> QED
      BY <1>4, <2>1, RevokeMintsNone, FrameMintsNone DEF SetController, RevokeIfAI, NoMint
<1> QED
    BY <1>1, <1>2, <1>3, <1>4 DEF SeatNext

LEMMA AIMints ==
    ASSUME TypeOK, AINext
    PROVE  \/ NoMint
           \/ \E g \in Grants, s \in Seats : MintPreSessionDM(g, s)
           \/ \E g \in Grants, n \in Sessions, s \in Seats : PlayerHandoff(g, n, s)
<1> USE DEF campaignVars, seatVars, grantVars, sessionVars, callVars
<1>0. \A s \in Seats : epoch[s] \in Nat
      BY DEF TypeOK, SeatTypeOK
<1>1. ASSUME NEW g \in Grants, NEW s \in Seats, NEW who \in AccessSessions \cup {None},
             ReturnToHuman(g, s, who)
      PROVE  NoMint
  <2>1. \A t \in Seats : epoch'[t] >= epoch[t]
        BY <1>0, <1>1 DEF ReturnToHuman, TypeOK, SeatTypeOK
  <2> QED
      BY <1>1, <2>1, RevokeMintsNone DEF ReturnToHuman
<1>2. ASSUME NEW g \in Grants, NEW n \in Sessions, NEW s \in Seats,
             TakeBack(g, n, s) \/ \E who \in AccessSessions : AdminReassign(g, n, s, who)
      PROVE  NoMint
      BY <1>1, <1>2 DEF TakeBack, AdminReassign, TypeOK, GrantTypeOK
<1>3. ASSUME NEW g \in Grants, TtlRunsOut(g)
      PROVE  NoMint
      BY <1>3, FrameMintsNone DEF TtlRunsOut
<1>4. ASSUME NEW r \in Requests, ResolveJudge(r) \/ \E g \in Grants : ResolveRead(r, g)
      PROVE  NoMint
      BY <1>4, FrameMintsNone DEF ResolveJudge, ResolveRead
<1>5. ASSUME NEW r \in Requests, ResolveRevoke(r)
      PROVE  NoMint
      BY <1>0, <1>5, RevokeMintsNone DEF ResolveRevoke
<1> QED
    BY <1>2, <1>3, <1>4, <1>5 DEF AINext

LEMMA SessionMintsNone ==
    ASSUME TypeOK, SessionNext
    PROVE  NoMint \/ \E n \in Sessions, g \in Grants : AIStartCommit(n, g)
<1> USE DEF campaignVars, seatVars, grantVars, sessionVars, callVars
<1>1. ASSUME NEW n \in Sessions, NEW s \in Seats, StartFromLobby(n, s) \/ LateJoin(n, s)
      PROVE  NoMint
      BY <1>1, FrameMintsNone DEF StartFromLobby, LateJoin
<1>2. ASSUME NEW g \in Grants, AIStartBegin(g) \/ AIStartFail(g)
      PROVE  NoMint
      BY <1>2, FrameMintsNone DEF AIStartBegin, AIStartFail
<1>3. ASSUME NEW n \in Sessions, NEW status \in {"ended", "abandoned"}, Finalize(n, status)
      PROVE  NoMint
  <2>1. \A t \in Seats : epoch'[t] >= epoch[t]
        BY <1>3 DEF Finalize, TypeOK, SeatTypeOK
  <2> QED
      BY <1>3, <2>1, RevokeMintsNone DEF Finalize
<1> QED
    BY <1>1, <1>2, <1>3 DEF SessionNext

LEMMA ScopeWriters ==
    ASSUME TypeOK, [Next]_vars
    PROVE  \/ NoMint
           \/ \E g \in Grants, s \in Seats : MintPreSessionDM(g, s)
           \/ \E g \in Grants, n \in Sessions, s \in Seats : PlayerHandoff(g, n, s)
           \/ \E n \in Sessions, g \in Grants : AIStartCommit(n, g)
<1>1. CASE Crash \/ UNCHANGED vars
      BY <1>1, FrameMintsNone DEF Crash, vars, seatVars, grantVars
<1> QED
    BY <1>1, CampaignMintsNone, SeatMintsNone, AIMints, SessionMintsNone DEF Next

-----------------------------------------------------------------------------
(* Generations, and the two kinds of grant.                                *)

LEMMA BindKeepsGenerations ==
    ASSUME TypeOK, GenerationsDistinct, NEW g \in Grants, NEW s \in Seats, NEW n, NEW return,
           BindGrant(g, s, n, return)
    PROVE  GenerationsDistinct'
<1>1. \A h \in Grants : h # g => /\ grantSeat'[h] = grantSeat[h]
                                 /\ grantGen'[h] = grantGen[h]
                                 /\ grantStatus'[h] # "unminted" => grantStatus[h] # "unminted"
      BY DEF BindGrant, WithRevoked, ActiveGrantsOfSeat, TypeOK, GrantTypeOK
<1>2. /\ grantSeat'[g] = s
      /\ grantGen'[g] = epoch[s] + 1
      /\ epoch' = [epoch EXCEPT ![s] = epoch[s] + 1]
      BY DEF BindGrant, NextGeneration, TypeOK, GrantTypeOK
<1>3. epoch \in [Seats -> Nat] /\ grantGen \in [Grants -> Nat]
      BY DEF TypeOK, SeatTypeOK, GrantTypeOK
<1>4. \A h \in Grants : grantStatus[h] # "unminted" =>
          grantSeat[h] \in Seats /\ grantGen[h] <= epoch[grantSeat[h]]
      BY DEF GenerationsDistinct, TypeOK, GrantTypeOK
<1> SUFFICES ASSUME NEW h \in Grants, NEW k \in Grants,
                    grantStatus'[h] # "unminted", grantStatus'[k] # "unminted",
                    grantSeat'[h] = grantSeat'[k]
             PROVE  /\ grantGen'[h] <= epoch'[grantSeat'[h]]
                    /\ h # k => grantGen'[h] # grantGen'[k]
    BY DEF GenerationsDistinct
<1>5. grantGen'[h] <= epoch'[grantSeat'[h]]
      BY <1>1, <1>2, <1>3, <1>4
<1>6. ASSUME h # k, h # g, k # g PROVE grantGen'[h] # grantGen'[k]
      BY <1>1, <1>6 DEF GenerationsDistinct
<1>7. ASSUME h # k, h = g \/ k = g PROVE grantGen'[h] # grantGen'[k]
      BY <1>1, <1>2, <1>3, <1>4, <1>7
<1> QED
    BY <1>5, <1>6, <1>7

LEMMA GenerationStep ==
    ASSUME TypeOK, GenerationsDistinct, [Next]_vars
    PROVE  GenerationsDistinct'
<1>1. CASE NoMint
  <2>1. \A s \in Seats : epoch[s] \in Nat /\ epoch'[s] >= epoch[s] /\ epoch'[s] \in Nat
        BY <1>1, TypeStep DEF NoMint, TypeOK, SeatTypeOK
  <2>2. \A g \in Grants : grantGen[g] \in Nat /\ (grantStatus[g] # "unminted" => grantSeat[g] \in Seats)
        BY DEF TypeOK, GrantTypeOK
  <2> QED
      BY <1>1, <2>1, <2>2 DEF NoMint, GenerationsDistinct
<1>2. ASSUME NEW g \in Grants, NEW s \in Seats, MintPreSessionDM(g, s)
      PROVE  GenerationsDistinct'
      BY <1>2, BindKeepsGenerations DEF MintPreSessionDM
<1>3. ASSUME NEW g \in Grants, NEW n \in Sessions, NEW s \in Seats, PlayerHandoff(g, n, s)
      PROVE  GenerationsDistinct'
      BY <1>3, BindKeepsGenerations DEF PlayerHandoff
<1>4. ASSUME NEW n \in Sessions, NEW g \in Grants, AIStartCommit(n, g)
      PROVE  GenerationsDistinct'
      BY <1>4 DEF AIStartCommit, GenerationsDistinct, seatVars
<1> QED
    BY <1>1, <1>2, <1>3, <1>4, ScopeWriters

\* A (Seat, generation) pair names one AI grant for ever, and none is ahead of
\* its Seat: a token of an earlier controller never matches the epoch again.
THEOREM GenerationsStayDistinct == Spec => []GenerationsDistinct
<1>1. Init => GenerationsDistinct
      BY DEF Init, GrantInit, GenerationsDistinct
<1>2. TypeOK /\ GenerationsDistinct /\ [Next]_vars => GenerationsDistinct'
      BY GenerationStep
<1> QED
    BY <1>1, <1>2, TypeCorrect, PTL DEF Spec

\* A revoked grant stays revoked and the scope of a grant is written once,
\* whatever call was in flight when it was minted or revoked.
THEOREM GrantScopeNeverRewritten == Spec => GrantScopeImmutable
<1>1. ASSUME TypeOK, [Next]_vars
      PROVE  [\A g \in Grants : grantStatus[g] # "unminted" =>
                /\ grantStatus[g] = "revoked" => grantStatus'[g] = "revoked"
                /\ grantSeat'[g] = grantSeat[g]
                /\ grantGen'[g] = grantGen[g]
                /\ grantReturn'[g] = grantReturn[g]
                /\ grantSession'[g] = grantSession[g]
                   \/ (grantStatus[g] = "active" /\ grantSession[g] = None)]_vars
  <2>1. CASE NoMint
        BY <2>1 DEF NoMint
  <2>2. ASSUME NEW h \in Grants, NEW s \in Seats, NEW n, NEW return, BindGrant(h, s, n, return),
               NEW g \in Grants, grantStatus[g] # "unminted"
        PROVE  /\ grantStatus[g] = "revoked" => grantStatus'[g] = "revoked"
               /\ grantSeat'[g] = grantSeat[g]
               /\ grantGen'[g] = grantGen[g]
               /\ grantReturn'[g] = grantReturn[g]
               /\ grantSession'[g] = grantSession[g]
        BY <1>1, <2>2 DEF BindGrant, FreshGrant, WithRevoked, TypeOK, GrantTypeOK
  <2>3. ASSUME NEW n \in Sessions, NEW h \in Grants, AIStartCommit(n, h)
        PROVE  /\ UNCHANGED <<grantStatus, grantSeat, grantGen, grantReturn>>
               /\ grantStatus[h] = "active" /\ grantSession[h] = None
               /\ \A g \in Grants \ {h} : grantSession'[g] = grantSession[g]
        BY <1>1, <2>3 DEF AIStartCommit, TypeOK, GrantTypeOK
  <2> QED
      BY <1>1, <2>1, <2>2, <2>3, ScopeWriters DEF MintPreSessionDM, PlayerHandoff
<1> QED
    BY <1>1, TypeCorrect, PTL DEF Spec, GrantScopeImmutable

\* a grant is of a DM Seat and has no human to return to, or of a Player Seat,
\* bound to a Session and borrowed from a human
GrantKind ==
    \A g \in Grants : grantStatus[g] # "unminted" =>
        \/ SeatRole[grantSeat[g]] = "dm" /\ grantReturn[g] = None
        \/ /\ SeatRole[grantSeat[g]] = "player"
           /\ grantReturn[g] # None
           /\ grantSession[g] # None

LEMMA GrantKindStep ==
    ASSUME TypeOK, GrantKind, [Next]_vars
    PROVE  GrantKind'
<1>1. CASE NoMint
      BY <1>1 DEF NoMint, GrantKind
<1>2. ASSUME NEW g \in Grants, NEW s \in Seats, MintPreSessionDM(g, s)
      PROVE  GrantKind'
      BY <1>2
      DEF MintPreSessionDM, BindGrant, WithRevoked, ActiveGrantsOfSeat, GrantKind, TypeOK, GrantTypeOK
<1>3. ASSUME NEW g \in Grants, NEW n \in Sessions, NEW s \in Seats, PlayerHandoff(g, n, s)
      PROVE  GrantKind'
      BY <1>3, KeyAssumption
      DEF PlayerHandoff, MayHandOff, BindGrant, WithRevoked, ActiveGrantsOfSeat, GrantKind,
          TypeOK, GrantTypeOK
<1>4. ASSUME NEW n \in Sessions, NEW g \in Grants, AIStartCommit(n, g)
      PROVE  GrantKind'
      BY <1>4, KeyAssumption DEF AIStartCommit, GrantKind, TypeOK, GrantTypeOK
<1> QED
    BY <1>1, <1>2, <1>3, <1>4, ScopeWriters

LEMMA GrantKinds == Spec => []GrantKind
<1>1. Init => GrantKind
      BY DEF Init, GrantInit, GrantKind
<1>2. TypeOK /\ GrantKind /\ [Next]_vars => GrantKind'
      BY GrantKindStep
<1> QED
    BY <1>1, <1>2, TypeCorrect, PTL DEF Spec

-----------------------------------------------------------------------------
(* Grants and Sessions.                                                    *)

\* the Session tables are written by four operations
LEMMA SessionWriters ==
    ASSUME [Next]_vars
    PROVE  \/ UNCHANGED sessionVars
           \/ \E n \in Sessions, s \in Seats : StartFromLobby(n, s) \/ LateJoin(n, s)
           \/ \E n \in Sessions, g \in Grants : AIStartCommit(n, g)
           \/ \E n \in Sessions, status \in {"ended", "abandoned"} : Finalize(n, status)
<1>1. CASE CampaignNext \/ RosterNext
      BY <1>1
      DEF CampaignNext, RosterNext, CreateCampaign, SetStatus, ClearArchivedSelection, SelectBegin,
          SelectCommit, ClearSelection, DeleteDraft, AddToRoster, UpdateRoster, ArchiveCharacter,
          UnarchiveCharacter
<1>2. CASE SeatNext
      BY <1>2 DEF SeatNext, CreateSeat, ArchiveSeat, DeleteSeat, SetController, SelectCharacter
<1>3. CASE AINext
  <2>1. ASSUME NEW r \in Requests,
               \/ ResolveJudge(r) \/ ResolveRevoke(r)
               \/ \E g \in Grants : ResolveRead(r, g)
        PROVE  UNCHANGED sessionVars
        BY <2>1 DEF ResolveRead, ResolveJudge, ResolveRevoke
  <2>2. ASSUME NEW g \in Grants, NEW n \in Sessions, NEW s \in Seats,
               \/ PlayerHandoff(g, n, s) \/ TakeBack(g, n, s)
               \/ \E who \in AccessSessions : AdminReassign(g, n, s, who)
        PROVE  UNCHANGED sessionVars
        BY <2>2 DEF PlayerHandoff, BindGrant, TakeBack, AdminReassign, ReturnToHuman
  <2>3. ASSUME NEW g \in Grants, NEW s \in Seats, MintPreSessionDM(g, s)
        PROVE  UNCHANGED sessionVars
        BY <2>3 DEF MintPreSessionDM, BindGrant
  <2>4. ASSUME NEW g \in Grants, TtlRunsOut(g)
        PROVE  UNCHANGED sessionVars
        BY <2>4 DEF TtlRunsOut
  <2> QED
      BY <1>3, <2>1, <2>2, <2>3, <2>4 DEF AINext
<1>4. CASE Crash \/ UNCHANGED vars
      BY <1>4 DEF Crash, vars
<1>5. ASSUME NEW g \in Grants, AIStartBegin(g) \/ AIStartFail(g)
      PROVE  UNCHANGED sessionVars
      BY <1>5 DEF AIStartBegin, AIStartFail
<1> QED
    BY <1>1, <1>2, <1>3, <1>4, <1>5 DEF Next, SessionNext

\* a step that ends no Session keeps the active ones
SessionsRun ==
    \A n \in Sessions : sessionStatus[n] = "active" => sessionStatus'[n] = "active"

LEMMA OnlyFinalizeEnds ==
    ASSUME TypeOK, [Next]_vars
    PROVE  \/ SessionsRun
           \/ \E n \in Sessions, status \in {"ended", "abandoned"} : Finalize(n, status)
BY SessionWriters
DEF SessionsRun, sessionVars, StartFromLobby, AIStartCommit, InsertSession, LateJoin,
    TypeOK, SessionTypeOK

LEMMA BoundStep ==
    ASSUME TypeOK, BoundGrantsEndWithSession, [Next]_vars
    PROVE  BoundGrantsEndWithSession'
<1>1. ASSUME NEW n \in Sessions, NEW status \in {"ended", "abandoned"}, Finalize(n, status)
      PROVE  BoundGrantsEndWithSession'
      BY <1>1
      DEF Finalize, ActiveGrantsOfSession, WithRevoked, BoundGrantsEndWithSession, ActiveSession,
          TypeOK, GrantTypeOK, SessionTypeOK
<1>2. ASSUME NEW n \in Sessions, NEW g \in Grants, AIStartCommit(n, g)
      PROVE  BoundGrantsEndWithSession'
      BY <1>2
      DEF AIStartCommit, InsertSession, BoundGrantsEndWithSession, ActiveSession,
          TypeOK, GrantTypeOK, SessionTypeOK
<1>3. ASSUME NEW g \in Grants, NEW n \in Sessions, NEW s \in Seats,
             PlayerHandoff(g, n, s)
      PROVE  BoundGrantsEndWithSession'
      BY <1>3
      DEF PlayerHandoff, MayHandOff, BindGrant, WithRevoked, sessionVars,
          BoundGrantsEndWithSession, ActiveSession, TypeOK, GrantTypeOK
<1>4. ASSUME NEW g \in Grants, NEW s \in Seats, MintPreSessionDM(g, s)
      PROVE  BoundGrantsEndWithSession'
      BY <1>4
      DEF MintPreSessionDM, BindGrant, WithRevoked, sessionVars, BoundGrantsEndWithSession,
          ActiveSession, TypeOK, GrantTypeOK
<1>5. CASE SessionsRun /\ NoMint
      BY <1>5
      DEF SessionsRun, NoMint, BoundGrantsEndWithSession, ActiveSession, TypeOK, GrantTypeOK
<1> QED
    BY <1>1, <1>2, <1>3, <1>4, <1>5, OnlyFinalizeEnds, ScopeWriters

\* The token of an AI never authorizes in a Session that is over, also when the
\* Session ended while the grant was being minted or looked up.
THEOREM BoundGrantsEnd == Spec => []BoundGrantsEndWithSession
<1>1. Init => BoundGrantsEndWithSession
      BY DEF Init, GrantInit, BoundGrantsEndWithSession
<1>2. TypeOK /\ BoundGrantsEndWithSession /\ [Next]_vars => BoundGrantsEndWithSession'
      BY BoundStep
<1> QED
    BY <1>1, <1>2, TypeCorrect, PTL DEF Spec

-----------------------------------------------------------------------------
(***************************************************************************)
(* Sessions of a Room of any size: an unbound DM grant needs its Campaign  *)
(* Start-eligible, the DM fixed at Start keeps its Seat, and a Player Seat *)
(* an AI holds can be given back.                                          *)
(***************************************************************************)

LEMMA OnlyCampaignNextSelects ==
    ASSUME TypeOK, [Next]_vars
    PROVE  CampaignNext \/ UNCHANGED <<activeCampaign, campaignStatus>>
<1> USE DEF campaignVars
<1>1. CASE RosterNext
      BY <1>1 DEF RosterNext, AddToRoster, UpdateRoster, ArchiveCharacter, UnarchiveCharacter
<1>2. CASE SeatNext
      BY <1>2 DEF SeatNext, CreateSeat, ArchiveSeat, DeleteSeat, SetController, SelectCharacter
<1>3. ASSUME NEW r \in Requests,
             \/ ResolveJudge(r) \/ ResolveRevoke(r)
             \/ \E g \in Grants : ResolveRead(r, g)
      PROVE  UNCHANGED campaignVars
      BY <1>3 DEF ResolveRead, ResolveJudge, ResolveRevoke
<1>4. ASSUME NEW g \in Grants, NEW n \in Sessions, NEW s \in Seats,
             \/ PlayerHandoff(g, n, s) \/ TakeBack(g, n, s)
             \/ \E who \in AccessSessions : AdminReassign(g, n, s, who)
      PROVE  UNCHANGED campaignVars
      BY <1>4 DEF PlayerHandoff, BindGrant, TakeBack, AdminReassign, ReturnToHuman
<1>5. ASSUME NEW g \in Grants, NEW s \in Seats, MintPreSessionDM(g, s)
      PROVE  UNCHANGED campaignVars
      BY <1>5 DEF MintPreSessionDM, BindGrant
<1>6. ASSUME NEW g \in Grants, TtlRunsOut(g)
      PROVE  UNCHANGED campaignVars
      BY <1>6 DEF TtlRunsOut
<1>7. CASE SessionNext
      BY <1>7
      DEF SessionNext, StartFromLobby, AIStartBegin, AIStartCommit, AIStartFail, LateJoin, Finalize
<1>8. CASE Crash \/ UNCHANGED vars
      BY <1>8 DEF Crash, vars
<1> QED
    BY <1>1, <1>2, <1>3, <1>4, <1>5, <1>6, <1>7, <1>8 DEF Next, AINext

-----------------------------------------------------------------------------
(* Unbound DM grants.                                                      *)

\* once the unbound grants of c are revoked, every other one is of another
\* Campaign than c
LEMMA RevokedUnbound ==
    ASSUME TypeOK, GrantKind, NEW c, RevokeUnbound(c)
    PROVE  \A g \in Grants : (grantStatus'[g] = "active" /\ grantSession'[g] = None) =>
               /\ grantStatus[g] = "active" /\ grantSession[g] = None
               /\ grantSeat'[g] = grantSeat[g]
               /\ SeatCampaign[grantSeat[g]] # c
BY DEF RevokeUnbound, UnboundGrants, WithRevoked, GrantKind, TypeOK, GrantTypeOK

LEMMA CampaignKeepsUnbound ==
    ASSUME TypeOK, GrantKind, UnboundGrantsStartEligible, CampaignNext
    PROVE  UnboundGrantsStartEligible'
<1> USE DEF UnboundGrantsStartEligible
<1>0. /\ activeCampaign \in Campaigns \cup {None}
      /\ campaignStatus \in [Campaigns -> CampaignStatuses]
      /\ \A g \in Grants : grantStatus[g] = "active" =>
            grantSeat[g] \in Seats /\ SeatCampaign[grantSeat[g]] \in Campaigns
      BY SeatAssumption DEF TypeOK, CampaignTypeOK, GrantTypeOK
<1>1. CASE ClearSelection
      BY <1>0, <1>1, RevokedUnbound DEF ClearSelection, MoveSelection
<1>2. ASSUME NEW c \in Campaigns, CreateCampaign(c)
      PROVE  UnboundGrantsStartEligible'
      BY <1>0, <1>2 DEF CreateCampaign, grantVars
<1>3. ASSUME NEW c \in Campaigns, DeleteDraft(c)
      PROVE  UnboundGrantsStartEligible'
      BY <1>0, <1>3 DEF DeleteDraft, DropSeats, WithRevoked, TypeOK, GrantTypeOK
<1>4. ASSUME NEW c \in Campaigns, SelectBegin(c)
      PROVE  UnboundGrantsStartEligible'
      BY <1>0, <1>4 DEF SelectBegin, campaignVars, grantVars
<1>5. ASSUME NEW c \in Campaigns, SelectCommit(c)
      PROVE  UnboundGrantsStartEligible'
  <2>1. CASE activeCampaign \in Campaigns /\ activeCampaign # c /\ Exists(c)
        BY <1>0, <1>5, <2>1, RevokedUnbound DEF SelectCommit, MoveSelection
  <2>2. CASE ~Exists(c) \/ activeCampaign = c
        BY <1>0, <1>5, <2>2 DEF SelectCommit, MoveSelection, grantVars
  <2>3. CASE activeCampaign = None /\ Exists(c) /\ activeCampaign # c
        BY <1>0, <1>5, <2>3, KeyAssumption DEF SelectCommit, MoveSelection, grantVars
  <2> QED
      BY <1>0, <2>1, <2>2, <2>3
<1>6. ASSUME NEW c \in Campaigns, ClearArchivedSelection(c)
      PROVE  UnboundGrantsStartEligible'
      BY <1>0, <1>6, RevokedUnbound DEF ClearArchivedSelection, grantVars
<1>7. ASSUME NEW c \in Campaigns, NEW status \in LiveStatuses, SetStatus(c, status)
      PROVE  UnboundGrantsStartEligible'
      BY <1>0, <1>7, RevokedUnbound DEF SetStatus, grantVars
<1> QED
    BY <1>1, <1>2, <1>3, <1>4, <1>5, <1>6, <1>7 DEF CampaignNext

LEMMA UnboundStep ==
    ASSUME TypeOK, GrantKind, UnboundGrantsStartEligible, [Next]_vars
    PROVE  UnboundGrantsStartEligible'
<1>1. CASE NoMint /\ UNCHANGED <<activeCampaign, campaignStatus>>
      BY <1>1 DEF NoMint, UnboundGrantsStartEligible, TypeOK, GrantTypeOK
<1>2. ASSUME NEW g \in Grants, NEW s \in Seats, MintPreSessionDM(g, s)
      PROVE  UnboundGrantsStartEligible'
      BY <1>2
      DEF MintPreSessionDM, BindGrant, WithRevoked, campaignVars, UnboundGrantsStartEligible,
          TypeOK, GrantTypeOK
<1>3. ASSUME NEW g \in Grants, NEW n \in Sessions, NEW s \in Seats, PlayerHandoff(g, n, s)
      PROVE  UnboundGrantsStartEligible'
      BY <1>3, KeyAssumption
      DEF PlayerHandoff, BindGrant, WithRevoked, campaignVars, UnboundGrantsStartEligible,
          TypeOK, GrantTypeOK
<1>4. ASSUME NEW n \in Sessions, NEW g \in Grants, AIStartCommit(n, g)
      PROVE  UnboundGrantsStartEligible'
      BY <1>4, KeyAssumption
      DEF AIStartCommit, campaignVars, UnboundGrantsStartEligible, TypeOK, GrantTypeOK
<1> QED
    BY <1>1, <1>2, <1>3, <1>4, CampaignKeepsUnbound, OnlyCampaignNextSelects, ScopeWriters

\* However the Room is switched, archived and cleared while grants are minted,
\* no unbound DM grant survives its Campaign's eligibility to Start.
THEOREM UnboundGrantsEligible == Spec => []UnboundGrantsStartEligible
<1>1. Init => UnboundGrantsStartEligible
      BY DEF Init, GrantInit, UnboundGrantsStartEligible
<1>2. TypeOK /\ GrantKind /\ UnboundGrantsStartEligible /\ [Next]_vars
          => UnboundGrantsStartEligible'
      BY UnboundStep
<1> QED
    BY <1>1, <1>2, TypeCorrect, GrantKinds, PTL DEF Spec

\* A credential of an AI ends with what it was minted for, bound or not.
THEOREM GrantsEndWithScope == Spec => []GrantsFollowScope
<1>1. BoundGrantsEndWithSession /\ UnboundGrantsStartEligible => GrantsFollowScope
      BY DEF GrantsFollowScope
<1> QED
    BY <1>1, BoundGrantsEnd, UnboundGrantsEligible, PTL

-----------------------------------------------------------------------------
(* The DM fixed at Start.                                                  *)

\* the DM Seat of a Session is one, and an AI DM's grant is bound to it
DMBinding ==
    \A n \in Sessions : sessionStatus[n] # "unused" =>
        /\ SeatRole[dmSeat[n]] = "dm"
        /\ dmController[n] \in Grants =>
              /\ grantStatus[dmController[n]] # "unminted"
              /\ grantSession[dmController[n]] = n

LEMMA DMBindingStep ==
    ASSUME TypeOK, DMBinding, [Next]_vars
    PROVE  DMBinding'
<1>1. ASSUME NEW g \in Grants, NEW s \in Seats, NEW n, NEW return, BindGrant(g, s, n, return)
      PROVE  DMBinding'
      BY <1>1
      DEF BindGrant, FreshGrant, WithRevoked, sessionVars, DMBinding, TypeOK, GrantTypeOK
<1>2. ASSUME NEW n \in Sessions, NEW g \in Grants, AIStartCommit(n, g)
      PROVE  DMBinding'
  <2>1. grantSeat[g] \in Seats /\ SeatRole[grantSeat[g]] = "dm" /\ controller[grantSeat[g]] = g
        BY <1>2 DEF AIStartCommit, TypeOK, GrantTypeOK
  <2> QED
      BY <1>2, <2>1, KeyAssumption
      DEF AIStartCommit, InsertSession, DMBinding, TypeOK, GrantTypeOK, SessionTypeOK
<1>3. ASSUME NEW n \in Sessions, NEW s \in Seats, StartFromLobby(n, s)
      PROVE  DMBinding'
      BY <1>3, KeyAssumption
      DEF StartFromLobby, InsertSession, grantVars, DMBinding, TypeOK, SessionTypeOK
<1>4. ASSUME NoMint,
             \A n \in Sessions : /\ sessionStatus'[n] # "unused" => sessionStatus[n] # "unused"
                                 /\ dmSeat'[n] = dmSeat[n]
                                 /\ dmController'[n] = dmController[n]
      PROVE  DMBinding'
      BY <1>4 DEF NoMint, DMBinding, TypeOK, SessionTypeOK
<1>5. ASSUME NEW n \in Sessions, NEW s \in Seats, LateJoin(n, s)
      PROVE  DMBinding'
      BY <1>5 DEF LateJoin, grantVars, DMBinding
<1>6. ASSUME NEW n \in Sessions, NEW status \in {"ended", "abandoned"}, Finalize(n, status)
      PROVE  DMBinding'
      BY <1>6
      DEF Finalize, ActiveSession, WithRevoked, DMBinding, TypeOK, GrantTypeOK, SessionTypeOK
<1>7. CASE NoMint /\ UNCHANGED sessionVars
      BY <1>4, <1>7 DEF sessionVars
<1> QED
    BY <1>1, <1>2, <1>3, <1>5, <1>6, <1>7, ScopeWriters, SessionWriters
    DEF MintPreSessionDM, PlayerHandoff

LEMMA DMBindings == Spec => []DMBinding
<1>1. Init => DMBinding
      BY DEF Init, SessionInit, DMBinding
<1>2. TypeOK /\ DMBinding /\ [Next]_vars => DMBinding'
      BY DMBindingStep
<1> QED
    BY <1>1, <1>2, TypeCorrect, PTL DEF Spec

\* a step that changes the Sessions only by a Late Join, and no fixed DM Seat
\* at all, keeps every DM fixed
DMSeatsKept ==
    \A n \in Sessions : ActiveSession(n) =>
        LET s == dmSeat[n] IN
        /\ seatState'[s] = seatState[s]
        /\ controller'[s] = controller[s]
        /\ epoch'[s] = epoch[s]

LEMMA DMKept ==
    ASSUME TypeOK, DMSeatFixed, DMSeatsKept,
           UNCHANGED <<sessionStatus, dmSeat, dmController, dmGeneration>>
    PROVE  DMSeatFixed'
BY DEF DMSeatFixed, DMSeatsKept, ActiveSession, Live, TypeOK, SessionTypeOK

LEMMA DeleteKeepsDM ==
    ASSUME TypeOK, DMSeatFixed, NEW c \in Campaigns, DeleteDraft(c)
    PROVE  DMSeatFixed'
<1>1. DMSeatsKept
      BY DEF DeleteDraft, DropSeats, SeatsOf, SessionOf, DMSeatsKept, ActiveSession, TypeOK,
             SeatTypeOK, SessionTypeOK, DMSeatFixed
<1> QED
    BY <1>1, DMKept DEF DeleteDraft, sessionVars

LEMMA SeatKeepsDM ==
    ASSUME TypeOK, DMSeatFixed, DMBinding, SeatNext
    PROVE  DMSeatFixed'
<1>1. UNCHANGED <<sessionStatus, dmSeat, dmController, dmGeneration>>
      BY DEF SeatNext, CreateSeat, ArchiveSeat, DeleteSeat, SetController, SelectCharacter, sessionVars
<1>2. ASSUME NEW s \in Seats, CreateSeat(s) \/ ArchiveSeat(s) \/ DeleteSeat(s)
      PROVE  DMSeatsKept
      BY <1>2
      DEF CreateSeat, ArchiveSeat, DeleteSeat, DropSeats, MayLoseController, FixedByActiveSession,
          DMSeatsKept, DMSeatFixed, DMBinding, ActiveSession, Live, TypeOK, SeatTypeOK, SessionTypeOK
<1>3. ASSUME NEW s \in Seats, NEW who \in AccessSessions \cup {None}, SetController(s, who)
      PROVE  DMSeatsKept
      BY <1>3
      DEF SetController, MayLoseController, FixedByActiveSession, DMSeatsKept, DMSeatFixed,
          DMBinding, ActiveSession, TypeOK, SeatTypeOK, SessionTypeOK
<1>4. ASSUME NEW s \in Seats, NEW ch \in Characters \cup {None}, SelectCharacter(s, ch)
      PROVE  DMSeatsKept
      BY <1>4 DEF SelectCharacter, DMSeatsKept
<1> QED
    BY <1>1, <1>2, <1>3, <1>4, DMKept DEF SeatNext

LEMMA AIKeepsDM ==
    ASSUME TypeOK, GrantKind, DMSeatFixed, DMBinding, AINext
    PROVE  DMSeatFixed'
<1>1. ASSUME NEW g \in Grants, NEW s \in Seats, MintPreSessionDM(g, s)
      PROVE  DMSeatFixed'
  <2>1. \A n \in Sessions : ActiveSession(n) => dmSeat[n] # s
        BY <1>1 DEF MintPreSessionDM, HasActiveSession, SessionOf
  <2>2. DMSeatsKept
        BY <1>1, <2>1
        DEF MintPreSessionDM, BindGrant, DMSeatsKept, DMSeatFixed, TypeOK, SeatTypeOK
  <2> QED
      BY <1>1, <2>2, DMKept DEF MintPreSessionDM, BindGrant, sessionVars
<1>2. ASSUME NEW g \in Grants, NEW n \in Sessions, NEW s \in Seats,
             \/ PlayerHandoff(g, n, s) \/ TakeBack(g, n, s)
             \/ \E who \in AccessSessions : AdminReassign(g, n, s, who)
      PROVE  DMSeatFixed'
  <2>1. SeatRole[s] = "player"
        BY <1>2
        DEF PlayerHandoff, MayHandOff, TakeBack, AdminReassign, CurrentGrant, GrantKind
  <2>2. \A m \in Sessions : ActiveSession(m) => dmSeat[m] # s
        BY <2>1 DEF DMBinding, ActiveSession
  <2>3. DMSeatsKept
        BY <1>2, <2>2
        DEF PlayerHandoff, BindGrant, TakeBack, AdminReassign, ReturnToHuman, DMSeatsKept,
            DMSeatFixed, TypeOK, SeatTypeOK
  <2> QED
      BY <1>2, <2>3, DMKept
      DEF PlayerHandoff, BindGrant, TakeBack, AdminReassign, ReturnToHuman, sessionVars
<1>3. ASSUME NEW r \in Requests,
             \/ ResolveJudge(r) \/ ResolveRevoke(r)
             \/ \E g \in Grants : ResolveRead(r, g)
      PROVE  DMSeatFixed'
      BY <1>3, DMKept
      DEF ResolveRead, ResolveJudge, ResolveRevoke, seatVars, sessionVars, DMSeatsKept
<1>4. ASSUME NEW g \in Grants, TtlRunsOut(g)
      PROVE  DMSeatFixed'
      BY <1>4, DMKept DEF TtlRunsOut, seatVars, sessionVars, DMSeatsKept
<1> QED
    BY <1>1, <1>2, <1>3, <1>4 DEF AINext

LEMMA SessionKeepsDM ==
    ASSUME TypeOK, DMSeatFixed, DMBinding, SessionNext
    PROVE  DMSeatFixed'
<1>1. ASSUME NEW n \in Sessions, NEW s \in Seats, StartFromLobby(n, s)
      PROVE  DMSeatFixed'
      BY <1>1, KeyAssumption
      DEF StartFromLobby, InsertSession, seatVars, DMSeatFixed, ActiveSession, Live, TypeOK,
          SessionTypeOK
<1>2. ASSUME NEW n \in Sessions, NEW g \in Grants, AIStartCommit(n, g)
      PROVE  DMSeatFixed'
  <2>1. grantSeat[g] \in Seats
        BY <1>2 DEF AIStartCommit, TypeOK, GrantTypeOK
  <2> QED
      BY <1>2, <2>1
      DEF AIStartCommit, InsertSession, seatVars, DMSeatFixed, ActiveSession, Live, TypeOK,
          SessionTypeOK
<1>3. ASSUME NEW n \in Sessions, NEW s \in Seats, LateJoin(n, s)
      PROVE  DMSeatFixed'
      BY <1>3, DMKept DEF LateJoin, seatVars, DMSeatsKept
<1>4. ASSUME NEW g \in Grants, AIStartBegin(g) \/ AIStartFail(g)
      PROVE  DMSeatFixed'
      BY <1>4, DMKept DEF AIStartBegin, AIStartFail, seatVars, sessionVars, DMSeatsKept
<1>5. ASSUME NEW n \in Sessions, NEW status \in {"ended", "abandoned"}, Finalize(n, status)
      PROVE  DMSeatFixed'
  <2>1. \A m \in Sessions \ {n} : ActiveSession(m) =>
            controller[dmSeat[m]] \notin ActiveGrantsOfSession(n)
        BY DEF ActiveGrantsOfSession, DMSeatFixed, DMBinding, ActiveSession
  <2> QED
      BY <1>5, <2>1
      DEF Finalize, SeatsHeldBy, DMSeatFixed, ActiveSession, Live, TypeOK, SeatTypeOK, SessionTypeOK
<1> QED
    BY <1>1, <1>2, <1>3, <1>4, <1>5 DEF SessionNext

LEMMA DMStep ==
    ASSUME TypeOK, GrantKind, DMSeatFixed, DMBinding, [Next]_vars
    PROVE  DMSeatFixed'
<1>1. ASSUME UNCHANGED <<seatState, controller, epoch>>, UNCHANGED sessionVars
      PROVE  DMSeatFixed'
      BY <1>1, DMKept DEF DMSeatsKept, sessionVars
<1>2. CASE CampaignNext
      BY <1>1, <1>2, DeleteKeepsDM
      DEF CampaignNext, CreateCampaign, SetStatus, ClearArchivedSelection, SelectBegin,
          SelectCommit, ClearSelection, seatVars
<1>3. CASE RosterNext
      BY <1>1, <1>3
      DEF RosterNext, AddToRoster, UpdateRoster, ArchiveCharacter, UnarchiveCharacter, seatVars
<1>4. CASE Crash \/ UNCHANGED vars
      BY <1>1, <1>4 DEF Crash, vars, seatVars
<1> QED
    BY <1>2, <1>3, <1>4, SeatKeepsDM, AIKeepsDM, SessionKeepsDM DEF Next

\* The DM of a running Session cannot be removed: no lobby change, handoff,
\* switch of the Room or end of another Session takes the DM Seat.
THEOREM DMStaysFixed == Spec => []DMSeatFixed
<1>1. Init => DMSeatFixed
      BY DEF Init, SessionInit, DMSeatFixed, ActiveSession
<1>2. TypeOK /\ GrantKind /\ DMBinding /\ DMSeatFixed /\ [Next]_vars => DMSeatFixed'
      BY DMStep
<1> QED
    BY <1>1, <1>2, TypeCorrect, GrantKinds, DMBindings, PTL DEF Spec

-----------------------------------------------------------------------------
(* Player Seats held by an AI.                                             *)

\* an AI controller of a Player Seat is an active grant of that Seat
PlayerHeld ==
    \A s \in Seats : (SeatRole[s] = "player" /\ controller[s] \in Grants) =>
        /\ grantStatus[controller[s]] = "active"
        /\ grantSeat[controller[s]] = s

\* a Player grant's Seat takes part in the Session it is bound to
PlayerGrantPlays ==
    \A g \in Grants : (grantStatus[g] = "active" /\ SeatRole[grantSeat[g]] = "player") =>
        LET n == grantSession[g]
            s == grantSeat[g]
        IN /\ SessionOf(n, SeatCampaign[s])
           /\ s \in joined[n]
           /\ plays[n][s] # None

\* an authentication never denies a Player grant that is still active
DeniedIsDead ==
    \A r \in Requests : probe[r].stage # "idle" =>
        LET g == probe[r].grant IN
        /\ g \in Grants
        /\ grantStatus[g] # "unminted"
        /\ SeatRole[grantSeat[g]] = "player" =>
              /\ probe[r].session = grantSession[g]
              /\ probe[r].stage = "denied" => grantStatus[g] = "revoked"

LEMMA BindKeepsHeld ==
    ASSUME TypeOK, PlayerHeld, NEW g \in Grants, NEW s \in Seats, NEW n, NEW return,
           BindGrant(g, s, n, return)
    PROVE  PlayerHeld'
BY DEF BindGrant, FreshGrant, ActiveGrantsOfSeat, WithRevoked, PlayerHeld,
       TypeOK, GrantTypeOK, SeatTypeOK

LEMMA ReturnKeepsHeld ==
    ASSUME TypeOK, PlayerHeld, NEW g \in Grants, NEW s \in Seats, NEW who \in AccessSessions,
           grantSeat[g] = s, ReturnToHuman(g, s, who)
    PROVE  PlayerHeld'
BY KeyAssumption
DEF ReturnToHuman, WithRevoked, PlayerHeld, TypeOK, GrantTypeOK, SeatTypeOK

LEMMA CampaignKeepsHeld ==
    ASSUME TypeOK, PlayerHeld, CampaignNext
    PROVE  PlayerHeld'
<1> USE DEF PlayerHeld
<1>1. ASSUME NEW c, RevokeUnbound(c), UNCHANGED seatVars
      PROVE  PlayerHeld'
      BY <1>1
      DEF RevokeUnbound, UnboundGrants, WithRevoked, seatVars, TypeOK, GrantTypeOK, Roles
<1>2. ASSUME UNCHANGED grantVars, UNCHANGED seatVars
      PROVE  PlayerHeld'
      BY <1>2 DEF grantVars, seatVars
<1>3. ASSUME NEW c \in Campaigns, DeleteDraft(c)
      PROVE  PlayerHeld'
      BY <1>3, KeyAssumption
      DEF DeleteDraft, DropSeats, WithRevoked, TypeOK, GrantTypeOK, SeatTypeOK
<1>4. CASE ClearSelection
      BY <1>1, <1>2, <1>4 DEF ClearSelection, MoveSelection
<1>5. ASSUME NEW c \in Campaigns, SelectCommit(c)
      PROVE  PlayerHeld'
      BY <1>1, <1>2, <1>5 DEF SelectCommit, MoveSelection
<1>6. ASSUME NEW c \in Campaigns,
             \/ CreateCampaign(c) \/ SelectBegin(c) \/ ClearArchivedSelection(c)
             \/ \E status \in LiveStatuses : SetStatus(c, status)
      PROVE  PlayerHeld'
      BY <1>1, <1>2, <1>6 DEF CreateCampaign, SelectBegin, ClearArchivedSelection, SetStatus
<1> QED
    BY <1>3, <1>4, <1>5, <1>6 DEF CampaignNext

LEMMA SeatKeepsHeld ==
    ASSUME TypeOK, PlayerHeld, SeatNext
    PROVE  PlayerHeld'
<1> USE DEF PlayerHeld, TypeOK, SeatTypeOK, GrantTypeOK
<1>1. ASSUME NEW s \in Seats,
             CreateSeat(s) \/ \E ch \in Characters \cup {None} : SelectCharacter(s, ch)
      PROVE  PlayerHeld'
      BY <1>1 DEF CreateSeat, SelectCharacter, grantVars
<1>2. ASSUME NEW s \in Seats, ArchiveSeat(s)
      PROVE  PlayerHeld'
      BY <1>2, KeyAssumption
      DEF ArchiveSeat, MayLoseController, RevokeIfAI, ActiveGrantsOfSeat, WithRevoked
<1>3. ASSUME NEW s \in Seats, DeleteSeat(s)
      PROVE  PlayerHeld'
      BY <1>3, KeyAssumption DEF DeleteSeat, DropSeats, WithRevoked
<1>4. ASSUME NEW s \in Seats, NEW who \in AccessSessions \cup {None}, SetController(s, who)
      PROVE  PlayerHeld'
      BY <1>4, KeyAssumption
      DEF SetController, MayLoseController, RevokeIfAI, ActiveGrantsOfSeat, WithRevoked
<1> QED
    BY <1>1, <1>2, <1>3, <1>4 DEF SeatNext

LEMMA AIKeepsHeld ==
    ASSUME TypeOK, PlayerHeld, DeniedIsDead, AINext
    PROVE  PlayerHeld'
<1>1. ASSUME NEW g \in Grants, NEW s \in Seats, MintPreSessionDM(g, s)
      PROVE  PlayerHeld'
      BY <1>1, BindKeepsHeld DEF MintPreSessionDM
<1>2. ASSUME NEW g \in Grants, NEW n \in Sessions, NEW s \in Seats, PlayerHandoff(g, n, s)
      PROVE  PlayerHeld'
      BY <1>2, BindKeepsHeld DEF PlayerHandoff
<1>3. ASSUME NEW g \in Grants, NEW n \in Sessions, NEW s \in Seats,
             TakeBack(g, n, s) \/ \E who \in AccessSessions : AdminReassign(g, n, s, who)
      PROVE  PlayerHeld'
      BY <1>3, ReturnKeepsHeld DEF TakeBack, AdminReassign, CurrentGrant, TypeOK, GrantTypeOK
<1>4. ASSUME NEW r \in Requests, ResolveRevoke(r)
      PROVE  PlayerHeld'
      BY <1>4
      DEF ResolveRevoke, WithRevoked, DeniedIsDead, PlayerHeld, seatVars, TypeOK, GrantTypeOK
<1>5. ASSUME UNCHANGED <<grantStatus, grantSeat, controller>>
      PROVE  PlayerHeld'
      BY <1>5 DEF PlayerHeld
<1> QED
    BY <1>1, <1>2, <1>3, <1>4, <1>5, OutsideAuthority DEF AINext, AuthorityFrame

LEMMA HeldStep ==
    ASSUME TypeOK, PlayerHeld, DeniedIsDead, [Next]_vars
    PROVE  PlayerHeld'
<1>1. ASSUME AuthorityFrame
      PROVE  PlayerHeld'
      BY <1>1 DEF AuthorityFrame, PlayerHeld
<1>2. ASSUME NEW n \in Sessions, NEW status \in {"ended", "abandoned"}, Finalize(n, status)
      PROVE  PlayerHeld'
      BY <1>2, KeyAssumption
      DEF Finalize, SeatsHeldBy, WithRevoked, PlayerHeld, TypeOK, GrantTypeOK, SeatTypeOK
<1>3. CASE SessionNext
      BY <1>1, <1>2, <1>3, OutsideAuthority DEF SessionNext
<1> QED
    BY <1>1, <1>3, CampaignKeepsHeld, SeatKeepsHeld, AIKeepsHeld, OutsideAuthority DEF Next

LEMMA PlaysStep ==
    ASSUME TypeOK, GrantKind, BoundGrantsEndWithSession, PlayerGrantPlays, [Next]_vars
    PROVE  PlayerGrantPlays'
<1> DEFINE Steady ==
        \A n \in Sessions : ActiveSession(n) =>
            /\ dmSeat'[n] = dmSeat[n]
            /\ joined[n] \subseteq joined'[n]
            /\ \A s \in joined[n] : plays'[n][s] = plays[n][s]
<1>1. Steady
  <2>1. ASSUME NEW n \in Sessions, NEW s \in Seats, LateJoin(n, s)
        PROVE  Steady
        BY <2>1 DEF LateJoin, FreeToJoin, TypeOK, SessionTypeOK
  <2>2. ASSUME NEW n \in Sessions, NEW s, NEW generation, InsertSession(n, s, generation)
        PROVE  Steady
        BY <2>2 DEF InsertSession, ActiveSession, TypeOK, SessionTypeOK
  <2> QED
      BY <2>1, <2>2, SessionWriters DEF StartFromLobby, AIStartCommit, Finalize, sessionVars
<1>2. ASSUME NEW g \in Grants, grantStatus[g] = "active", SeatRole[grantSeat[g]] = "player"
      PROVE  grantSession[g] \in Sessions /\ ActiveSession(grantSession[g])
      BY <1>2 DEF GrantKind, BoundGrantsEndWithSession, TypeOK, GrantTypeOK, Roles
<1>3. CASE NoMint
      BY <1>1, <1>2, <1>3 DEF NoMint, PlayerGrantPlays, SessionOf, TypeOK, GrantTypeOK
<1>4. ASSUME NEW g \in Grants, NEW s \in Seats, MintPreSessionDM(g, s)
      PROVE  PlayerGrantPlays'
      BY <1>4
      DEF MintPreSessionDM, BindGrant, WithRevoked, PlayerGrantPlays, SessionOf, sessionVars,
          TypeOK, GrantTypeOK
<1>5. ASSUME NEW g \in Grants, NEW n \in Sessions, NEW s \in Seats, PlayerHandoff(g, n, s)
      PROVE  PlayerGrantPlays'
      BY <1>5
      DEF PlayerHandoff, MayHandOff, BindGrant, WithRevoked, PlayerGrantPlays, SessionOf,
          sessionVars, TypeOK, GrantTypeOK
<1>6. ASSUME NEW n \in Sessions, NEW g \in Grants, AIStartCommit(n, g)
      PROVE  PlayerGrantPlays'
      BY <1>1, <1>2, <1>6 DEF AIStartCommit, PlayerGrantPlays, SessionOf, TypeOK, GrantTypeOK
<1> QED
    BY <1>3, <1>4, <1>5, <1>6, ScopeWriters

\* what is known of a Player grant in a probe outlives every step that leaves
\* the probe alone
LEMMA ProbeKept ==
    ASSUME TypeOK, GrantKind, DeniedIsDead, UNCHANGED probe, [Next]_vars
    PROVE  DeniedIsDead'
<1> SUFFICES ASSUME NEW r \in Requests, probe[r].stage # "idle"
             PROVE  LET g == probe[r].grant IN
                    /\ g \in Grants
                    /\ grantStatus'[g] # "unminted"
                    /\ SeatRole[grantSeat'[g]] = "player" =>
                          /\ probe[r].session = grantSession'[g]
                          /\ probe[r].stage = "denied" => grantStatus'[g] = "revoked"
    BY DEF DeniedIsDead
<1> DEFINE g == probe[r].grant
<1>1. /\ g \in Grants
      /\ grantStatus[g] # "unminted"
      /\ SeatRole[grantSeat[g]] = "player" =>
            /\ grantSession[g] # None
            /\ probe[r].session = grantSession[g]
            /\ probe[r].stage = "denied" => grantStatus[g] = "revoked"
      BY DEF DeniedIsDead, GrantKind
<1>2. CASE NoMint
      BY <1>1, <1>2 DEF NoMint
<1>3. ASSUME NEW h \in Grants, NEW s, NEW n, NEW return, BindGrant(h, s, n, return)
      PROVE  /\ grantStatus'[g] # "unminted"
             /\ grantStatus[g] = "revoked" => grantStatus'[g] = "revoked"
             /\ grantSeat'[g] = grantSeat[g]
             /\ grantSession'[g] = grantSession[g]
      BY <1>1, <1>3 DEF BindGrant, FreshGrant, WithRevoked, TypeOK, GrantTypeOK
<1>4. ASSUME NEW n \in Sessions, NEW h \in Grants, AIStartCommit(n, h)
      PROVE  /\ UNCHANGED <<grantStatus, grantSeat>>
             /\ grantSession[g] # None => grantSession'[g] = grantSession[g]
      BY <1>1, <1>4 DEF AIStartCommit, TypeOK, GrantTypeOK
<1> QED
    BY <1>1, <1>2, <1>3, <1>4, ScopeWriters DEF MintPreSessionDM, PlayerHandoff

LEMMA JudgeKeepsDead ==
    ASSUME TypeOK, GrantIsCurrent, GrantKind, BoundGrantsEndWithSession, PlayerGrantPlays,
           DeniedIsDead, NEW r \in Requests, ResolveJudge(r)
    PROVE  DeniedIsDead'
<1> DEFINE g == probe[r].grant
           n == probe[r].session
           granted == /\ SeatStillBound(g)
                      /\ IF n = None
                         THEN ~probe[r].expired /\ PreSessionScope(g)
                         ELSE SessionScope(g, n)
<1>1. /\ probe' = [probe EXCEPT ![r] =
                      IF granted THEN IdleProbe ELSE [probe[r] EXCEPT !.stage = "denied"]]
      /\ UNCHANGED grantVars
      BY DEF ResolveJudge, SetProbe
<1>2. /\ probe[r].stage = "read"
      /\ probe[r] \in [stage : ProbeStages, grant : Grants \cup {None},
                       session : Sessions \cup {None}, expired : BOOLEAN]
      BY DEF ResolveJudge, TypeOK, CallTypeOK
<1>3. /\ g \in Grants
      /\ grantStatus[g] # "unminted"
      /\ SeatRole[grantSeat[g]] = "player" => n = grantSession[g] /\ n # None
      BY <1>2 DEF DeniedIsDead, GrantKind
<1>4. ASSUME SeatRole[grantSeat[g]] = "player", grantStatus[g] = "active"
      PROVE  granted
  <2>1. SeatStillBound(g)
        BY <1>3, <1>4 DEF GrantIsCurrent, SeatStillBound
  <2>2. ActiveSession(n)
        BY <1>3, <1>4 DEF BoundGrantsEndWithSession
  <2>3. SessionScope(g, n)
        BY <1>3, <1>4, <2>2 DEF SessionScope, PlayerGrantPlays
  <2> QED
      BY <1>3, <1>4, <2>1, <2>3
<1>5. SeatRole[grantSeat[g]] = "player" /\ ~granted => grantStatus[g] = "revoked"
      BY <1>3, <1>4 DEF TypeOK, GrantTypeOK
<1> HIDE DEF granted
<1>6. CASE granted
      BY <1>1, <1>6 DEF DeniedIsDead, IdleProbe, grantVars, TypeOK, CallTypeOK
<1>7. CASE ~granted
  <2>1. probe'[r].grant = g /\ probe'[r].session = n
        BY <1>1, <1>2, <1>7 DEF TypeOK, CallTypeOK
  <2>2. \A q \in Requests \ {r} : probe'[q] = probe[q]
        BY <1>1 DEF TypeOK, CallTypeOK
  <2> QED
      BY <1>1, <1>3, <1>5, <1>7, <2>1, <2>2 DEF DeniedIsDead, grantVars
<1> QED
    BY <1>6, <1>7

LEMMA DeniedStep ==
    ASSUME TypeOK, GrantIsCurrent, GrantKind, BoundGrantsEndWithSession, PlayerGrantPlays,
           DeniedIsDead, [Next]_vars
    PROVE  DeniedIsDead'
<1>1. ASSUME NEW r \in Requests, NEW g \in Grants, ResolveRead(r, g)
      PROVE  DeniedIsDead'
      BY <1>1
      DEF ResolveRead, SetProbe, DeniedIsDead, grantVars, TypeOK, CallTypeOK
<1>2. ASSUME NEW r \in Requests, ResolveRevoke(r)
      PROVE  DeniedIsDead'
      BY <1>2
      DEF ResolveRevoke, SetProbe, WithRevoked, IdleProbe, DeniedIsDead, TypeOK, CallTypeOK, GrantTypeOK
<1>3. CASE Crash
      BY <1>3 DEF Crash, IdleProbe, DeniedIsDead
<1>4. CASE CampaignNext \/ RosterNext
      BY <1>4, ProbeKept
      DEF CampaignNext, RosterNext, CreateCampaign, SetStatus, ClearArchivedSelection, SelectBegin,
          SelectCommit, ClearSelection, DeleteDraft, AddToRoster, UpdateRoster, ArchiveCharacter,
          UnarchiveCharacter, callVars
<1>5. CASE SeatNext
      BY <1>5, ProbeKept
      DEF SeatNext, CreateSeat, ArchiveSeat, DeleteSeat, SetController, SelectCharacter, callVars
<1>6. ASSUME NEW g \in Grants, NEW n \in Sessions, NEW s \in Seats,
             \/ PlayerHandoff(g, n, s) \/ TakeBack(g, n, s)
             \/ \E who \in AccessSessions : AdminReassign(g, n, s, who)
      PROVE  DeniedIsDead'
      BY <1>6, ProbeKept
      DEF PlayerHandoff, BindGrant, TakeBack, AdminReassign, ReturnToHuman, callVars
<1>7. ASSUME NEW g \in Grants, NEW s \in Seats, MintPreSessionDM(g, s)
      PROVE  DeniedIsDead'
      BY <1>7, ProbeKept DEF MintPreSessionDM, BindGrant, callVars
<1>8. ASSUME NEW g \in Grants, TtlRunsOut(g)
      PROVE  DeniedIsDead'
      BY <1>8, ProbeKept DEF TtlRunsOut, callVars
<1>9. CASE SessionNext
      BY <1>9, ProbeKept
      DEF SessionNext, StartFromLobby, AIStartBegin, AIStartCommit, AIStartFail, LateJoin,
          Finalize, callVars
<1>10. CASE UNCHANGED vars
      BY <1>10, ProbeKept DEF vars, callVars
<1> QED
    BY <1>1, <1>2, <1>3, <1>4, <1>5, <1>6, <1>7, <1>8, <1>9, <1>10, JudgeKeepsDead
    DEF Next, AINext

\* the part of the invariant that speaks of Player Seats
PlayerInv == PlayerHeld /\ PlayerGrantPlays /\ DeniedIsDead

LEMMA PlayerInvariant == Spec => []PlayerInv
<1>1. Init => PlayerInv
      BY KeyAssumption
      DEF Init, GrantInit, CallInit, IdleProbe, PlayerInv, PlayerHeld, PlayerGrantPlays, DeniedIsDead
<1>2. TypeOK /\ GrantIsCurrent /\ GrantKind /\ BoundGrantsEndWithSession /\ PlayerInv /\ [Next]_vars
          => PlayerInv'
      BY HeldStep, PlaysStep, DeniedStep DEF PlayerInv
<1> QED
    BY <1>1, <1>2, TypeCorrect, GrantsStayCurrent, GrantKinds, BoundGrantsEnd, PTL DEF Spec

\* A Player Seat is never left with an AI nobody can remove: its grant is
\* active in a running Session it plays in, so Take Back, reassignment or the
\* end of the Session gives it back - also while requests are being denied.
THEOREM PlayerSeatsRecoverable == Spec => []NoStrandedPlayerSeat
<1>1. TypeOK /\ GrantIsCurrent /\ GrantKind /\ BoundGrantsEndWithSession /\ PlayerInv
          => NoStrandedPlayerSeat
      BY DEF GrantIsCurrent, GrantKind, BoundGrantsEndWithSession, PlayerInv, PlayerHeld,
             PlayerGrantPlays, NoStrandedPlayerSeat, TypeOK, GrantTypeOK
<1> QED
    BY <1>1, TypeCorrect, GrantsStayCurrent, GrantKinds, BoundGrantsEnd, PlayerInvariant, PTL

-----------------------------------------------------------------------------
(***************************************************************************)
(* Characters of a Room of any size: what is selected can be played, what  *)
(* is played is leased, and two Sessions never play one Character.         *)
(***************************************************************************)

\* No interleaving of Starts opens two Sessions of one Campaign.
THEOREM OneSession == Spec => []OneSessionPerCampaign
<1>1. Init => OneSessionPerCampaign
      BY DEF Init, SessionInit, OneSessionPerCampaign, ActiveSession
<1>2. ASSUME TypeOK, OneSessionPerCampaign, [Next]_vars
      PROVE  OneSessionPerCampaign'
  <2>1. ASSUME NEW n \in Sessions, NEW s \in Seats, NEW generation,
               InsertSession(n, s, generation), StartScope(SeatCampaign[s])
        PROVE  OneSessionPerCampaign'
        BY <1>2, <2>1
        DEF InsertSession, StartScope, HasActiveSession, SessionOf, OneSessionPerCampaign,
            ActiveSession, TypeOK, SessionTypeOK
  <2>2. ASSUME NEW n \in Sessions, NEW g \in Grants, AIStartCommit(n, g)
        PROVE  grantSeat[g] \in Seats
        BY <1>2, <2>2 DEF AIStartCommit, TypeOK, GrantTypeOK
  <2>3. ASSUME NEW n \in Sessions, NEW status \in {"ended", "abandoned"}, Finalize(n, status)
        PROVE  OneSessionPerCampaign'
        BY <1>2, <2>3 DEF Finalize, OneSessionPerCampaign, ActiveSession, TypeOK, SessionTypeOK
  <2>4. ASSUME UNCHANGED <<sessionStatus, dmSeat>>
        PROVE  OneSessionPerCampaign'
        BY <1>2, <2>4 DEF OneSessionPerCampaign, ActiveSession
  <2> QED
      BY <1>2, <2>1, <2>2, <2>3, <2>4, SessionWriters
      DEF StartFromLobby, AIStartCommit, LateJoin, sessionVars
<1> QED
    BY <1>1, <1>2, TypeCorrect, PTL DEF Spec

-----------------------------------------------------------------------------
(* Selections.                                                             *)

LEMMA CampaignKeepsSelections ==
    ASSUME TypeOK, SelectionPlayable, CampaignNext
    PROVE  SelectionPlayable'
<1> USE DEF SelectionPlayable, Eligible, Live, SeatsOf, TypeOK, SeatTypeOK, CampaignTypeOK
<1>1. ASSUME NEW c \in Campaigns, DeleteDraft(c)
      PROVE  SelectionPlayable'
  <2>1. \A s \in Seats : selected'[s] # None =>
            /\ selected'[s] = selected[s] /\ seatState'[s] = seatState[s]
            /\ SeatCampaign[s] # c
        BY <1>1 DEF DeleteDraft, DropSeats
  <2> QED
      BY <1>1, <2>1, SeatAssumption DEF DeleteDraft
<1>2. ASSUME UNCHANGED <<seatState, selected, roster, archived>>
      PROVE  SelectionPlayable'
      BY <1>2
<1> QED
    BY <1>1, <1>2
    DEF CampaignNext, CreateCampaign, SetStatus, ClearArchivedSelection, SelectBegin, SelectCommit,
        ClearSelection, seatVars, campaignVars

LEMMA RosterKeepsSelections ==
    ASSUME TypeOK, SelectionPlayable, RosterNext
    PROVE  SelectionPlayable'
<1> USE DEF SelectionPlayable, Eligible, Live, SeatsOf, TypeOK, SeatTypeOK, CampaignTypeOK
<1>1. ASSUME NEW c \in Campaigns, NEW ch \in Characters,
             NEW status \in {"available", "gone"}, AddToRoster(c, ch, status)
      PROVE  SelectionPlayable'
      BY <1>1, SeatAssumption DEF AddToRoster, seatVars
<1>2. ASSUME NEW c \in Campaigns, NEW ch \in Characters,
             NEW status \in RosterStatuses, UpdateRoster(c, ch, status)
      PROVE  SelectionPlayable'
      BY <1>2, SeatAssumption DEF UpdateRoster, ClearSelections
<1>3. ASSUME NEW ch \in Characters, ArchiveCharacter(ch)
      PROVE  SelectionPlayable'
      BY <1>3 DEF ArchiveCharacter, ClearSelections
<1>4. ASSUME NEW ch \in Characters, UnarchiveCharacter(ch)
      PROVE  SelectionPlayable'
      BY <1>4 DEF UnarchiveCharacter, seatVars
<1> QED
    BY <1>1, <1>2, <1>3, <1>4 DEF RosterNext

LEMMA SeatKeepsSelections ==
    ASSUME TypeOK, SelectionPlayable, SeatNext
    PROVE  SelectionPlayable'
<1> USE DEF SelectionPlayable, Eligible, Live, SeatsOf, TypeOK, SeatTypeOK, campaignVars
<1>1. ASSUME NEW s \in Seats, CreateSeat(s)
      PROVE  SelectionPlayable'
      BY <1>1 DEF CreateSeat
<1>2. ASSUME NEW s \in Seats, ArchiveSeat(s)
      PROVE  SelectionPlayable'
      BY <1>2 DEF ArchiveSeat
<1>3. ASSUME NEW s \in Seats, DeleteSeat(s)
      PROVE  SelectionPlayable'
      BY <1>3 DEF DeleteSeat, DropSeats
<1>4. ASSUME NEW s \in Seats, NEW who \in AccessSessions \cup {None}, SetController(s, who)
      PROVE  SelectionPlayable'
      BY <1>4 DEF SetController
<1>5. ASSUME NEW s \in Seats, NEW ch \in Characters \cup {None}, SelectCharacter(s, ch)
      PROVE  SelectionPlayable'
      BY <1>5 DEF SelectCharacter
<1> QED
    BY <1>1, <1>2, <1>3, <1>4, <1>5 DEF SeatNext

\* the operations of AIs and Sessions leave selections alone
LEMMA OthersKeepSelections ==
    ASSUME AINext \/ SessionNext \/ Crash \/ UNCHANGED vars
    PROVE  UNCHANGED <<seatState, selected, roster, archived>>
<1> USE DEF campaignVars, seatVars
<1>1. ASSUME NEW r \in Requests,
             \/ ResolveJudge(r) \/ ResolveRevoke(r)
             \/ \E g \in Grants : ResolveRead(r, g)
      PROVE  UNCHANGED <<seatState, selected, roster, archived>>
      BY <1>1 DEF ResolveRead, ResolveJudge, ResolveRevoke
<1>2. ASSUME NEW g \in Grants, NEW n \in Sessions, NEW s \in Seats,
             \/ PlayerHandoff(g, n, s) \/ TakeBack(g, n, s)
             \/ \E who \in AccessSessions : AdminReassign(g, n, s, who)
      PROVE  UNCHANGED <<seatState, selected, roster, archived>>
      BY <1>2 DEF PlayerHandoff, BindGrant, TakeBack, AdminReassign, ReturnToHuman
<1>3. ASSUME NEW g \in Grants, NEW s \in Seats, MintPreSessionDM(g, s)
      PROVE  UNCHANGED <<seatState, selected, roster, archived>>
      BY <1>3 DEF MintPreSessionDM, BindGrant
<1>4. ASSUME NEW g \in Grants, TtlRunsOut(g)
      PROVE  UNCHANGED <<seatState, selected, roster, archived>>
      BY <1>4 DEF TtlRunsOut
<1>5. CASE SessionNext
      BY <1>5
      DEF SessionNext, StartFromLobby, AIStartBegin, AIStartCommit, AIStartFail, LateJoin, Finalize
<1>6. CASE Crash \/ UNCHANGED vars
      BY <1>6 DEF Crash, vars
<1> QED
    BY <1>1, <1>2, <1>3, <1>4, <1>5, <1>6 DEF AINext

\* A selected Character is on the roster, available, not archived and selected
\* once, through every roster change, archive and deletion.
THEOREM SelectionsPlayable == Spec => []SelectionPlayable
<1>1. Init => SelectionPlayable
      BY DEF Init, SelectionPlayable
<1>2. ASSUME TypeOK, SelectionPlayable, [Next]_vars
      PROVE  SelectionPlayable'
  <2>1. ASSUME UNCHANGED <<seatState, selected, roster, archived>>
        PROVE  SelectionPlayable'
        BY <1>2, <2>1 DEF SelectionPlayable, Eligible, Live
  <2> QED
      BY <1>2, <2>1, CampaignKeepsSelections, RosterKeepsSelections, SeatKeepsSelections,
         OthersKeepSelections DEF Next
<1> QED
    BY <1>1, <1>2, TypeCorrect, PTL DEF Spec

-----------------------------------------------------------------------------
(* Leases.                                                                 *)

LEMMA InsertKeepsLease ==
    ASSUME TypeOK, LeaseExact, NEW n \in Sessions, NEW s \in Seats, NEW generation,
           InsertSession(n, s, generation), LobbyReady(SeatCampaign[s])
    PROVE  LeaseExact'
<1> DEFINE P == LobbyPlayers(SeatCampaign[s])
<1>1. /\ P \subseteq Seats
      /\ \A t \in P : selected[t] \in Characters /\ lease[selected[t]] = None
      BY DEF LobbyPlayers, LobbyReady, TypeOK, SeatTypeOK
<1>2. /\ sessionStatus[n] = "unused"
      /\ sessionStatus' = [sessionStatus EXCEPT ![n] = "active"]
      /\ lease' = [ch \in Characters |->
                      IF \E t \in P : selected[t] = ch THEN n ELSE lease[ch]]
      /\ plays' = [plays EXCEPT ![n] = [t \in Seats |-> IF t \in P THEN selected[t] ELSE None]]
      /\ joined'[n] \subseteq Seats /\ P \subseteq joined'[n]
      /\ \A m \in Sessions \ {n} : joined'[m] = joined[m]
      BY DEF InsertSession, LobbyPlayers, LobbySpectators, TypeOK, SessionTypeOK
<1>3. \A m \in Sessions \ {n} : /\ sessionStatus'[m] = sessionStatus[m]
                                /\ plays'[m] = plays[m]
      BY <1>2 DEF TypeOK, SessionTypeOK
<1>4. /\ sessionStatus'[n] = "active"
      /\ plays'[n] = [t \in Seats |-> IF t \in P THEN selected[t] ELSE None]
      BY <1>2 DEF TypeOK, SessionTypeOK
<1> SUFFICES ASSUME NEW ch \in Characters, NEW m \in Sessions
             PROVE  lease'[ch] = m <=> /\ sessionStatus'[m] = "active"
                                       /\ \E t \in joined'[m] : plays'[m][t] = ch
    BY DEF LeaseExact, ActiveSession
<1>5. CASE m = n
  <2>1. lease[ch] # n
        BY <1>2 DEF LeaseExact, ActiveSession
  <2>2. (\E t \in joined'[n] : plays'[n][t] = ch) <=> \E t \in P : selected[t] = ch
        BY <1>1, <1>2, <1>4, KeyAssumption
  <2> QED
      BY <1>2, <1>4, <1>5, <2>1, <2>2
<1>6. CASE m # n
  <2>1. lease'[ch] = m <=> lease[ch] = m
        BY <1>1, <1>2, <1>6, KeyAssumption
  <2> QED
      BY <1>2, <1>3, <1>6, <2>1 DEF LeaseExact, ActiveSession
<1> QED
    BY <1>5, <1>6

LEMMA JoinKeepsLease ==
    ASSUME TypeOK, LeaseExact, NEW n \in Sessions, NEW s \in Seats, LateJoin(n, s)
    PROVE  LeaseExact'
<1>1. /\ selected[s] \in Characters /\ lease[selected[s]] = None
      /\ s \notin joined[n]
      /\ sessionStatus[n] = "active"
      BY DEF LateJoin, FreeToJoin, ActiveSession, TypeOK, SeatTypeOK
<1>2. /\ sessionStatus' = sessionStatus
      /\ joined' = [joined EXCEPT ![n] = joined[n] \cup {s}]
      /\ plays' = [plays EXCEPT ![n][s] = selected[s]]
      /\ lease' = [lease EXCEPT ![selected[s]] = n]
      BY DEF LateJoin
<1>3. /\ \A m \in Sessions \ {n} : joined'[m] = joined[m] /\ plays'[m] = plays[m]
      /\ joined'[n] = joined[n] \cup {s}
      /\ \A t \in joined[n] : plays'[n][t] = plays[n][t]
      /\ plays'[n][s] = selected[s]
      /\ \A ch \in Characters : lease'[ch] = IF ch = selected[s] THEN n ELSE lease[ch]
      BY <1>1, <1>2 DEF TypeOK, SessionTypeOK
<1> QED
    BY <1>1, <1>2, <1>3, KeyAssumption DEF LeaseExact, ActiveSession

LEMMA FinalizeKeepsLease ==
    ASSUME TypeOK, LeaseExact, NEW n \in Sessions, NEW status \in {"ended", "abandoned"},
           Finalize(n, status)
    PROVE  LeaseExact'
BY KeyAssumption DEF Finalize, LeaseExact, ActiveSession, TypeOK, SessionTypeOK

\* A Character is leased to a Session exactly while a participant of the
\* running Session plays it: a lease is neither leaked nor lost.
THEOREM LeasesExact == Spec => []LeaseExact
<1>1. Init => LeaseExact
      BY KeyAssumption DEF Init, SessionInit, LeaseExact, ActiveSession
<1>2. ASSUME TypeOK, LeaseExact, [Next]_vars
      PROVE  LeaseExact'
  <2>1. ASSUME NEW n \in Sessions, NEW g \in Grants, AIStartCommit(n, g)
        PROVE  LeaseExact'
        BY <1>2, <2>1, InsertKeepsLease DEF AIStartCommit, TypeOK, GrantTypeOK
  <2>2. ASSUME UNCHANGED sessionVars
        PROVE  LeaseExact'
        BY <1>2, <2>2 DEF sessionVars, LeaseExact, ActiveSession
  <2> QED
      BY <1>2, <2>1, <2>2, InsertKeepsLease, JoinKeepsLease, FinalizeKeepsLease, SessionWriters
      DEF StartFromLobby
<1> QED
    BY <1>1, <1>2, TypeCorrect, PTL DEF Spec

\* A Character in play cannot be archived, and an archived one is never taken
\* into play.
THEOREM LeasedNeverArchived == Spec => []LeasedNotArchived
<1>1. Init => LeasedNotArchived
      BY DEF Init, LeasedNotArchived
<1>2. ASSUME TypeOK, LeasedNotArchived, [Next]_vars
      PROVE  LeasedNotArchived'
  <2>1. ASSUME NEW n \in Sessions, NEW s \in Seats, NEW generation,
               InsertSession(n, s, generation), LobbyReady(SeatCampaign[s])
        PROVE  \A ch \in Characters : lease'[ch] = lease[ch] \/ ch \notin archived
        BY <2>1 DEF InsertSession, LobbyReady, Eligible
  <2>2. ASSUME NEW n \in Sessions, NEW s \in Seats, LateJoin(n, s)
        PROVE  \A ch \in Characters : lease'[ch] = lease[ch] \/ ch \notin archived
        BY <1>2, <2>2 DEF LateJoin, Eligible, TypeOK, SessionTypeOK
  <2>3. ASSUME NEW n \in Sessions, NEW status \in {"ended", "abandoned"}, Finalize(n, status)
        PROVE  \A ch \in Characters : lease'[ch] = lease[ch] \/ lease'[ch] = None
        BY <1>2, <2>3 DEF Finalize, TypeOK, SessionTypeOK
  <2>4. \A ch \in Characters : \/ lease'[ch] = lease[ch] \/ lease'[ch] = None
                               \/ ch \notin archived
        BY <1>2, <2>1, <2>2, <2>3, SessionWriters
        DEF StartFromLobby, AIStartCommit, sessionVars, TypeOK, GrantTypeOK
  <2>5. CASE archived' \subseteq archived
        BY <1>2, <2>4, <2>5 DEF LeasedNotArchived, TypeOK, CampaignTypeOK
  <2>6. ASSUME NEW ch \in Characters, ArchiveCharacter(ch)
        PROVE  LeasedNotArchived'
        BY <1>2, <2>6
        DEF ArchiveCharacter, Unleased, sessionVars, LeasedNotArchived, TypeOK, CampaignTypeOK
  <2>7. CASE CampaignNext
        BY <2>5, <2>7
        DEF CampaignNext, CreateCampaign, SetStatus, ClearArchivedSelection, SelectBegin,
            SelectCommit, ClearSelection, DeleteDraft, campaignVars
  <2>8. CASE SeatNext
        BY <2>5, <2>8
        DEF SeatNext, CreateSeat, ArchiveSeat, DeleteSeat, SetController, SelectCharacter, campaignVars
  <2>9. CASE RosterNext
        BY <2>5, <2>6, <2>9 DEF RosterNext, AddToRoster, UpdateRoster, UnarchiveCharacter
  <2> QED
      BY <1>2, <2>5, <2>7, <2>8, <2>9, OthersKeepSelections DEF Next
<1> QED
    BY <1>1, <1>2, TypeCorrect, PTL DEF Spec

\* The lease table is right about every Character: leased while played, free
\* otherwise, and not archived while leased.
THEOREM LeasesStaySound == Spec => []LeasesSound
BY LeasesExact, LeasedNeverArchived, PTL DEF LeasesSound

\* Two participants of a Session never play the same Character, whether they
\* came with the Start or joined late.
THEOREM OnePlayer == Spec => []OnePlayerPerCharacter
<1>1. Init => OnePlayerPerCharacter
      BY DEF Init, SessionInit, OnePlayerPerCharacter
<1>2. ASSUME TypeOK, SelectionPlayable, LeaseExact, OnePlayerPerCharacter, [Next]_vars
      PROVE  OnePlayerPerCharacter'
  <2>1. ASSUME NEW n \in Sessions, NEW s \in Seats, NEW generation,
               InsertSession(n, s, generation)
        PROVE  OnePlayerPerCharacter'
    <3>1. \A a, b \in LobbyPlayers(SeatCampaign[s]) : a # b => selected[a] # selected[b]
          BY <1>2 DEF LobbyPlayers, SelectionPlayable, SeatsOf
    <3>2. plays'[n] = [t \in Seats |-> IF t \in LobbyPlayers(SeatCampaign[s])
                                      THEN selected[t] ELSE None]
          BY <1>2, <2>1 DEF InsertSession, TypeOK, SessionTypeOK
    <3>3. joined'[n] \subseteq Seats
          BY <1>2, <2>1 DEF InsertSession, LobbyPlayers, LobbySpectators, TypeOK, SessionTypeOK
    <3>4. \A m \in Sessions \ {n} : joined'[m] = joined[m] /\ plays'[m] = plays[m]
          BY <1>2, <2>1 DEF InsertSession, TypeOK, SessionTypeOK
    <3>5. \A a, b \in joined'[n] : (a # b /\ plays'[n][a] # None) => plays'[n][a] # plays'[n][b]
          BY <3>1, <3>2, <3>3
    <3> QED
        BY <1>2, <3>4, <3>5 DEF OnePlayerPerCharacter
  <2>2. ASSUME NEW n \in Sessions, NEW s \in Seats, LateJoin(n, s)
        PROVE  OnePlayerPerCharacter'
    <3>1. /\ selected[s] \in Characters /\ lease[selected[s]] = None
          /\ ActiveSession(n) /\ s \notin joined[n]
          BY <1>2, <2>2 DEF LateJoin, FreeToJoin, TypeOK, SeatTypeOK
    <3>2. \A t \in joined[n] : plays[n][t] # selected[s]
          BY <1>2, <3>1, KeyAssumption DEF LeaseExact
    <3>3. /\ joined'[n] = joined[n] \cup {s}
          /\ plays'[n] = [plays[n] EXCEPT ![s] = selected[s]]
          /\ plays[n] \in [Seats -> Characters \cup {None}] /\ joined[n] \subseteq Seats
          /\ \A m \in Sessions \ {n} : joined'[m] = joined[m] /\ plays'[m] = plays[m]
          BY <1>2, <2>2 DEF LateJoin, TypeOK, SessionTypeOK
    <3> QED
        BY <1>2, <3>1, <3>2, <3>3 DEF OnePlayerPerCharacter
  <2>3. ASSUME UNCHANGED <<joined, plays>>
        PROVE  OnePlayerPerCharacter'
        BY <1>2, <2>3 DEF OnePlayerPerCharacter
  <2>4. ASSUME NEW n \in Sessions, NEW g \in Grants, AIStartCommit(n, g)
        PROVE  OnePlayerPerCharacter'
        BY <1>2, <2>1, <2>4 DEF AIStartCommit, TypeOK, GrantTypeOK
  <2> QED
      BY <1>2, <2>1, <2>2, <2>3, <2>4, SessionWriters DEF StartFromLobby, Finalize, sessionVars
<1> QED
    BY <1>1, <1>2, TypeCorrect, SelectionsPlayable, LeasesExact, PTL DEF Spec

-----------------------------------------------------------------------------
(***************************************************************************)
(* A Room of any size implements ExclusiveLease and SeatAuthority: its     *)
(* initial state maps to theirs, and every step to one of theirs or to a   *)
(* stutter.                                                                *)
(***************************************************************************)

-----------------------------------------------------------------------------
(* ExclusiveLease.                                                         *)

\* with exact leases, the lease table determines who plays what
LEMMA UsersAreLease ==
    ASSUME TypeOK, LeaseExact, NEW ch \in Characters
    PROVE  UsersOf(ch) = IF lease[ch] = None THEN {} ELSE {lease[ch]}
BY KeyAssumption DEF UsersOf, LeaseExact, TypeOK, SessionTypeOK

LEMMA LeaseStart ==
    ASSUME TypeOK, TypeOK', LeaseExact, LeaseExact', NEW n \in Sessions, NEW s \in Seats,
           NEW generation, InsertSession(n, s, generation), LobbyReady(SeatCampaign[s])
    PROVE  Leases!Next
<1> DEFINE chs == {ch \in Characters : \E t \in LobbyPlayers(SeatCampaign[s]) : selected[t] = ch}
<1>1. /\ sessionStatus[n] = "unused"
      /\ sessionStatus' = [sessionStatus EXCEPT ![n] = "active"]
      /\ \A ch \in Characters : lease'[ch] = IF ch \in chs THEN n ELSE lease[ch]
      /\ \A ch \in chs : lease[ch] = None
      BY DEF InsertSession, LobbyReady
<1>2. {m \in Sessions : sessionStatus'[m] \in {"ended", "abandoned"}}
          = {m \in Sessions : sessionStatus[m] \in {"ended", "abandoned"}}
      BY <1>1 DEF TypeOK, SessionTypeOK
<1>3. \A ch \in Characters : UsersOf(ch) = IF lease[ch] = None THEN {} ELSE {lease[ch]}
      BY UsersAreLease
<1>4. \A ch \in Characters : UsersOf(ch)' = IF lease'[ch] = None THEN {} ELSE {lease'[ch]}
      BY KeyAssumption DEF UsersOf, LeaseExact, TypeOK, SessionTypeOK
<1>5. Leases!Acquire(n, chs)
      BY <1>1, <1>2, <1>3, <1>4, KeyAssumption DEF Leases!Acquire
<1> QED
    BY <1>5 DEF Leases!Next

LEMMA LeaseJoin ==
    ASSUME TypeOK, TypeOK', LeaseExact, LeaseExact', NEW n \in Sessions, NEW s \in Seats,
           LateJoin(n, s)
    PROVE  Leases!Next
<1>1. /\ selected[s] \in Characters /\ lease[selected[s]] = None
      /\ sessionStatus[n] = "active" /\ sessionStatus' = sessionStatus
      /\ \A ch \in Characters : lease'[ch] = IF ch \in {selected[s]} THEN n ELSE lease[ch]
      BY DEF LateJoin, FreeToJoin, ActiveSession, TypeOK, SeatTypeOK, SessionTypeOK
<1>2. \A ch \in Characters : UsersOf(ch) = IF lease[ch] = None THEN {} ELSE {lease[ch]}
      BY UsersAreLease
<1>3. \A ch \in Characters : UsersOf(ch)' = IF lease'[ch] = None THEN {} ELSE {lease'[ch]}
      BY KeyAssumption DEF UsersOf, LeaseExact, TypeOK, SessionTypeOK
<1>4. /\ n \notin {m \in Sessions : sessionStatus[m] \in {"ended", "abandoned"}}
      /\ UNCHANGED {m \in Sessions : sessionStatus[m] \in {"ended", "abandoned"}}
      BY <1>1
<1>5. \A ch \in Characters :
          UsersOf(ch)' = IF ch \in {selected[s]} THEN {n} ELSE UsersOf(ch)
      BY <1>1, <1>2, <1>3, KeyAssumption
<1>6. Leases!Acquire(n, {selected[s]})
      BY <1>1, <1>2, <1>4, <1>5 DEF Leases!Acquire
<1> QED
    BY <1>1, <1>6 DEF Leases!Next

LEMMA LeaseEnd ==
    ASSUME TypeOK, TypeOK', LeaseExact, LeaseExact', NEW n \in Sessions,
           NEW status \in {"ended", "abandoned"}, Finalize(n, status)
    PROVE  Leases!Next
<1>1. /\ sessionStatus[n] = "active"
      /\ sessionStatus' = [sessionStatus EXCEPT ![n] = status]
      /\ \A ch \in Characters : lease'[ch] = IF lease[ch] = n THEN None ELSE lease[ch]
      BY DEF Finalize, ActiveSession
<1>2. {m \in Sessions : sessionStatus'[m] \in {"ended", "abandoned"}}
          = {m \in Sessions : sessionStatus[m] \in {"ended", "abandoned"}} \cup {n}
      BY <1>1 DEF TypeOK, SessionTypeOK
<1>3. \A ch \in Characters : UsersOf(ch) = IF lease[ch] = None THEN {} ELSE {lease[ch]}
      BY UsersAreLease
<1>4. \A ch \in Characters : UsersOf(ch)' = IF lease'[ch] = None THEN {} ELSE {lease'[ch]}
      BY KeyAssumption DEF UsersOf, LeaseExact, TypeOK, SessionTypeOK
<1>5. \A ch \in Characters : UsersOf(ch)' = UsersOf(ch) \ {n}
      BY <1>1, <1>3, <1>4, KeyAssumption
<1>6. Leases!Release(n)
      BY <1>1, <1>2, <1>5 DEF Leases!Release
<1> QED
    BY <1>6 DEF Leases!Next

LEMMA LeaseStutter ==
    ASSUME UNCHANGED sessionVars
    PROVE  UNCHANGED Leases!vars
BY DEF sessionVars, Leases!vars, UsersOf, ActiveSession

\* Over all Campaigns of the Room a Character is played in at most one running
\* Session, is taken only while free and is given back when its Session is over.
THEOREM LeasesImplemented == Spec => LeaseRefined
<1>1. Init => Leases!Init
      BY DEF Init, SessionInit, Leases!Init, UsersOf, ActiveSession
<1>2. ASSUME TypeOK, TypeOK', LeaseExact, LeaseExact', [Next]_vars
      PROVE  [Leases!Next]_(Leases!vars)
  <2>1. ASSUME NEW n \in Sessions, NEW g \in Grants, AIStartCommit(n, g)
        PROVE  Leases!Next
        BY <1>2, <2>1, LeaseStart DEF AIStartCommit, TypeOK, GrantTypeOK
  <2>2. ASSUME NEW n \in Sessions, NEW s \in Seats, StartFromLobby(n, s)
        PROVE  Leases!Next
        BY <1>2, <2>2, LeaseStart DEF StartFromLobby
  <2> QED
      BY <1>2, <2>1, <2>2, LeaseJoin, LeaseEnd, LeaseStutter, SessionWriters
<1> QED
    BY <1>1, <1>2, TypeCorrect, LeasesExact, PTL DEF Spec, LeaseRefined, Leases!Spec

-----------------------------------------------------------------------------
(* SeatAuthority.                                                          *)

\* an AI in a Seat was minted for that Seat
ControllersMinted ==
    \A s \in Seats : controller[s] \in Grants =>
        grantStatus[controller[s]] # "unminted" /\ grantSeat[controller[s]] = s

LEMMA MintedStep ==
    ASSUME TypeOK, ControllersMinted, [Next]_vars
    PROVE  ControllersMinted'
<1> USE KeyAssumption DEF ControllersMinted, TypeOK, SeatTypeOK, GrantTypeOK
<1>1. ASSUME NEW g \in Grants, NEW s \in Seats, NEW n, NEW return, BindGrant(g, s, n, return)
      PROVE  ControllersMinted'
  <2>1. /\ controller' = [controller EXCEPT ![s] = g]
        /\ grantSeat' = [grantSeat EXCEPT ![g] = s]
        /\ grantStatus[g] = "unminted"
        BY <1>1 DEF BindGrant, FreshGrant
  <2>2. \A h \in Grants : grantStatus[h] # "unminted" => grantStatus'[h] # "unminted"
        BY <1>1 DEF BindGrant, WithRevoked
  <2>3. grantStatus'[g] # "unminted"
        BY <1>1 DEF BindGrant, WithRevoked
  <2> QED
      BY <2>1, <2>2, <2>3
<1>2. ASSUME NoMint \/ \E n \in Sessions, g \in Grants : AIStartCommit(n, g),
             \A s \in Seats : controller'[s] = controller[s] \/ controller'[s] \notin Grants
      PROVE  ControllersMinted'
      BY <1>2 DEF NoMint, AIStartCommit
<1>3. CASE SeatNext
  <2>1. \A s \in Seats : controller'[s] = controller[s] \/ controller'[s] \notin Grants
        BY <1>3
        DEF SeatNext, CreateSeat, ArchiveSeat, DeleteSeat, DropSeats, SetController, SelectCharacter
  <2> QED
      BY <1>2, <1>3, <2>1, SeatMintsNone
<1>4. ASSUME NEW c \in Campaigns, DeleteDraft(c)
      PROVE  ControllersMinted'
  <2>1. \A s \in Seats : controller'[s] = controller[s] \/ controller'[s] \notin Grants
        BY <1>4 DEF DeleteDraft, DropSeats
  <2> QED
      BY <1>2, <1>4, <2>1, CampaignMintsNone DEF CampaignNext
<1>5. ASSUME NEW n \in Sessions, NEW status \in {"ended", "abandoned"}, Finalize(n, status)
      PROVE  ControllersMinted'
  <2>1. \A s \in Seats : controller'[s] = controller[s] \/ controller'[s] \notin Grants
        BY <1>5 DEF Finalize
  <2> QED
      BY <1>2, <1>5, <2>1, SessionMintsNone DEF SessionNext
<1>6. ASSUME NEW g \in Grants, NEW n \in Sessions, NEW s \in Seats,
             TakeBack(g, n, s) \/ \E who \in AccessSessions : AdminReassign(g, n, s, who)
      PROVE  ControllersMinted'
  <2>1. controller'[s] \notin Grants /\ \A t \in Seats \ {s} : controller'[t] = controller[t]
        BY <1>6 DEF TakeBack, AdminReassign, ReturnToHuman
  <2>2. \A h \in Grants : /\ grantStatus[h] # "unminted" => grantStatus'[h] # "unminted"
                          /\ grantSeat'[h] = grantSeat[h]
        BY <1>6 DEF TakeBack, AdminReassign, ReturnToHuman, WithRevoked
  <2> QED
      BY <2>1, <2>2
<1>7. ASSUME NEW r \in Requests, ResolveRevoke(r)
      PROVE  ControllersMinted'
      BY <1>7 DEF ResolveRevoke, WithRevoked, seatVars
<1>8. CASE CampaignNext
      BY <1>2, <1>4, <1>8, CampaignMintsNone
      DEF CampaignNext, CreateCampaign, SetStatus, ClearArchivedSelection, SelectBegin,
          SelectCommit, ClearSelection, seatVars
<1>9. ASSUME AuthorityFrame
      PROVE  ControllersMinted'
      BY <1>9 DEF AuthorityFrame
<1>10. CASE AINext
      BY <1>1, <1>6, <1>7, <1>9, <1>10, OutsideAuthority
      DEF AINext, MintPreSessionDM, PlayerHandoff
<1>11. CASE SessionNext
      BY <1>5, <1>9, <1>11, OutsideAuthority DEF SessionNext
<1> QED
    BY <1>3, <1>8, <1>9, <1>10, <1>11, OutsideAuthority DEF Next

LEMMA MintedControllers == Spec => []ControllersMinted
<1>1. Init => ControllersMinted
      BY KeyAssumption DEF Init, ControllersMinted
<1>2. TypeOK /\ ControllersMinted /\ [Next]_vars => ControllersMinted'
      BY MintedStep
<1> QED
    BY <1>1, <1>2, TypeCorrect, PTL DEF Spec

Minted == {g \in Grants : grantStatus[g] # "unminted"}

Deleted == {s \in Seats : seatState[s] = "deleted"}

\* one live Seat passes to who
LEMMA HandOverOne ==
    ASSUME TypeOK, TypeOK', NEW s \in Seats, NEW who \in Controllers,
           Live(s), who # controller[s], who \notin Minted,
           controller' = [controller EXCEPT ![s] = who],
           epoch' = [epoch EXCEPT ![s] = epoch[s] + 1],
           Deleted' = Deleted,
           Minted' = Minted \cup ({who} \cap Grants)
    PROVE  Authority!Next
<1>1. /\ controller' \in [Seats -> AccessSessions \cup Grants \cup {None}]
      /\ controller'[s] = who
      /\ \A t \in Seats \ {s} : controller'[t] = controller[t]
      BY DEF TypeOK, SeatTypeOK, Controllers
<1>2. epoch' = [t \in Seats |-> IF t \in {s} THEN epoch[t] + 1 ELSE epoch[t]]
      BY DEF TypeOK, SeatTypeOK
<1>3. {controller'[t] : t \in {s}} = {who}
      BY <1>1
<1>4. {s} \cap Deleted = {}
      BY DEF Deleted, Live
<1>5. Authority!HandOver({s})
      BY <1>1, <1>2, <1>3, <1>4 DEF Authority!HandOver, Minted, Deleted
<1> QED
    BY <1>5 DEF Authority!Next

LEMMA DropCloses ==
    ASSUME TypeOK, NEW ss \in SUBSET Seats, DropSeats(ss)
    PROVE  [Authority!Next]_(Authority!vars)
<1>1. /\ Deleted' = Deleted \cup ss
      /\ controller' = [s \in Seats |-> IF s \in ss THEN None ELSE controller[s]]
      /\ epoch' = epoch
      /\ Minted' = Minted
      BY DEF DropSeats, WithRevoked, Deleted, Minted, TypeOK, SeatTypeOK, GrantTypeOK
<1>2. CASE ss # {}
  <2>1. Authority!Close(ss)
        BY <1>1, <1>2 DEF Authority!Close, Deleted, Minted
  <2> QED
      BY <2>1 DEF Authority!Next
<1>3. CASE ss = {}
  <2>1. controller' = controller
        BY <1>1, <1>3 DEF TypeOK, SeatTypeOK
  <2> QED
      BY <1>1, <1>3, <2>1 DEF Authority!vars, Deleted, Minted
<1> QED
    BY <1>2, <1>3

LEMMA AuthorityStutter ==
    ASSUME UNCHANGED <<controller, epoch>>, Minted' = Minted, Deleted' = Deleted
    PROVE  UNCHANGED Authority!vars
BY DEF Authority!vars, Minted, Deleted

LEMMA SeatAuthorityStep ==
    ASSUME TypeOK, TypeOK', SeatNext
    PROVE  [Authority!Next]_(Authority!vars)
<1> USE DEF TypeOK, SeatTypeOK, GrantTypeOK
<1>1. ASSUME NEW s \in Seats, CreateSeat(s)
      PROVE  UNCHANGED Authority!vars
      BY <1>1, AuthorityStutter DEF CreateSeat, Minted, Deleted, grantVars
<1>2. ASSUME NEW s \in Seats, ArchiveSeat(s)
      PROVE  [Authority!Next]_(Authority!vars)
  <2>1. Deleted' = Deleted /\ Minted' = Minted
        BY <1>2 DEF ArchiveSeat, RevokeIfAI, WithRevoked, Live, Deleted, Minted
  <2>2. CASE controller[s] = None
        BY <1>2, <2>1, <2>2, AuthorityStutter DEF ArchiveSeat
  <2>3. CASE controller[s] # None
    <3>1. None \notin Grants /\ None \notin Minted /\ None \in Controllers
          BY KeyAssumption DEF Minted, Controllers
    <3>2. Minted' = Minted \cup ({None} \cap Grants)
          BY <2>1, <3>1
    <3>3. /\ Live(s)
          /\ controller' = [controller EXCEPT ![s] = None]
          /\ epoch' = [epoch EXCEPT ![s] = epoch[s] + 1]
          BY <1>2, <2>3 DEF ArchiveSeat
    <3> QED
        BY <2>1, <2>3, <3>1, <3>2, <3>3, HandOverOne
  <2> QED
      BY <2>2, <2>3
<1>3. ASSUME NEW s \in Seats, DeleteSeat(s)
      PROVE  [Authority!Next]_(Authority!vars)
      BY <1>3, DropCloses DEF DeleteSeat
<1>4. ASSUME NEW s \in Seats, NEW who \in AccessSessions \cup {None}, SetController(s, who)
      PROVE  Authority!Next
  <2>1. Deleted' = Deleted /\ Minted' = Minted
        BY <1>4 DEF SetController, RevokeIfAI, WithRevoked, Deleted, Minted
  <2>2. who \notin Grants /\ who \notin Minted /\ who \in Controllers
        BY KeyAssumption DEF Minted, Controllers
  <2>3. Minted' = Minted \cup ({who} \cap Grants)
        BY <2>1, <2>2
  <2>4. /\ Live(s) /\ who # controller[s]
        /\ controller' = [controller EXCEPT ![s] = who]
        /\ epoch' = [epoch EXCEPT ![s] = epoch[s] + 1]
        BY <1>4 DEF SetController
  <2> QED
      BY <2>1, <2>2, <2>3, <2>4, HandOverOne
<1>5. ASSUME NEW s \in Seats, NEW ch \in Characters \cup {None}, SelectCharacter(s, ch)
      PROVE  UNCHANGED Authority!vars
      BY <1>5, AuthorityStutter DEF SelectCharacter, Minted, Deleted, grantVars
<1> QED
    BY <1>1, <1>2, <1>3, <1>4, <1>5 DEF SeatNext

LEMMA BindAuthority ==
    ASSUME TypeOK, TypeOK', ControllersMinted, NEW g \in Grants, NEW s \in Seats, NEW n,
           NEW return, Live(s), BindGrant(g, s, n, return)
    PROVE  Authority!Next
<1>1. Deleted' = Deleted /\ Minted' = Minted \cup {g}
      BY DEF BindGrant, WithRevoked, Deleted, Minted, TypeOK, GrantTypeOK
<1>2. g \notin Minted /\ g # controller[s] /\ g \in Controllers
      BY DEF BindGrant, FreshGrant, Minted, ControllersMinted, Controllers
<1> QED
    BY <1>1, <1>2, HandOverOne DEF BindGrant, NextGeneration

LEMMA ReturnAuthority ==
    ASSUME TypeOK, TypeOK', NEW g \in Grants, NEW s \in Seats, NEW who \in AccessSessions,
           Live(s), controller[s] = g, ReturnToHuman(g, s, who)
    PROVE  Authority!Next
<1>1. Deleted' = Deleted /\ Minted' = Minted
      BY DEF ReturnToHuman, WithRevoked, Deleted, Minted, TypeOK, GrantTypeOK
<1>2. who \notin Minted /\ who \notin Grants /\ who \in Controllers
      BY KeyAssumption DEF Minted, Controllers
<1> QED
    BY <1>1, <1>2, HandOverOne DEF ReturnToHuman

LEMMA AIAuthorityStep ==
    ASSUME TypeOK, TypeOK', ControllersMinted, AINext
    PROVE  [Authority!Next]_(Authority!vars)
<1>1. ASSUME NEW g \in Grants, NEW s \in Seats, MintPreSessionDM(g, s)
      PROVE  Authority!Next
      BY <1>1, BindAuthority DEF MintPreSessionDM
<1>2. ASSUME NEW g \in Grants, NEW n \in Sessions, NEW s \in Seats, PlayerHandoff(g, n, s)
      PROVE  Authority!Next
      BY <1>2, BindAuthority DEF PlayerHandoff, MayHandOff
<1>3. ASSUME NEW g \in Grants, NEW n \in Sessions, NEW s \in Seats,
             TakeBack(g, n, s) \/ \E who \in AccessSessions : AdminReassign(g, n, s, who)
      PROVE  Authority!Next
      BY <1>3, ReturnAuthority DEF TakeBack, AdminReassign, CurrentGrant, TypeOK, GrantTypeOK
<1>4. ASSUME NEW r \in Requests, ResolveRevoke(r)
      PROVE  UNCHANGED Authority!vars
      BY <1>4, AuthorityStutter
      DEF ResolveRevoke, WithRevoked, seatVars, Minted, Deleted, TypeOK, GrantTypeOK
<1>5. ASSUME AuthorityFrame
      PROVE  UNCHANGED Authority!vars
      BY <1>5, AuthorityStutter DEF AuthorityFrame, Minted, Deleted
<1> QED
    BY <1>1, <1>2, <1>3, <1>4, <1>5, OutsideAuthority DEF AINext

LEMMA FinalizeAuthority ==
    ASSUME TypeOK, TypeOK', GrantIsCurrent, ControllersMinted, NEW n \in Sessions,
           NEW status \in {"ended", "abandoned"}, Finalize(n, status)
    PROVE  [Authority!Next]_(Authority!vars)
<1>0. PICK released \in SUBSET Seats : released = SeatsHeldBy(ActiveGrantsOfSession(n))
      BY DEF SeatsHeldBy
<1>1. \A s \in released : controller[s] \in Grants /\ Live(s)
      BY <1>0 DEF SeatsHeldBy, ActiveGrantsOfSession, GrantIsCurrent, ControllersMinted
<1>2. /\ controller' = [s \in Seats |-> IF s \in released THEN None ELSE controller[s]]
      /\ epoch' = [s \in Seats |-> IF s \in released THEN epoch[s] + 1 ELSE epoch[s]]
      /\ Deleted' = Deleted
      /\ Minted' = Minted
      BY <1>0 DEF Finalize, WithRevoked, Deleted, Minted, TypeOK, GrantTypeOK
<1>3. CASE released = {}
  <2>1. controller' = controller /\ epoch' = epoch
        BY <1>2, <1>3 DEF TypeOK, SeatTypeOK
  <2> QED
      BY <1>2, <2>1, AuthorityStutter
<1>4. CASE released # {}
  <2>1. controller' \in [Seats -> AccessSessions \cup Grants \cup {None}]
        BY DEF TypeOK, SeatTypeOK, Controllers
  <2>2. \A s \in released : /\ controller'[s] = None /\ controller'[s] # controller[s]
                            /\ controller'[s] \notin Minted /\ controller'[s] \notin Grants
        BY <1>1, <1>2, KeyAssumption DEF Minted
  <2>3. \A s \in Seats \ released : controller'[s] = controller[s]
        BY <1>2
  <2>4. released \cap Deleted = {}
        BY <1>1 DEF Deleted, Live
  <2>5. Minted' = Minted \cup ({controller'[s] : s \in released} \cap Grants)
        BY <1>2, <2>2
  <2>6. Authority!HandOver(released)
        BY <1>2, <1>4, <2>1, <2>2, <2>3, <2>4, <2>5 DEF Authority!HandOver, Minted, Deleted
  <2> QED
      BY <2>6 DEF Authority!Next
<1> QED
    BY <1>3, <1>4

\* Every transaction of a Room passes Seats on the way SeatAuthority allows: a
\* new term for every change of holder, and no AI grant installed twice.
THEOREM AuthorityImplemented == Spec => AuthorityRefined
<1>1. Init => Authority!Init
  <2>1. ASSUME Init
        PROVE  /\ {g \in Grants : grantStatus[g] # "unminted"} = {}
               /\ {s \in Seats : seatState[s] = "deleted"} = {}
        BY <2>1 DEF Init, GrantInit
  <2> QED
      BY <2>1 DEF Init, Authority!Init
<1>2. ASSUME TypeOK, TypeOK', GrantIsCurrent, ControllersMinted, [Next]_vars
      PROVE  [Authority!Next]_(Authority!vars)
  <2>1. ASSUME NEW c \in Campaigns, DeleteDraft(c)
        PROVE  [Authority!Next]_(Authority!vars)
        BY <1>2, <2>1, DropCloses DEF DeleteDraft, SeatsOf
  <2>2. ASSUME UNCHANGED <<seatState, controller, epoch>>, NoMint
        PROVE  UNCHANGED Authority!vars
        BY <2>2, AuthorityStutter DEF NoMint, Minted, Deleted
  <2>3. CASE CampaignNext
        BY <1>2, <2>1, <2>2, <2>3, CampaignMintsNone
        DEF CampaignNext, CreateCampaign, SetStatus, ClearArchivedSelection, SelectBegin,
            SelectCommit, ClearSelection, seatVars
  <2>4. ASSUME AuthorityFrame
        PROVE  UNCHANGED Authority!vars
        BY <2>4, AuthorityStutter DEF AuthorityFrame, Minted, Deleted
  <2>5. CASE SessionNext
        BY <1>2, <2>4, <2>5, FinalizeAuthority, OutsideAuthority DEF SessionNext
  <2> QED
      BY <1>2, <2>3, <2>4, <2>5, SeatAuthorityStep, AIAuthorityStep, OutsideAuthority DEF Next
<1> QED
    BY <1>1, <1>2, TypeCorrect, GrantsStayCurrent, MintedControllers, PTL
    DEF Spec, AuthorityRefined, Authority!Spec
=============================================================================
