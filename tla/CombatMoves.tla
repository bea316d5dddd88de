----------------------------- MODULE CombatMoves -----------------------------
(***************************************************************************)
(* Tokens on the board of a tactical Combat: placing and correcting them,  *)
(* the door, formal movement, and the pause a movement takes at the edge   *)
(* of a hostile combatant's reach until the opportunity attack is answered.*)
(* A movement is planned on rows read before its transaction; the          *)
(* transaction compares the revisions of the token and of the board, and,  *)
(* for a resume, of the paused movement - nothing else.                    *)
(***************************************************************************)
EXTENDS CombatTurns

NextTo(a, b) == a # b /\ b - a \in -1..1
Reaches(a, b) == b - a \in -1..1
Crosses(a, b) == {a, b} = {Door, Door + 1}

\* active combatants other than e whose tokens stand on cell x
On(x, e) == {o \in Active \ {e} : token[o].at = x}

\* every cell costs one, the space of another combatant two
Cost(p, e) == (Len(p) - 1) + Cardinality({i \in 2..Len(p) : On(p[i], e) # {}})

PathFits(p, e) ==
    /\ \A i \in 2..Len(p) :
          /\ NextTo(p[i-1], p[i])
          /\ Crosses(p[i-1], p[i]) => board.door = "open"
          /\ \A o \in On(p[i], e) : ~Hostile(e, o)
    /\ On(p[Len(p)], e) = {}

\* validate_movement_path; what is not legal has cost nothing
LegalPath(p, e, left) == Len(p) >= 2 /\ p[1] = token[e].at /\ PathFits(p, e) /\ Cost(p, e) <= left
Feet(p, e, left) == IF LegalPath(p, e, left) THEN Cost(p, e) ELSE 0

\* the base speed joins the budget while nothing of the turn is used
TurnBudget(e) == entry[e].budget + (IF entry[e].used = 0 THEN Speed ELSE 0)
Remaining(budget, used) == IF budget > used THEN budget - used ELSE 0

\* who may strike when e leaves their reach between p[i] and p[i+1]
Reactors(e) == {o \in Active \cap OnBoard : Hostile(e, o) /\ entry[o].reaction}
LeftAt(p, e, i) == {o \in Reactors(e) : Reaches(p[i], token[o].at) /\ ~Reaches(p[i+1], token[o].at)}
Crossings(p, e, asked) == IF entry[e].disengaged THEN {} ELSE {i \in 1..(Len(p)-1) : LeftAt(p, e, i) \ asked # {}}
Least(S) == CHOOSE i \in S : \A j \in S : i <= j

InMovement(e) == Open /\ Running /\ combat.mode = "tactical" /\ e \in Active /\ e \in OnBoard
\* a Character is moved by its player or the DM, a Monster by the DM
Player(e) == e \in Characters \cap session.seated

-----------------------------------------------------------------------------
(* Planning.  A call remembers the revisions it saw and what it will write:*)
(* the cells walked, the bookkeeping, a pause and the windows to open.     *)

MoveCall(kind, e, dm, pendingRev, walk, used, budget, reactors, pending) ==
    [kind |-> kind, session |-> session.no, entry |-> e, dm |-> dm, tokenRev |-> token[e].rev,
     boardRev |-> board.rev, pendingRev |-> pendingRev, walk |-> walk, used |-> used, budget |-> budget,
     reactors |-> reactors, pending |-> pending]

PlaceCall(kind, e, x) ==
    [kind |-> kind, session |-> session.no, entry |-> e, tokenRev |-> token[e].rev, walk |-> <<x>>]

\* an opportunity attack asked of an owner by the pause of one board revision
WindowIds == Entries \X Nat
Pauses ==
    [path : Paths, index : Nat \ {0}, feet : Nat, revision : Nat, pause : Nat,
     windows : SUBSET WindowIds, yes : SUBSET WindowIds, asked : SUBSET Entries]
ASSUME PausesAssumption == None \notin Pauses

Pause(path, index, feet, asked, reactors) ==
    [path |-> path, index |-> index, feet |-> feet, revision |-> 0, pause |-> board.rev,
     windows |-> {<<o, board.rev>> : o \in reactors}, yes |-> {}, asked |-> asked \cup reactors]

Rest(p, from) == SubSeq(p, from, Len(p))

\* the part of path p that ends where the movement stops: at its end, or on the
\* last cell inside the reach of reactors not asked before
Plan(kind, e, dm, pendingRev, p, from, budget, used, asked) ==
    LET rest == Rest(p, from)
        left == Remaining(budget, used)
        stops == Crossings(rest, e, asked)
        walk == IF stops = {} THEN rest ELSE SubSeq(rest, 1, Least(stops))
        feet == used + Feet(walk, e, left)
        reactors == IF stops = {} THEN {} ELSE LeftAt(rest, e, Least(stops)) \ asked
    IN MoveCall(kind, e, dm, pendingRev, walk, feet, budget, reactors,
                IF stops = {} THEN None ELSE Pause(p, from + Least(stops) - 1, feet, asked, reactors))

ReadConfirm(e, p) ==
    /\ InMovement(e)
    /\ combat.turn = e
    /\ LET budget == TurnBudget(e)
           used == entry[e].used IN
       /\ LegalPath(p, e, Remaining(budget, used))
       /\ Begin(Plan("confirm", e, TRUE, 0, p, 1, budget, used, {}))
    /\ UNCHANGED <<turnVars, entry, boardVars>>

AnswersIgnored(row) == TRUE
Answered(row) == row.pending.windows = {}

\* the rest of a paused path; nothing is left of it when the mover is down,
\* held, or not where it paused
ReadResume(e, dm, able) ==
    /\ InMovement(e) /\ (dm \/ Player(e))
    /\ entry[e].pending # None
    /\ Answered(entry[e])
    /\ entry[e].pending.yes # {} => dm
    /\ combat.turn = e
    /\ LET row == entry[e]
           was == row.pending
           budget == TurnBudget(e) IN
       IF able /\ token[e].at = was.path[was.index]
       THEN /\ LegalPath(Rest(was.path, was.index), e, Remaining(budget, was.feet))
            /\ Begin(Plan("resume", e, dm, was.revision, was.path, was.index, budget, was.feet, was.asked))
       ELSE Begin(MoveCall("stop", e, dm, was.revision, <<token[e].at>>, row.used, row.budget, {}, None))
    /\ UNCHANGED <<turnVars, entry, boardVars>>

-----------------------------------------------------------------------------
(* Committing. *)

Unchecked(c) == TRUE
SameToken(c) == token[c.entry].at # Off /\ token[c.entry].rev = c.tokenRev
SameBoard(c) == board.rev = c.boardRev
SamePause(c) ==
    c.kind \in {"resume", "stop"} =>
        entry[c.entry].pending # None /\ entry[c.entry].pending.revision = c.pendingRev

OpportunityWindow(c) == [kind |-> "opportunity_attack", mover |-> c.entry, pause |-> c.pending.pause, eligible |-> {}]

\* write_reaction_window, for every reactor of the pause or for none
CanAsk(S) == S = {} \/ (Running /\ \A o \in S : o \in Active /\ entry[o].window = None)

BumpBoard ==
    /\ board.rev < MaxBoard
    /\ board' = [board EXCEPT !.rev = @ + 1]
    /\ unseen' = {}

\* commit_movement_with_event, pause_movement_with_windows, resume_movement
CommitMove(c) ==
    /\ c.kind \in {"confirm", "resume", "stop"} /\ Sent(c)
    /\ SamePause(c) /\ SameToken(c) /\ SameBoard(c)
    /\ CanAsk(c.reactors)
    /\ BumpBoard
    /\ token' = IF c.kind = "stop" THEN token
                ELSE [token EXCEPT ![c.entry] = [at |-> c.walk[Len(c.walk)], rev |-> @.rev + 1]]
    /\ LET keeps == c.kind = "confirm" /\ c.pending = None
           moved == [entry EXCEPT ![c.entry].used = c.used, ![c.entry].budget = c.budget,
                                  ![c.entry].pending = IF keeps THEN @ ELSE c.pending] IN
       entry' = [e \in Entries |-> IF e \in c.reactors THEN [moved[e] EXCEPT !.window = OpportunityWindow(c)] ELSE moved[e]]
    /\ Finish(c)
    /\ UNCHANGED <<turnVars, accepted>>

\* the DM drops a paused movement; the windows it opened stay open
OnlyWhenAnswered(e) == InMovement(e) /\ entry[e].pending # None /\ Answered(entry[e])
CanCancel(e) == InMovement(e) /\ entry[e].pending # None

CancelPause(e) ==
    /\ CanCancel(e)
    /\ entry' = [entry EXCEPT ![e].pending = None]
    /\ BumpBoard
    /\ UNCHANGED <<turnVars, token, calls, accepted>>

-----------------------------------------------------------------------------
(* Placing and correcting tokens, the door. *)

\* the cell is checked before the transaction; mid-combat a token that is on
\* the board may only be corrected, by the DM
ReadPlace(e, x) ==
    /\ Open /\ Fighting /\ combat.mode = "tactical" /\ e \in Active
    /\ Running => e \notin OnBoard
    /\ On(x, e) = {}
    /\ Begin(PlaceCall("place", e, x))
    /\ UNCHANGED <<turnVars, entry, boardVars>>

\* upsert_position_with_event: no revision is compared, and the board's stays
CommitPlace(c) ==
    /\ c.kind = "place" /\ Sent(c) /\ token[c.entry].rev < MaxBoard
    /\ token' = [token EXCEPT ![c.entry] = [at |-> c.walk[1], rev |-> @.rev + 1]]
    /\ unseen' = unseen \cup {c.entry}
    /\ Finish(c)
    /\ UNCHANGED <<turnVars, entry, board, accepted>>

ReadReposition(e, x) ==
    /\ InMovement(e)
    /\ On(x, e) = {}
    /\ Begin(PlaceCall("reposition", e, x))
    /\ UNCHANGED <<turnVars, entry, boardVars>>

CommitReposition(c) ==
    /\ c.kind = "reposition" /\ Sent(c)
    /\ SameToken(c)
    /\ token' = [token EXCEPT ![c.entry] = [at |-> c.walk[1], rev |-> @.rev + 1]]
    /\ BumpBoard
    /\ Finish(c)
    /\ UNCHANGED <<turnVars, entry, accepted>>

SetDoor(state) ==
    /\ Open /\ Fighting /\ combat.mode = "tactical" /\ board.rev < MaxBoard
    /\ board' = [rev |-> board.rev + 1, door |-> state]
    /\ unseen' = {}
    /\ UNCHANGED <<turnVars, entry, token, calls, accepted>>

-----------------------------------------------------------------------------
(* Reaction windows. *)

\* the DM opens a window by hand: set_window refuses where one is pending
OpenWindow(e, eligible) ==
    /\ Open /\ Running /\ e \in Active /\ e \in eligible
    /\ entry[e].window = None
    /\ entry' = [entry EXCEPT ![e].window = [kind |-> "other", mover |-> None, pause |-> 0, eligible |-> eligible]]
    /\ UNCHANGED <<turnVars, calls, boardVars>>

\* the older call writes over whatever is pending; its own windows carry no
\* identity, and nobody can answer one
SetWindow(e, open) ==
    /\ Open /\ Fighting /\ e \in Active
    /\ entry' = [entry EXCEPT ![e].window =
                    IF open THEN [kind |-> "manual", mover |-> None, pause |-> 0, eligible |-> {}] ELSE None]
    /\ UNCHANGED <<turnVars, calls, boardVars>>

MayAnswer(window, owner, e) == IF window.kind = "opportunity_attack" THEN e = owner ELSE e \in window.eligible

\* the mover's pause once one of its windows is answered
Informed(pause, id, accept) ==
    [pause EXCEPT !.windows = @ \ {id}, !.yes = IF accept THEN @ \cup {id} ELSE @, !.revision = @ + 1]

\* resolve_window: the actor's reaction, the owner's window, and what the
\* mover of an opportunity attack waits for
AnswerWindow(owner, e, accept) ==
    /\ Open /\ Running /\ owner \in Active /\ e \in Active
    /\ entry[owner].window # None
    /\ LET window == entry[owner].window
           id == <<owner, window.pause>>
           waits == /\ window.kind = "opportunity_attack"
                    /\ entry[window.mover].pending # None
                    /\ id \in entry[window.mover].pending.windows
           answered == [entry EXCEPT ![owner].window = None, ![e].reaction = @ /\ ~accept] IN
       /\ MayAnswer(window, owner, e)
       /\ accept => entry[e].reaction
       /\ entry' = IF ~waits THEN answered
                   ELSE [answered EXCEPT ![window.mover].pending = Informed(entry[window.mover].pending, id, accept)]
       /\ accepted' = IF accept /\ window.kind = "opportunity_attack" THEN accepted \cup {id} ELSE accepted
    /\ UNCHANGED <<turnVars, calls, board, token, unseen>>

MovesNext ==
    \/ \E e \in Active :
          \/ \E p \in Paths : ReadConfirm(e, p)
          \/ \E dm, able \in BOOLEAN : ReadResume(e, dm, able)
          \/ CancelPause(e)
          \/ \E x \in Cells : ReadPlace(e, x) \/ ReadReposition(e, x)
          \/ \E other \in Active : OpenWindow(e, {e, other})
          \/ \E open \in BOOLEAN : SetWindow(e, open)
          \/ \E owner \in Active, accept \in BOOLEAN : AnswerWindow(owner, e, accept)
    \/ \E c \in calls : CommitMove(c) \/ CommitPlace(c) \/ CommitReposition(c)
    \/ \E state \in {"open", "closed"} : SetDoor(state)
=============================================================================
