----------------------------- MODULE CombatState -----------------------------
(***************************************************************************)
(* The rows one Combat of a Campaign is made of: the Combat, its entries,  *)
(* the formal rolls asked for it, its board and the tokens on it - and the *)
(* calls that have read these rows and not yet written.  Every write goes  *)
(* through the event repository: one transaction that holds the Session    *)
(* row, refuses an ended Session and rolls back on any refusal, so a       *)
(* handler that checks again inside its transaction is one step here.  A   *)
(* handler that decides from rows it read BEFORE its transaction leaves a  *)
(* record in calls, and the decision is written in a later step.           *)
(***************************************************************************)
EXTENDS Integers, FiniteSets, Sequences

CONSTANTS
    Characters, Monsters,   \* who may fight; a Monster is hostile, a Character is not
    Pack,                   \* the Monsters added under one initiative group key
    Totals,                 \* the totals an initiative roll can have
    AttacksAllowed,         \* attacks of one Attack action
    Cells,                  \* the anchors of a board one cell high
    Door,                   \* the door between the cells Door and Door + 1
    Paths,                  \* the paths a client may ask for
    Speed,                  \* the walk speed of everyone, in cells
    None,
    MaxRound, MaxSession, MaxBoard, MaxCalls    \* bounds of the model

Entries == Characters \cup Monsters
Off == None     \* the cell of a token that is not on the board

ASSUME CombatAssumption ==
    /\ Characters \cap Monsters = {} /\ Pack \subseteq Monsters
    /\ IsFiniteSet(Characters \cup Monsters)
    /\ Cells \subseteq Int /\ Door \in Int /\ Speed \in Nat \ {0} /\ AttacksAllowed \in Nat \ {0}
    /\ Totals \subseteq Int /\ None \notin Int \cup Characters \cup Monsters
    /\ \A p \in Paths : p \in Seq(Cells) /\ Len(p) >= 2

VARIABLES
    session,    \* the Session being played: its number, whether it is open, who is seated
    combat,     \* mode, status, round, and the entry whose turn it is
    entry,      \* the row of each combatant
    requests,   \* formal roll requests: for whom, in which Session, with what total
    board,      \* the board's revision and the state of its door
    token,      \* where each combatant's token is, and the revision of that row
    calls,      \* the calls between their reads and their transaction
    acted,      \* history: who has had a turn this round
    unseen,     \* history: tokens placed since the board's revision last changed
    accepted    \* history: the opportunity attacks accepted, by owner and pause

vars == <<session, combat, entry, requests, board, token, calls, acted, unseen, accepted>>
turnVars == <<session, combat, requests, acted>>
boardVars == <<board, token, unseen, accepted>>

\* a row as _insert_entry writes it
NewEntry(surprised) ==
    [status |-> "active", order |-> None, request |-> {}, total |-> None, surprised |-> surprised,
     action |-> TRUE, bonus |-> TRUE, reaction |-> ~surprised, attacks |-> 0, window |-> None,
     disengaged |-> FALSE, used |-> 0, budget |-> 0, pending |-> None]

NoToken == [at |-> Off, rev |-> 0]
NoEntry == [NewEntry(FALSE) EXCEPT !.status = "absent"]

\* what every turn start gives back
Refreshed(row) ==
    [row EXCEPT !.action = TRUE, !.bonus = TRUE, !.reaction = ~row.surprised, !.attacks = 0,
                !.window = None, !.disengaged = FALSE, !.used = 0, !.budget = 0, !.pending = None]

Active == {e \in Entries : entry[e].status = "active"}
Ordered == {e \in Active : entry[e].order # None}
OnBoard == {e \in Entries : token[e].at # Off}
Hostile(a, b) == (a \in Monsters) # (b \in Monsters)

Open == session.open
Fighting == combat.status \in {"initiative_pending", "running"}
Running == combat.status = "running"

\* the place of e in the turn order
After(e) == {o \in Ordered : entry[o].order > entry[e].order}
First(S) == CHOOSE e \in S : \A o \in S : entry[e].order <= entry[o].order
NextInOrder(e) == IF After(e) = {} THEN First(Ordered) ELSE First(After(e))

\* a call remembers the Session it belongs to; its transaction refuses another
Sent(c) == Open /\ c.session = session.no
Begin(c) == Cardinality(calls) < MaxCalls /\ calls' = calls \cup {c}
Finish(c) == calls' = calls \ {c}

StateInit ==
    /\ session = [no |-> 1, open |-> TRUE, seated |-> Characters]
    /\ combat = [mode |-> None, status |-> "none", round |-> 0, turn |-> None]
    /\ entry = [e \in Entries |-> NoEntry]
    /\ requests = {} /\ calls = {}
    /\ board = [rev |-> 1, door |-> "open"]
    /\ token = [e \in Entries |-> NoToken]
    /\ acted = {} /\ unseen = {} /\ accepted = {}
=============================================================================
