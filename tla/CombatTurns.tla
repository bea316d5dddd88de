----------------------------- MODULE CombatTurns -----------------------------
(***************************************************************************)
(* Who fights and in which order: starting a Combat, formal initiative,    *)
(* the turn order and its corrections, turns, the action economy, leaving, *)
(* ending - and the Session around it, which may end in between.           *)
(***************************************************************************)
EXTENDS CombatState

OrderingsOf(S) == {s \in [1..Cardinality(S) -> S] : \A i, j \in DOMAIN s : s[i] = s[j] => i = j}
Listed(s) == {s[i] : i \in DOMAIN s}

-----------------------------------------------------------------------------
(* The Session. *)

EndSession ==
    /\ Open
    /\ session' = [session EXCEPT !.open = FALSE]
    /\ UNCHANGED <<combat, entry, requests, calls, acted, boardVars>>

StartSession(seated) ==
    /\ ~Open /\ session.no < MaxSession
    /\ session' = [no |-> session.no + 1, open |-> TRUE, seated |-> seated]
    /\ UNCHANGED <<combat, entry, requests, calls, acted, boardVars>>

-----------------------------------------------------------------------------
(* Starting, joining. *)

\* a quick Combat, or a tactical one whose map brings Monsters, of which every
\* one is placed in the same transaction
StartCombat(mode, monsters, place) ==
    /\ Open /\ combat.status = "none"
    /\ mode = "quick" => monsters = {}
    /\ DOMAIN place = monsters
    /\ \A m, n \in monsters : place[m] = place[n] => m = n
    /\ combat' = [combat EXCEPT !.mode = mode, !.status = "initiative_pending"]
    /\ entry' = [e \in Entries |-> IF e \in session.seated \cup monsters THEN NewEntry(FALSE) ELSE entry[e]]
    /\ token' = [e \in Entries |-> IF e \in monsters THEN [at |-> place[e], rev |-> 1] ELSE token[e]]
    /\ UNCHANGED <<session, requests, calls, acted, board, unseen, accepted>>

\* a combatant appears once in a Combat, even after leaving it
AddEntry(e, surprised) ==
    /\ Open /\ Fighting
    /\ entry[e].status = "absent"
    /\ e \in Characters => e \in session.seated
    /\ entry' = [entry EXCEPT ![e] = NewEntry(surprised)]
    /\ UNCHANGED <<turnVars, calls, boardVars>>

-----------------------------------------------------------------------------
(* Formal rolls.  Monsters of one group roll once; the request is bound to *)
(* the entries it stands for, and its total is written to all of them.     *)

Units(S) == {{e} : e \in S \ Pack} \cup {g \in {S \cap Pack} : g # {}}

RequestInitiative(S) ==
    /\ Open /\ Fighting /\ S \subseteq Active
    /\ LET unresolved == {e \in S : entry[e].request = {} /\ entry[e].total = None} IN
       /\ unresolved # {}
       /\ combat.mode = "tactical" => unresolved \subseteq OnBoard
       /\ unresolved \cap Characters \subseteq session.seated
       /\ requests' = requests \cup
             {[unit |-> u, session |-> session.no, status |-> "pending", total |-> None] : u \in Units(unresolved)}
       /\ entry' = [e \in Entries |->
             IF e \in unresolved THEN [entry[e] EXCEPT !.request = CHOOSE u \in Units(unresolved) : e \in u] ELSE entry[e]]
    /\ UNCHANGED <<session, combat, acted, calls, boardVars>>

\* get_request finds the requests of this Session only
InSession(r) == Open /\ r.session = session.no
Bound(r) == {e \in Entries : entry[e].request = r.unit}

CompleteInitiative(r, total) ==
    /\ InSession(r) /\ r.unit # {} /\ r.status = "pending"
    /\ Bound(r) \cap Active # {}
    /\ requests' = (requests \ {r}) \cup {[r EXCEPT !.status = "resolved", !.total = total]}
    /\ entry' = [e \in Entries |-> IF e \in Bound(r) THEN [entry[e] EXCEPT !.total = total] ELSE entry[e]]
    /\ UNCHANGED <<session, combat, acted, calls, boardVars>>

\* a check asked of a Seat: a request of the same table, with no entry
RequestCheck ==
    /\ Open
    /\ ~\E r \in requests : r.unit = {}
    /\ requests' = requests \cup {[unit |-> {}, session |-> session.no, status |-> "pending", total |-> None]}
    /\ UNCHANGED <<session, combat, entry, acted, calls, boardVars>>

\* the Table's own roll service must not see the Combat's rows
EveryRowSeen(r) == TRUE
SeenByChecks(r) == r.unit = {}

CompleteCheck(r, total) ==
    /\ InSession(r) /\ SeenByChecks(r) /\ r.status = "pending"
    /\ requests' = (requests \ {r}) \cup {[r EXCEPT !.status = "resolved", !.total = total]}
    /\ UNCHANGED <<session, combat, entry, acted, calls, boardVars>>

-----------------------------------------------------------------------------
(* The order.  Descending totals are checked before the transaction, the   *)
(* membership of the order again inside it.                                *)

AllRolled(S) == \A e \in S : entry[e].total # None
OnlyFirstHighest(s) == \A i \in DOMAIN s : entry[s[1]].total >= entry[s[i]].total
Descending(s) == \A i, j \in DOMAIN s : i < j => entry[s[i]].total >= entry[s[j]].total
Whole(s) == Active # {} /\ Listed(s) = Active /\ Len(s) = Cardinality(Active) /\ AllRolled(Active)

ReadOrder(kind, s) ==
    /\ Open
    /\ IF kind = "finalize" THEN combat.status = "initiative_pending" ELSE Fighting
    /\ combat.mode = "tactical" => Listed(s) \subseteq OnBoard
    /\ Whole(s) /\ Descending(s)
    /\ Begin([kind |-> kind, session |-> session.no, seq |-> s])
    /\ UNCHANGED <<turnVars, entry, boardVars>>

PlaceInOrder(row, s, e) == [row EXCEPT !.order = CHOOSE i \in DOMAIN s : s[i] = e]

\* resolve_initiative_order
CommitFinalize(c) ==
    /\ c.kind = "finalize" /\ Sent(c)
    /\ combat.status = "initiative_pending" /\ Whole(c.seq)
    /\ entry' = [e \in Entries |-> IF e \in Active THEN Refreshed(PlaceInOrder(entry[e], c.seq, e)) ELSE entry[e]]
    /\ combat' = [combat EXCEPT !.status = "running", !.round = 1, !.turn = c.seq[1]]
    /\ acted' = {c.seq[1]}
    /\ Finish(c)
    /\ UNCHANGED <<session, requests, boardVars>>

\* reorder_running: the turn stays where it is; entries moved in front of it
\* have been passed over for this round
CommitReorder(c) ==
    /\ c.kind = "reorder" /\ Sent(c)
    /\ Running /\ combat.turn # None /\ Whole(c.seq) /\ combat.turn \in Active
    /\ entry' = [e \in Entries |-> IF e \in Active THEN PlaceInOrder(entry[e], c.seq, e) ELSE entry[e]]
    /\ acted' = {e \in Active : entry'[e].order <= entry'[combat.turn].order}
    /\ Finish(c)
    /\ UNCHANGED <<session, combat, requests, boardVars>>

-----------------------------------------------------------------------------
(* Turns and actions. *)

\* the windows the mover of this turn still waits for
Unanswered(row) == IF row.pending = None THEN {} ELSE row.pending.windows

CanAdvance == Open /\ Running /\ combat.turn \in Ordered /\ Unanswered(entry[combat.turn]) = {}

RoundOfTheLast(next) == IF combat.turn = First(Ordered) THEN combat.round + 1 ELSE combat.round
RoundAfter(next) == IF next = First(Ordered) THEN combat.round + 1 ELSE combat.round

AdvanceTurn ==
    /\ CanAdvance
    /\ LET now == combat.turn
           next == NextInOrder(now)
           \* surprise ends with the first turn, and the reaction comes back at once
           awake == IF entry[now].surprised
                    THEN [entry EXCEPT ![now].surprised = FALSE, ![now].reaction = TRUE] ELSE entry IN
       /\ RoundAfter(next) <= MaxRound
       /\ entry' = [awake EXCEPT ![next] = Refreshed(awake[next])]
       /\ combat' = [combat EXCEPT !.turn = next, !.round = RoundAfter(next)]
       /\ acted' = IF RoundAfter(next) = combat.round THEN acted \cup {next} ELSE {next}
    /\ UNCHANGED <<session, requests, calls, boardVars>>

\* one more attack of an Attack action needs no second action
UseAttack(e) ==
    /\ Open /\ Running /\ e \in Active
    /\ combat.turn = e /\ ~entry[e].surprised
    /\ entry[e].attacks = 0 => entry[e].action
    /\ entry[e].attacks < AttacksAllowed
    /\ entry' = [entry EXCEPT ![e].attacks = @ + 1, ![e].action = @ /\ entry[e].attacks > 0]
    /\ UNCHANGED <<turnVars, calls, boardVars>>

UseAction(e, kind) ==
    /\ Open /\ Running /\ e \in Active
    /\ combat.turn = e /\ ~entry[e].surprised /\ entry[e].action
    /\ entry' = [entry EXCEPT ![e].action = FALSE,
                              ![e].disengaged = @ \/ kind = "disengage",
                              ![e].budget = IF kind = "dash" /\ combat.mode = "tactical" THEN @ + Speed ELSE @]
    /\ UNCHANGED <<turnVars, calls, boardVars>>

UseBonus(e) ==
    /\ Open /\ Running /\ e \in Active
    /\ combat.turn = e /\ ~entry[e].surprised /\ entry[e].bonus
    /\ entry' = [entry EXCEPT ![e].bonus = FALSE]
    /\ UNCHANGED <<turnVars, calls, boardVars>>

\* a freeform reaction spends the window without answering it: a mover that
\* waits for it is not told
UseReaction(e) ==
    /\ Open /\ Running /\ e \in Active
    /\ entry[e].reaction /\ entry[e].window # None
    /\ entry' = [entry EXCEPT ![e].reaction = FALSE, ![e].window = None]
    /\ UNCHANGED <<turnVars, calls, boardVars>>

-----------------------------------------------------------------------------
(* Leaving and ending. *)

Outcomes(e) == {"withdrawn", "removed"} \cup (IF e \in Monsters THEN {"dead", "unconscious", "surrendered", "fled"} ELSE {})

HasTheTurn(e) == Running /\ combat.turn = e

\* withdrawn and removed combatants leave the board, the others stay where they fell
SetEntryStatus(e, status) ==
    /\ Open /\ Fighting /\ e \in Active
    /\ ~HasTheTurn(e)
    /\ entry' = [entry EXCEPT ![e].status = status, ![e].window = None, ![e].disengaged = FALSE,
                              ![e].used = 0, ![e].budget = 0, ![e].pending = None]
    /\ token' = IF status \in {"withdrawn", "removed"} THEN [token EXCEPT ![e] = NoToken] ELSE token
    /\ UNCHANGED <<turnVars, calls, board, unseen, accepted>>

\* end_combat: the board and the statuses of the entries stay
EndCombat ==
    /\ Open /\ Fighting
    /\ combat' = [combat EXCEPT !.status = "ended", !.round = 0, !.turn = None]
    /\ entry' = [e \in Entries |->
          [Refreshed(entry[e]) EXCEPT !.request = {}, !.total = None, !.order = None,
                                      !.surprised = FALSE, !.reaction = TRUE]]
    /\ acted' = {}
    /\ UNCHANGED <<session, requests, calls, boardVars>>

OrderNext ==
    \/ EndSession
    \/ \E seated \in SUBSET Characters : StartSession(seated)
    \/ \E s \in OrderingsOf(Active), kind \in {"finalize", "reorder"} : ReadOrder(kind, s)
    \/ \E c \in calls : CommitFinalize(c) \/ CommitReorder(c)
    \/ \E S \in SUBSET Active : RequestInitiative(S)
    \/ \E r \in requests, t \in Totals : CompleteInitiative(r, t) \/ CompleteCheck(r, t)
    \/ RequestCheck

TurnsNext ==
    \/ AdvanceTurn \/ EndCombat
    \/ \E e \in Entries :
          \/ UseAttack(e) \/ UseBonus(e) \/ UseReaction(e)
          \/ \E kind \in {"dash", "disengage"} : UseAction(e, kind)
          \/ \E surprised \in BOOLEAN : AddEntry(e, surprised)
          \/ \E status \in Outcomes(e) : SetEntryStatus(e, status)
=============================================================================
