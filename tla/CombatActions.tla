----------------------------- MODULE CombatActions -----------------------------
(***************************************************************************)
(* The actions of a Combat that take more than one step: an attack and its *)
(* roll, a question the DM must answer first (is the target in range, who  *)
(* stands in the area, does leaving provoke an attack), the two opposed    *)
(* rolls of a special attack, and death saves.  Each is a row the later    *)
(* step finds again, in the Session that asked, and validates anew.        *)
(***************************************************************************)
EXTENDS CombatHealth

CONSTANT MaxRows    \* bound of the model

VARIABLE rows       \* the action rows; paid (history): out of its combatant's present turn

Asked(r) == r \in rows /\ InSession(r) /\ r.status = "dm_adjudication_required"
Waiting(r) == r \in rows /\ InSession(r) /\ r.status = "waiting_for_roll"

Post(kind, by, at, status, due, paid) ==
    /\ Cardinality(rows) < MaxRows
    /\ rows' = rows \cup {[no |-> Cardinality(rows) + 1, kind |-> kind, by |-> by, at |-> at, session |-> session.no,
                           status |-> status, due |-> due, paid |-> paid]}
Turn(r, row) == rows' = (rows \ {r}) \cup {row}
Resolved(r) == [r EXCEPT !.status = "resolved", !.due = 0]

\* a new turn: what was paid for belongs to the last one
Unpaid == {[r EXCEPT !.paid = FALSE] : r \in rows}

-----------------------------------------------------------------------------
(* Attacks, grapples and shoves.  The budget is consumed when the roll is  *)
(* opened: at once, or when the DM has confirmed the range or the reach.   *)

DeclareAttack(e, t) ==
    /\ t \in Active
    /\ UseAttack(e)
    /\ Post("attack", e, {t}, "waiting_for_roll", 1, TRUE)
    /\ UNCHANGED healthVars

AskReach(kind, e, t) ==
    /\ CanAct(e) /\ t \in Active
    /\ Post(kind, e, {t}, "dm_adjudication_required", 0, FALSE)
    /\ UNCHANGED <<healthVars, entry>> /\ Untouched

\* the budget as it stood when the DM was asked
BudgetAsAsked(e) ==
    /\ entry' = [entry EXCEPT ![e].action = FALSE, ![e].attacks = @ + 1]
    /\ Untouched
BudgetNow(e) == UseAttack(e)

RuleReach(r, inReach) ==
    /\ Asked(r) /\ r.kind \in {"attack", "special"}
    /\ CanAct(r.by) /\ r.at \subseteq Active
    /\ IF inReach
       THEN /\ BudgetNow(r.by)
            /\ Turn(r, [r EXCEPT !.status = "waiting_for_roll", !.due = IF r.kind = "attack" THEN 1 ELSE 2, !.paid = TRUE])
       ELSE Turn(r, Resolved(r)) /\ UNCHANGED entry /\ Untouched
    /\ UNCHANGED healthVars

\* the damage of a hit ("none" is a miss), and nothing asked of who concentrates
CompleteAttack(r, wound, critical) ==
    /\ Waiting(r) /\ r.kind = "attack" /\ Running
    /\ r.by \in Active /\ r.at \subseteq Active
    /\ life' = [c \in Characters |-> IF c \in r.at THEN Wounded(life[c], wound, critical) ELSE life[c]]
    /\ Turn(r, Resolved(r))
    /\ UNCHANGED <<concentration, effects, checks, casts, entry>> /\ HandsOff /\ Untouched

\* escaping a grapple needs no ruling and costs the action
RequestEscape(e, t) ==
    /\ CanAct(e) /\ t \in Active /\ entry[e].action
    /\ entry' = [entry EXCEPT ![e].action = FALSE]
    /\ Post("escape", e, {t}, "waiting_for_roll", 2, TRUE)
    /\ UNCHANGED healthVars /\ Untouched

\* the last of the two rolls resolves; neither asks whether the Combat still runs
CompleteOpposed(r) ==
    /\ Waiting(r) /\ r.kind \in {"special", "escape"} /\ r.at \subseteq Active
    /\ Turn(r, IF r.due = 1 THEN Resolved(r) ELSE [r EXCEPT !.due = @ - 1])
    /\ UNCHANGED <<healthVars, entry>> /\ Untouched

-----------------------------------------------------------------------------
(* Spells over an area: proposed by the caster, confirmed by the DM.       *)

ProposeArea(e, targets) ==
    /\ CanAct(e) /\ e \in Characters
    /\ targets # {} /\ targets \subseteq Active
    /\ Post("area", e, targets, "dm_adjudication_required", 0, FALSE)
    /\ UNCHANGED <<healthVars, entry>> /\ Untouched

\* wound: what the damage does to each confirmed target; only Characters are
\* asked for a save, and surprise is not looked at again
ResolveArea(r, confirmed, wound) ==
    /\ Asked(r) /\ r.kind = "area"
    /\ Running /\ r.by \in Active /\ combat.turn = r.by /\ entry[r.by].action
    /\ confirmed # {} /\ confirmed \subseteq r.at /\ confirmed \subseteq Active
    /\ entry' = [entry EXCEPT ![r.by].action = FALSE]
    /\ life' = [c \in Characters |-> IF c \in confirmed THEN Wounded(life[c], wound[c], FALSE) ELSE life[c]]
    /\ Turn(r, [Resolved(r) EXCEPT !.paid = TRUE])
    /\ UNCHANGED <<concentration, effects, casts>> /\ HandsOff /\ Untouched
    /\ AskSaves(Holding({c \in confirmed \cap Characters : wound[c] # "none"}))

-----------------------------------------------------------------------------
(* Other rulings, and the reaction an opportunity attack opens.            *)

AskRuling(kind, e, t) ==
    /\ Open /\ Running /\ e \in Active /\ t \in Active
    /\ Post(kind, e, {t}, "dm_adjudication_required", 0, FALSE)
    /\ UNCHANGED <<healthVars, entry>> /\ Untouched

Rule(r, trigger) ==
    /\ Asked(r) /\ r.kind \in {"opportunity_attack", "special_adjudication"} /\ Running
    /\ Turn(r, Resolved(r))
    /\ IF r.kind = "opportunity_attack" /\ trigger
       THEN /\ r.by \in Active /\ entry[r.by].window = None
            /\ entry' = [entry EXCEPT ![r.by].window =
                            [kind |-> "opportunity_attack", mover |-> CHOOSE t \in r.at : TRUE, pause |-> 0, eligible |-> {}]]
       ELSE UNCHANGED entry
    /\ UNCHANGED healthVars /\ Untouched

-----------------------------------------------------------------------------
(* Death saves. *)

Dying(c) == ~life[c].up /\ life[c].end = "open"

RequestDeathSave(c) ==
    /\ Open /\ Running /\ c \in Active \cap Characters /\ combat.turn = c
    /\ Dying(c)
    /\ Post("death_save", c, {c}, "waiting_for_roll", 1, FALSE)
    /\ UNCHANGED <<healthVars, entry>> /\ Untouched

Rolls == {"natural 20", "success", "failure", "natural 1"}

\* resolve_death_save
AfterDeathSave(l, roll) ==
    CASE roll = "natural 20" -> Standing
      [] roll = "natural 1" -> Failed(l, 2)
      [] roll = "failure" -> Failed(l, 1)
      [] OTHER -> IF l.ok = 2 THEN [l EXCEPT !.ok = 0, !.bad = 0, !.end = "stable"] ELSE [l EXCEPT !.ok = @ + 1]

CompleteDeathSave(r, roll) ==
    /\ Waiting(r) /\ r.kind = "death_save"
    /\ Running /\ combat.turn = r.by /\ Dying(r.by)
    /\ life' = [life EXCEPT ![r.by] = AfterDeathSave(@, roll)]
    /\ Turn(r, Resolved(r))
    /\ UNCHANGED <<concentration, effects, checks, casts, entry>> /\ HandsOff /\ Untouched

ActionsNext ==
    \/ \E e, t \in Active :
          \/ DeclareAttack(e, t)
          \/ RequestEscape(e, t)
          \/ \E kind \in {"attack", "special"} : AskReach(kind, e, t)
          \/ \E kind \in {"opportunity_attack", "special_adjudication"} : AskRuling(kind, e, t)
    \/ \E e \in Active, targets \in SUBSET Active : ProposeArea(e, targets)
    \/ \E c \in Characters : RequestDeathSave(c)
    \/ \E r \in rows :
          \/ \E answer \in BOOLEAN : RuleReach(r, answer) \/ Rule(r, answer)
          \/ \E wound \in Wounds, critical \in BOOLEAN : CompleteAttack(r, wound, critical)
          \/ CompleteOpposed(r)
          \/ \E confirmed \in SUBSET r.at : \E wound \in [confirmed -> Wounds] : ResolveArea(r, confirmed, wound)
          \/ \E roll \in Rolls : CompleteDeathSave(r, roll)
=============================================================================
