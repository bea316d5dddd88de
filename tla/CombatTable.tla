----------------------------- MODULE CombatTable -----------------------------
(***************************************************************************)
(* One Combat as a whole, and what makes it correct.                       *)
(***************************************************************************)
EXTENDS CombatMoves, CombatActions

Starting ==
    \E mode \in {"quick", "tactical"}, monsters \in SUBSET Monsters :
       \E place \in [monsters -> Cells] : StartCombat(mode, monsters, place)

\* turns and tokens leave hit points, spells and the action rows alone
Bodies ==
    /\ UNCHANGED healthVars
    /\ rows' = IF combat' = combat THEN rows ELSE Unpaid

Next ==
    \/ (Starting \/ OrderNext \/ TurnsNext \/ MovesNext) /\ Bodies
    \/ HealthNext /\ UNCHANGED rows
    \/ ActionsNext

Spec == StateInit /\ HealthInit /\ rows = {} /\ [][Next]_<<vars, healthVars, rows>>

-----------------------------------------------------------------------------
(* The turn order. *)

\* While a Combat runs, the turn belongs to an active combatant of the order:
\* nobody can leave in a way that leaves it with a ghost.  The combatants of
\* the order stand at different places, and nobody stands behind a lower
\* initiative total - however the order was corrected, and whoever joined, left
\* or rolled late.
TurnsFollowInitiative ==
    Running =>
        /\ combat.turn \in Ordered
        /\ \A a, b \in Ordered :
              /\ entry[a].total # None
              /\ a # b => entry[a].order # entry[b].order
              /\ entry[a].order < entry[b].order => entry[a].total >= entry[b].total

\* A round is one pass: until it ends nobody has two turns, and it ends only
\* when every active combatant of the order has had one or was moved in front
\* of the turn by a correction.
RoundIsAPass ==
    [][(Running /\ Running' /\ combat'.turn # combat.turn) =>
          IF combat'.round = combat.round THEN combat'.turn \notin acted
          ELSE combat'.round = combat.round + 1 /\ Ordered \subseteq acted]_vars

\* An initiative total is the result of the formal roll the entry is bound to
\* and nothing else: a request is resolved exactly when its entries have a
\* total, and all of them have its.
TotalIsItsRoll ==
    \A e \in Entries : \A r \in requests :
        (entry[e].request # {} /\ r.unit = entry[e].request) =>
            /\ (r.status = "resolved") <=> (entry[e].total # None)
            /\ entry[e].total = r.total

\* The table is never stuck: in a running Combat of an open Session the DM can
\* end the turn, or drop the paused movement that holds it.
DMCanGoOn == (Open /\ Running) => CanAdvance \/ CanCancel(combat.turn)

-----------------------------------------------------------------------------
(* Movement. *)

Moves(c) == c.kind \in {"confirm", "resume"} /\ CommitMove(c)

\* What a movement was planned against, before its transaction, is still so when
\* it is committed: who has not left walks from the cell its token stands on, no
\* door on its way has closed, no hostile token has come in its way, and where it ends nobody
\* else has gone meanwhile.  Left out are tokens placed since the board's revision
\* last changed - placing does not change it - and the end of a walk that pauses.
MoveFitsBoard ==
    [][\A c \in calls : Moves(c) =>
          /\ c.entry \in Active => token[c.entry].at = c.walk[1]
          /\ \A i \in 2..Len(c.walk) :
                /\ Crosses(c.walk[i-1], c.walk[i]) => board.door = "open"
                /\ \A o \in On(c.walk[i], c.entry) \ unseen : ~Hostile(c.entry, o)
          /\ c.pending = None => On(c.walk[Len(c.walk)], c.entry) \subseteq unseen]_vars

\* Nobody walks on before the answers are in: when a paused movement resumes,
\* no reactor of that pause still holds its window, and if one of them struck
\* it is the DM who resumes.
ResumeWaitsForAnswers ==
    [][\A c \in calls : (c.kind = "resume" /\ CommitMove(c)) =>
          LET was == entry[c.entry].pending IN
          \A o \in was.asked :
             /\ entry[o].window = None \/ entry[o].window.pause # was.pause
             /\ <<o, was.pause>> \in accepted => c.dm]_vars

\* "The base walk speed is granted on the first formal movement of the turn":
\* a budget is the walk speed, and once more for the action spent on a Dash.
BaseSpeedOncePerTurn ==
    \A e \in Entries : entry[e].budget <= Speed + (IF entry[e].action THEN 0 ELSE Speed)

-----------------------------------------------------------------------------
(* Actions, spells and hit points. *)

\* One action a turn, however it was come by: what a combatant has paid for out
\* of its present turn is one Attack action, with no more attacks than it has,
\* or one other action - also when the DM ruled on an attack or an area only
\* after something else was done.
Paid(e, kinds) == {r \in rows : r.by = e /\ r.paid /\ r.kind \in kinds}

OneActionPerTurn ==
    \A e \in Active :
        LET strikes == Paid(e, {"attack", "special"})
            others == Paid(e, {"area", "escape"}) IN
        /\ Cardinality(strikes) <= entry[e].attacks /\ entry[e].attacks <= AttacksAllowed
        /\ Cardinality(others) + (IF entry[e].attacks > 0 THEN 1 ELSE 0) <= 1
        /\ strikes \cup others # {} => ~entry[e].action

\* No effect outlives the concentration that keeps it: every effect on an
\* active combatant belongs to a casting that somebody's pointer names, whether
\* the last one was replaced, dropped or lost to a save.  The one exception is a
\* Character State written by hand: what it takes a holder from, or writes on a
\* Character that has not joined, stays until it goes by itself.
EffectsAreHeld == \A e \in Active : \A n \in effects[e] : Held(n) \/ n \in strays[e]

\* A Character with no hit points is Unconscious or dead, and death saves are
\* on record only while it has none: whatever raises it starts them afresh.
\* A write of the Character State by hand is the exception, until damage, healing
\* or a natural 20 next takes the Character across zero: then it holds again.
DeathSavesOnlyWhenDown ==
    \A c \in Characters \ corrected :
        IF life[c].up THEN Fresh(life[c]) ELSE life[c].out \/ life[c].end = "dead"

\* "Healing above 0 removes Unconscious but keeps Prone."
HealingWakes == \A c \in Characters \ corrected : life[c].up => ~life[c].out

\* "Damage -> CON save request": a Character brought down while it concentrates,
\* and not by hand, is asked for a save, whatever it was that hit it.
DamageAsksSave ==
    [][\A c \in Characters :
          (life[c].up /\ ~life'[c].up /\ c \notin corrected' /\ concentration'[c] # None) =>
              \E k \in checks' \ checks : k.of = c]_<<vars, healthVars, rows>>
=============================================================================
