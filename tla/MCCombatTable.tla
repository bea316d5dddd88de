---------------------------- MODULE MCCombatTable ----------------------------
(***************************************************************************)
(* A small Combat for TLC, in eight scenes: the turn order of a quick      *)
(* Combat from its start, the setting up of a tactical one, movement in a  *)
(* tactical Combat that already runs, the actions of a turn - and, in a    *)
(* quick Combat that runs, spells, Character States written by hand among  *)
(* them, actions the DM rules on, and a Character between life and death.  *)
(* Two calls are in flight at once only where tokens move.                 *)
(***************************************************************************)
EXTENDS CombatTable

CONSTANTS c1, c2, m1, m2, bless, bane

VARIABLE scene

\* walks away from, towards and past the others, some of which turn back
LinePaths == {<<1, 2>>, <<1, 2, 3>>, <<2, 1, 2>>, <<3, 2, 1>>}

Fixed(e, order) == [NewEntry(FALSE) EXCEPT !.order = order, !.total = 1]
Nobody == requests = {} /\ calls = {} /\ unseen = {} /\ accepted = {}

\* two Characters and a Monster stand on the board, the first has the turn of
\* the last round
MovesInit ==
    /\ scene = "moves"
    /\ session = [no |-> MaxSession, open |-> TRUE, seated |-> Characters]
    /\ combat = [mode |-> "tactical", status |-> "running", round |-> MaxRound, turn |-> c1]
    /\ entry = [e \in Entries |-> CASE e = c1 -> Fixed(e, 1) [] e = m1 -> Fixed(e, 2)
                                    [] e = c2 -> Fixed(e, 3) [] OTHER -> NoEntry]
    /\ Nobody /\ acted = {c1}
    /\ board = [rev |-> 1, door |-> "open"]
    /\ \E x, y \in {1, 2} :
          /\ x # y
          /\ token = [e \in Entries |-> CASE e = c1 -> [at |-> x, rev |-> 1] [] e = m1 -> [at |-> 0, rev |-> 1]
                                          [] e = c2 -> [at |-> y, rev |-> 1] [] OTHER -> NoToken]

\* a Character and a surprised Monster in a running quick Combat
ActionsInit ==
    /\ scene = "actions"
    /\ session = [no |-> MaxSession, open |-> TRUE, seated |-> {c1}]
    /\ combat = [mode |-> "quick", status |-> "running", round |-> 1, turn |-> c1]
    /\ entry = [e \in Entries |-> CASE e = c1 -> Fixed(e, 1) [] e = m1 -> [Fixed(e, 2) EXCEPT !.surprised = TRUE, !.reaction = FALSE]
                                    [] OTHER -> NoEntry]
    /\ Nobody /\ acted = {c1}
    /\ board = [rev |-> 1, door |-> "open"]
    /\ token = [e \in Entries |-> NoToken]

\* nothing has begun, one Character is seated
TurnsInit ==
    /\ scene = "turns"
    /\ session = [no |-> 1, open |-> TRUE, seated |-> {c1}]
    /\ combat = [mode |-> None, status |-> "none", round |-> 0, turn |-> None]
    /\ entry = [e \in Entries |-> NoEntry]
    /\ Nobody /\ acted = {}
    /\ board = [rev |-> 1, door |-> "open"]
    /\ token = [e \in Entries |-> NoToken]

\* a Character and a Monster in the last Session, the Character has the turn
RunningInit ==
    /\ scene \in {"magic", "patches", "rulings", "death"}
    /\ session = [no |-> MaxSession, open |-> TRUE, seated |-> IF scene = "patches" THEN Characters ELSE {c1}]
    /\ combat = [mode |-> "quick", status |-> "running", round |-> 1, turn |-> c1]
    /\ entry = [e \in Entries |-> CASE e = c1 -> Fixed(e, 1) [] e = m1 -> Fixed(e, 2) [] OTHER -> NoEntry]
    /\ Nobody /\ acted = {c1}
    /\ board = [rev |-> 1, door |-> "open"]
    /\ token = [e \in Entries |-> NoToken]

MCInit ==
    /\ \/ StateInit /\ scene = "setup"
       \/ TurnsInit
       \/ MovesInit \/ ActionsInit \/ RunningInit
    /\ HealthInit /\ rows = {}

TurnsScene ==
    \/ StartCombat("quick", {}, <<>>)
    \/ EndSession \/ StartSession({c1})
    \/ \E s \in OrderingsOf(Active), kind \in {"finalize", "reorder"} : calls = {} /\ ReadOrder(kind, s)
    \/ \E c \in calls : CommitFinalize(c) \/ CommitReorder(c)
    \/ RequestInitiative(Active) \/ RequestInitiative({c1})
    \/ \E r \in requests, t \in Totals : CompleteInitiative(r, t)
    \/ AdvanceTurn \/ EndCombat
    \/ \E e \in Monsters : AddEntry(e, FALSE)
    \/ SetEntryStatus(c1, "withdrawn") \/ SetEntryStatus(m1, "dead")

ActionsScene ==
    \/ AdvanceTurn \/ EndCombat
    \/ \E surprised \in BOOLEAN : AddEntry(m2, surprised)
    \/ \E e \in {c1, m1} :
          \/ UseAttack(e) \/ UseBonus(e) \/ UseReaction(e)
          \/ \E kind \in {"dash", "disengage"} : UseAction(e, kind)
          \/ \E status \in Outcomes(e) : SetEntryStatus(e, status)
          \/ \E open \in BOOLEAN : SetWindow(e, open)
          \/ \E accept \in BOOLEAN : AnswerWindow(m1, e, accept)
    \/ OpenWindow(m1, {m1, c1})

SetupScene ==
    \/ \E monsters \in SUBSET {m1} : \E place \in [monsters -> Cells] : StartCombat("tactical", monsters, place)
    \/ RequestInitiative(Active)
    \/ RequestCheck
    \/ \E r \in requests : CompleteInitiative(r, 1) \/ CompleteCheck(r, 1)
    \/ \E s \in OrderingsOf(Active) : calls = {} /\ ReadOrder("finalize", s)
    \/ \E c \in calls : CommitFinalize(c) \/ CommitPlace(c)
    \/ \E e \in Active, x \in {0, 1} : calls = {} /\ token[e].rev < 2 /\ ReadPlace(e, x)
    \/ \E e \in Active : SetEntryStatus(e, "withdrawn")

MovesScene ==
    \/ \E p \in Paths : ReadConfirm(c1, p)
    \/ \E dm, able \in BOOLEAN : ReadResume(c1, dm, able)
    \/ CancelPause(c1)
    \/ ReadReposition(c1, 1) \/ ReadReposition(m1, 3)
    \/ AddEntry(m2, FALSE) \/ ReadPlace(m2, 2)
    \/ \E accept \in BOOLEAN : AnswerWindow(m1, m1, accept)
    \/ \E c \in calls : CommitMove(c) \/ CommitPlace(c) \/ CommitReposition(c)
    \/ SetDoor("closed")
    \/ AdvanceTurn
    \/ UseAction(c1, "dash") \/ UseAction(c1, "disengage") \/ UseReaction(m1)
    \/ SetEntryStatus(m1, "withdrawn")

\* who casts at whom, who is hurt, whose save is rolled - and who leaves
MagicScene ==
    \/ /\ \/ \E e \in {c1, m1}, t \in {c1, m1, None}, spell \in Spells \cup {None}, lands \in BOOLEAN, wound \in {"none", "felled"} :
               Cast(e, t, spell, lands, wound, FALSE)
          \/ ApplyDamage(c1, "hurt", FALSE) \/ ApplyDamage(m1, "hurt", FALSE)
          \/ \E k \in checks, success \in BOOLEAN : JudgeCheck(k, success)
          \/ DropConcentration(c1) \/ DropConcentration(m1)
       /\ UNCHANGED rows
    \/ (AdvanceTurn \/ EndCombat \/ SetEntryStatus(m1, "withdrawn")) /\ Bodies

\* the State written by hand among spells: the DM takes a pointer away, or writes
\* one, a condition comes back from a stale list, and a Character joins with one
PatchScene ==
    \/ /\ \/ \E e \in {c1, m1}, lands \in BOOLEAN : Cast(e, c1, bless, lands, "none", FALSE)
          \/ Cast(c1, m1, bane, TRUE, "hurt", FALSE) \/ Cast(c1, c2, bane, TRUE, "none", FALSE)
          \/ \E k \in checks : JudgeCheck(k, FALSE)
          \/ DropConcentration(c1) \/ DropConcentration(m1)
          \/ TablePatch(c1, TRUE, TRUE, FALSE, None, effects[c1])
          \/ \E n \in 1..casts :
                \/ TablePatch(c1, FALSE, TRUE, FALSE, concentration[c1], effects[c1] \cup {n})
                \/ SheetPatch(c1, TRUE, FALSE, [spell |-> bane, ids |-> {n}], {})
                \/ SheetPatch(c2, TRUE, FALSE, None, {n})
       /\ UNCHANGED rows
    \/ (AdvanceTurn \/ SetEntryStatus(m1, "withdrawn") \/ EndCombat \/ AddEntry(c2, FALSE)) /\ Bodies

\* actions in which a roll or the DM comes between
RulingsScene ==
    \/ \E kind \in {"attack", "special"} : AskReach(kind, c1, m1)
    \/ DeclareAttack(c1, m1) \/ RequestEscape(c1, m1) \/ ProposeArea(c1, {c1, m1})
    \/ AskRuling("opportunity_attack", m1, c1) \/ AskRuling("special_adjudication", c1, c1)
    \/ \E r \in rows :
          \/ \E answer \in BOOLEAN : RuleReach(r, answer) \/ Rule(r, answer)
          \/ CompleteAttack(r, "hurt", FALSE) \/ CompleteOpposed(r)
          \/ \E confirmed \in SUBSET r.at : ResolveArea(r, confirmed, [t \in confirmed |-> "hurt"])
    \/ (AdvanceTurn \/ EndCombat \/ SetEntryStatus(m1, "dead") \/ UseReaction(m1) \/ UseAction(c1, "dash")) /\ Bodies

\* a Character hit, healed and rolling death saves - and raised, felled or woken by hand
DeathScene ==
    \/ /\ \/ \E wound \in Wounds, critical \in BOOLEAN : ApplyDamage(c1, wound, critical)
          \/ ApplyHealing(c1) \/ Cast(c1, c1, None, TRUE, "none", TRUE) \/ Cast(c1, None, bless, TRUE, "none", FALSE)
          \/ \E wound \in Wounds : Cast(m1, c1, None, TRUE, wound, FALSE)
          \/ \E up, out \in BOOLEAN : TablePatch(c1, TRUE, up, out, concentration[c1], effects[c1])
          \/ \E out \in BOOLEAN : TablePatch(c1, FALSE, life[c1].up, out, concentration[c1], effects[c1])
          \/ \E up \in BOOLEAN : NewVersion(c1, up)
       /\ UNCHANGED rows
    \/ RequestDeathSave(c1) \/ DeclareAttack(m1, c1)
    \/ \E r \in rows :
          \/ \E roll \in Rolls : CompleteDeathSave(r, roll)
          \/ \E wound \in Wounds, critical \in BOOLEAN : CompleteAttack(r, wound, critical)
    \/ AdvanceTurn /\ Bodies

MCNext ==
    /\ \/ /\ \/ scene = "turns" /\ TurnsScene
             \/ scene = "actions" /\ ActionsScene
             \/ scene = "setup" /\ SetupScene
             \/ scene = "moves" /\ MovesScene
          /\ Bodies
       \/ scene = "magic" /\ MagicScene
       \/ scene = "patches" /\ PatchScene
       \/ scene = "rulings" /\ RulingsScene
       \/ scene = "death" /\ DeathScene
    /\ UNCHANGED scene

MCSpec == MCInit /\ [][MCNext]_<<vars, healthVars, rows, scene>>
=============================================================================
