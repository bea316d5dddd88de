----------------------------- MODULE CombatHealth -----------------------------
(***************************************************************************)
(* What a Combat does to the combatants' bodies and to their spells: the   *)
(* semantic damage and healing every path goes through, the death record   *)
(* of a Character, spells cast at one target, and concentration - the      *)
(* pointer of the caster, the effects it keeps alive on others, and the    *)
(* saves asked of those who are hurt - and what a write of the Character   *)
(* State by hand does to all that while the Combat goes on.  Hit points    *)
(* are abstracted to being up or down; effects that need no concentration  *)
(* are not tracked.                                                        *)
(***************************************************************************)
EXTENDS CombatTurns

CONSTANTS
    Spells,                 \* the spells that need concentration
    MaxCasts, MaxChecks     \* bounds of the model

VARIABLES
    life,           \* of each Character: up, Unconscious (out), and the death record
    concentration,  \* the spell each combatant concentrates on, and whose effects it keeps
    effects,        \* the castings whose effects are on each combatant
    checks,         \* the CON saves asked for and not yet rolled
    casts,          \* how many concentration spells were cast
    corrected,      \* history: whose hit points or Unconscious were last written by hand
    strays          \* history: the effects a write by hand left without a holder

\* what a concentration pointer holds: the castings that have an effect
Holds == [spell : Spells, ids : SUBSET Nat]
ASSUME HoldsAssumption == None \notin Holds

healthVars == <<life, concentration, effects, checks, casts, corrected, strays>>

Standing == [up |-> TRUE, out |-> FALSE, ok |-> 0, bad |-> 0, end |-> "open"]
Fresh(l) == l.ok = 0 /\ l.bad = 0 /\ l.end = "open"

HealthInit ==
    /\ life = [c \in Characters |-> Standing]
    /\ concentration = [e \in Entries |-> None]
    /\ effects = [e \in Entries |-> {}]
    /\ checks = {} /\ casts = 0
    /\ corrected = {} /\ strays = [e \in Entries |-> {}]

-----------------------------------------------------------------------------
(* Damage and healing.  An instance of damage does nothing ("none"), hurts *)
(* without consequence at zero ("hurt"), brings to zero hit points or hits *)
(* there ("felled"), or goes so far beyond that it kills ("killed").       *)

Wounds == {"none", "hurt", "felled", "killed"}
Dead(l) == [l EXCEPT !.up = FALSE, !.ok = 0, !.bad = 0, !.end = "dead"]
Failed(l, n) == IF l.bad + n >= 3 THEN Dead(l) ELSE [l EXCEPT !.bad = @ + n, !.end = "open"]

\* apply_damage: who falls gets a new record, who is hit while down fails once,
\* or twice when hit critically; a record that says dead is kept
Wounded(l, wound, critical) ==
    CASE wound = "none" \/ (wound = "hurt" /\ (l.up \/ l.end = "dead")) -> l
      [] wound \in {"felled", "killed"} /\ l.end = "dead" -> [l EXCEPT !.up = FALSE]
      [] wound = "hurt" /\ ~l.up /\ l.end # "dead" -> [l EXCEPT !.out = TRUE]
      [] wound = "killed" /\ l.end # "dead" -> Dead(l)
      [] OTHER -> IF l.up THEN [Standing EXCEPT !.up = FALSE, !.out = TRUE]
                  ELSE [Failed(l, IF critical THEN 2 ELSE 1) EXCEPT !.out = TRUE]

RecordKept(l) == [l EXCEPT !.up = TRUE, !.out = FALSE]
\* apply_healing of some points; it also says whether Unconscious is to go
Raised(l) == [Standing EXCEPT !.out = l.out]
Healed(l) == IF l.up THEN l ELSE [Raised(l) EXCEPT !.out = FALSE]
\* a healing spell does not take Unconscious away
HealedBySpell(l) == IF l.up THEN l ELSE Raised(l)

\* whoever of S is hurt while concentrating owes a save
AskSaves(S) ==
    /\ \A e \in S : \E n \in 1..MaxChecks : \A k \in checks : k.of = e => k.no # n
    /\ checks' = checks \cup
          {[of |-> e, spell |-> concentration'[e].spell, session |-> session.no,
            no |-> CHOOSE n \in 1..MaxChecks : \A k \in checks : k.of = e => k.no # n] : e \in S}

Holding(S) == {e \in S : concentration'[e] # None}

\* what was written by hand counts until damage or healing takes the Character
\* across zero, and until the effect is gone
HandsOff ==
    /\ corrected' = {c \in corrected : life'[c].up = life[c].up}
    /\ strays' = [e \in Entries |-> strays[e] \cap effects'[e]]

\* nobody but the target, and neither its turn nor its action, is touched
Untouched == UNCHANGED <<turnVars, calls, boardVars>>

ApplyDamage(t, wound, critical) ==
    /\ Open /\ Running /\ t \in Active /\ wound # "none"
    /\ life' = IF t \in Characters THEN [life EXCEPT ![t] = Wounded(@, wound, critical)] ELSE life
    /\ UNCHANGED <<concentration, effects, casts, entry>> /\ HandsOff /\ Untouched
    /\ AskSaves(Holding({t}))

ApplyHealing(c) ==
    /\ Open /\ Running /\ c \in Active \cap Characters
    /\ life[c].end # "dead"
    /\ life' = [life EXCEPT ![c] = Healed(@)]
    /\ UNCHANGED <<concentration, effects, checks, casts, entry>> /\ HandsOff /\ Untouched

-----------------------------------------------------------------------------
(* Spells. *)

CanAct(e) == Open /\ Running /\ e \in Active /\ combat.turn = e /\ ~entry[e].surprised

\* strip_linked_effects with what the caller strips itself: the effects of
\* castings ids leave the active combatants, those of the others stay
OwnOnly(ids, own) == own
Reached(ids, own) == Active \cup own
Without(ids, own) == [x \in Entries |-> IF x \in Reached(ids, own) THEN effects[x] \ ids ELSE effects[x]]
Replaced(e) == IF concentration[e] = None THEN {} ELSE concentration[e].ids

\* cast_character_spell, cast_monster_spell: at t, or at nobody; a spell that
\* needs concentration starts it even when its effect does not land
Cast(e, t, spell, lands, wound, mends) ==
    /\ CanAct(e) /\ entry[e].action
    /\ t # None => t \in Active
    /\ t = None => lands /\ wound = "none" /\ ~mends
    /\ mends => lands /\ wound = "none" /\ (t \in Characters => life[t].end # "dead")
    /\ entry' = [entry EXCEPT ![e].action = FALSE]
    /\ life' = IF t \notin Characters THEN life
               ELSE [life EXCEPT ![t] = IF mends THEN HealedBySpell(@) ELSE Wounded(@, wound, FALSE)]
    /\ IF spell = None
       THEN UNCHANGED <<concentration, effects, casts>>
       ELSE /\ casts < MaxCasts /\ casts' = casts + 1
            /\ concentration' = [concentration EXCEPT ![e] = [spell |-> spell, ids |-> IF lands THEN {casts'} ELSE {}]]
            /\ LET kept == Without(Replaced(e), {e, t})
                   holder == IF t = None THEN e ELSE t IN
               effects' = IF lands THEN [kept EXCEPT ![holder] = @ \cup {casts'}] ELSE kept
    /\ AskSaves(IF wound = "none" THEN {} ELSE Holding({t}))
    /\ HandsOff /\ Untouched

-----------------------------------------------------------------------------
(* Concentration. *)

Release(e) ==
    /\ concentration' = [concentration EXCEPT ![e] = None]
    /\ effects' = Without(Replaced(e), {e})

\* complete_check: a check of another Session, or one whose spell is no longer
\* the one concentrated on, is refused and stays
JudgeCheck(k, success) ==
    /\ InSession(k) /\ k.of \in Active
    /\ concentration[k.of] # None /\ concentration[k.of].spell = k.spell
    /\ checks' = checks \ {k}
    /\ IF success THEN UNCHANGED <<concentration, effects>> ELSE Release(k.of)
    /\ UNCHANGED <<life, casts, entry>> /\ HandsOff /\ Untouched

DropConcentration(e) ==
    /\ Open /\ Running /\ e \in Active /\ concentration[e] # None
    /\ Release(e)
    /\ UNCHANGED <<life, checks, casts, entry>> /\ HandsOff /\ Untouched

-----------------------------------------------------------------------------
(* The Character State written by hand.  It is the State of the Character  *)
(* alone: the death record, which is in the combatant's row, is left as it *)
(* is, nobody's linked effects are stripped, and no save is asked for.     *)

\* the effects on the active that nobody's pointer names, and all on the others
Held(n) == \E h \in Entries : concentration[h] # None /\ n \in concentration[h].ids
Unheld(e) == {n \in effects[e] : e \in Active => ~Held(n)}

\* pointers and effects name castings that were made, ended ones too
Pointers == {None} \cup [spell : Spells, ids : SUBSET (1..casts)]

WriteState(c, up, out, pointer, marks) ==
    /\ life' = [life EXCEPT ![c].up = up, ![c].out = out]
    /\ concentration' = [concentration EXCEPT ![c] = pointer]
    /\ effects' = [effects EXCEPT ![c] = marks]
    /\ UNCHANGED <<checks, casts, entry>> /\ Untouched
    /\ corrected' = IF life'[c] = life[c] THEN corrected ELSE corrected \cup {c}
    /\ strays' = [e \in Entries |-> Unheld(e)']

\* TableCharacterStateService.apply_patch, for a seated Character: while a Combat
\* goes on only the DM, who gives a reason, writes hit points, concentration and
\* temporary effects; the whole list of conditions is open to who controls the Seat
OwnFields(c, up, pointer) == up = life[c].up /\ pointer = concentration[c]
TablePatch(c, dm, up, out, pointer, marks) ==
    /\ Open /\ c \in session.seated
    /\ Fighting /\ ~dm => OwnFields(c, up, pointer)
    /\ WriteState(c, up, out, pointer, marks)

\* the sheet's patch takes the same fields and asks for no Combat
SheetPatch(c, up, out, pointer, marks) == WriteState(c, up, out, pointer, marks)

\* a Confirm of a new version keeps the damage taken, not the hit points left
NewVersion(c, up) == WriteState(c, up, life[c].out, concentration[c], effects[c])

HealthNext ==
    \/ \E e \in Active, t \in Active \cup {None}, spell \in Spells \cup {None}, lands, mends \in BOOLEAN, wound \in Wounds :
          Cast(e, t, spell, lands, wound, mends)
    \/ \E t \in Active, wound \in Wounds, critical \in BOOLEAN : ApplyDamage(t, wound, critical)
    \/ \E c \in Characters : ApplyHealing(c)
    \/ \E k \in checks, success \in BOOLEAN : JudgeCheck(k, success)
    \/ \E e \in Active : DropConcentration(e)
    \/ \E c \in Characters, up, out \in BOOLEAN, pointer \in Pointers, marks \in SUBSET (1..casts) :
          \/ \E dm \in BOOLEAN : TablePatch(c, dm, up, out, pointer, marks)
          \/ SheetPatch(c, up, out, pointer, marks)
    \/ \E c \in Characters, up \in BOOLEAN : NewVersion(c, up)
=============================================================================
