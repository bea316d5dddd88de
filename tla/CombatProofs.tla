---------------------------- MODULE CombatProofs ----------------------------
(***************************************************************************)
(* Theorems about a Combat, for any number of combatants, cells, paths and *)
(* spells and any bounds.                                                  *)
(*                                                                         *)
(* First what the steps do: the types of the rows, what each operation     *)
(* does to the rows of the combatants, what a planned call remembers, the  *)
(* kinds of steps there are (StepKinds, with everything that leaves the    *)
(* table alone taken together), and who is there (AbsentIsBlank,           *)
(* CallsName).  Then the invariant, part by part.                          *)
(*                                                                         *)
(* Inv is inductive.  Initiative: a roll and the entries bound to it agree *)
(* (RollsBound), an order in flight lists rolled entries in order          *)
(* (OrdersReady), and who acted is who is not behind the turn (TurnInv).   *)
(* Movement: no two pauses share a board revision, a window of a pause is  *)
(* one its mover waits for (PauseInv), and a call that has seen the        *)
(* revisions the rows still have has seen the rows (ResumesFit, TokensFit, *)
(* WaysFit).  Actions: what is paid for fits one action (BudgetInv).       *)
(***************************************************************************)
EXTENDS CombatTable, FiniteSetTheorems, SequenceTheorems, WellFoundedInduction, TLAPS

-----------------------------------------------------------------------------
(* Types. *)

Sessions == [no : Nat, open : BOOLEAN, seated : SUBSET Characters]
Combats ==
    [mode : {None, "quick", "tactical"}, status : {"none", "initiative_pending", "running", "ended"},
     round : Nat, turn : Entries \cup {None}]
Boards == [rev : Nat \ {0}, door : {"open", "closed"}]
Tokens == [Entries -> [at : Cells \cup {None}, rev : Nat]]
Statuses == {"absent", "active", "withdrawn", "removed", "dead", "unconscious", "surrendered", "fled"}
Windows ==
    [kind : {"opportunity_attack"}, mover : Entries, pause : Nat, eligible : SUBSET Entries]
    \cup [kind : {"other", "manual"}, mover : {None}, pause : Nat, eligible : SUBSET Entries]
EntryRows ==
    [status : Statuses, order : Nat \cup {None}, request : SUBSET Entries, total : Totals \cup {None},
     surprised : BOOLEAN, action : BOOLEAN, bonus : BOOLEAN, reaction : BOOLEAN, attacks : Nat,
     window : Windows \cup {None}, disengaged : BOOLEAN, used : Nat, budget : Nat,
     pending : Pauses \cup {None}]
Requests ==
    [unit : SUBSET Entries, session : Nat, status : {"pending", "resolved"}, total : Totals \cup {None}]
OrderCalls == [kind : {"finalize", "reorder"}, session : Nat, seq : Seq(Entries)]
MoveCalls ==
    [kind : {"confirm", "resume", "stop"}, session : Nat, entry : Entries, dm : BOOLEAN, tokenRev : Nat,
     boardRev : Nat, pendingRev : Nat, walk : Seq(Cells), used : Nat, budget : Nat,
     reactors : SUBSET Entries, pending : Pauses \cup {None}]
PlaceCalls == [kind : {"place", "reposition"}, session : Nat, entry : Entries, tokenRev : Nat, walk : Seq(Cells)]
RowKinds == {"attack", "special", "area", "escape", "opportunity_attack", "special_adjudication", "death_save"}
ActionRows ==
    [no : Nat, kind : RowKinds, by : Entries, at : (SUBSET Entries) \ {{}}, session : Nat,
     status : {"dm_adjudication_required", "waiting_for_roll", "resolved"}, due : Int, paid : BOOLEAN]

TypeOK ==
    /\ session \in Sessions
    /\ combat \in Combats
    /\ entry \in [Entries -> EntryRows]
    /\ requests \in SUBSET Requests
    /\ board \in Boards /\ token \in Tokens
    /\ calls \in SUBSET (OrderCalls \cup MoveCalls \cup PlaceCalls)
    /\ acted \in SUBSET Entries /\ unseen \in SUBSET Entries /\ accepted \in SUBSET WindowIds

BodiesTypeOK ==
    /\ life \in [Characters -> [up : BOOLEAN, out : BOOLEAN, ok : Nat, bad : Nat, end : {"open", "stable", "dead"}]]
    /\ concentration \in [Entries -> Holds \cup {None}]
    /\ effects \in [Entries -> SUBSET Nat]
    /\ checks \in SUBSET [of : Entries, spell : Spells, session : Nat, no : Nat]
    /\ casts \in Nat
    /\ corrected \in SUBSET Characters /\ strays \in [Entries -> SUBSET Nat]
    /\ rows \in SUBSET ActionRows /\ IsFiniteSet(rows)

Ordering(c) == c.kind \in {"finalize", "reorder"}
Moving(c) == c.kind \in {"confirm", "resume", "stop"}
Placing(c) == c.kind \in {"place", "reposition"}

-----------------------------------------------------------------------------
(* Who is there. *)

Present(e) == entry[e].status # "absent"

NothingBefore ==
    combat.status = "none" =>
        /\ calls = {} /\ \A r \in requests : r.unit = {}
        /\ \A e \in Entries : ~Present(e) /\ token[e].at = Off

AbsentIsBlank ==
    \A e \in Entries : ~Present(e) =>
        /\ entry[e].request = {} /\ entry[e].total = None
        /\ entry[e].action /\ entry[e].attacks = 0 /\ entry[e].pending = None
        /\ token[e].at = Off

\* who has not joined has no effects but those written on it by hand
AbsentIsUnaffected == \A e \in Entries : ~Present(e) => effects[e] \subseteq strays[e]

CallsName ==
    \A c \in calls :
        /\ Ordering(c) => \A i \in DOMAIN c.seq : Present(c.seq[i])
        /\ Ordering(c) => \A i, j \in DOMAIN c.seq : c.seq[i] = c.seq[j] => i = j
        /\ Moving(c) \/ Placing(c) =>
              Present(c.entry) /\ combat.mode = "tactical" /\ c.walk # << >>
        /\ Moving(c) => c.boardRev <= board.rev

\* a movement that stops for answers asks those it names, and nobody else
Planned(c) ==
    \/ c.pending = None /\ c.reactors = {}
    \/ /\ c.pending \in Pauses /\ c.pending.pause = c.boardRev /\ c.pending.yes = {}
       /\ c.pending.windows = {<<o, c.boardRev>> : o \in c.reactors}

PausesPlanned == \A c \in calls : Moving(c) => Planned(c)

WayIsFree(c) ==
    /\ \A i \in 2..Len(c.walk) :
          /\ Crosses(c.walk[i-1], c.walk[i]) => board.door = "open"
          /\ \A o \in On(c.walk[i], c.entry) \ unseen : ~Hostile(c.entry, o)
    /\ c.pending = None => On(c.walk[Len(c.walk)], c.entry) \subseteq unseen

-----------------------------------------------------------------------------
(* What the helpers return. *)

LEMMA EntriesFinite == IsFiniteSet(Entries) /\ None \notin Entries /\ None \notin Int
BY CombatAssumption DEF Entries

LEMMA NewEntryIs ==
    ASSUME NEW surprised \in BOOLEAN
    PROVE  /\ NewEntry(surprised) \in EntryRows
           /\ NewEntry(surprised).status = "active" /\ NewEntry(surprised).request = {}
           /\ NewEntry(surprised).order = None /\ NewEntry(surprised).total = None
           /\ NewEntry(surprised).action /\ NewEntry(surprised).attacks = 0
           /\ NewEntry(surprised).window = None /\ NewEntry(surprised).pending = None
BY DEF NewEntry, EntryRows, Statuses

LEMMA NoEntryIs ==
    /\ NoEntry \in EntryRows
    /\ NoEntry.status = "absent" /\ NoEntry.request = {} /\ NoEntry.order = None /\ NoEntry.total = None
    /\ NoEntry.action /\ NoEntry.attacks = 0 /\ NoEntry.window = None /\ NoEntry.pending = None
BY NewEntryIs DEF NoEntry, EntryRows, Statuses

SameRoll(new, old) ==
    /\ new.status = old.status /\ new.order = old.order
    /\ new.request = old.request /\ new.total = old.total
SameBudget(new, old) == new.action = old.action /\ new.attacks = old.attacks
SamePausing(new, old) == new.window = old.window /\ new.pending = old.pending

LEMMA RefreshedIs ==
    ASSUME NEW row \in EntryRows
    PROVE  /\ Refreshed(row) \in EntryRows /\ SameRoll(Refreshed(row), row)
           /\ Refreshed(row).action /\ Refreshed(row).attacks = 0
           /\ Refreshed(row).window = None /\ Refreshed(row).pending = None
BY DEF Refreshed, EntryRows, SameRoll

LEMMA WithRequestIs ==
    ASSUME NEW row \in EntryRows, NEW u \in SUBSET Entries
    PROVE  LET new == [row EXCEPT !.request = u] IN
           /\ new \in EntryRows /\ SameBudget(new, row) /\ SamePausing(new, row)
           /\ new.status = row.status /\ new.order = row.order /\ new.request = u /\ new.total = row.total
BY DEF EntryRows, SameBudget, SamePausing

LEMMA WithTotalIs ==
    ASSUME NEW row \in EntryRows, NEW t \in Totals
    PROVE  LET new == [row EXCEPT !.total = t] IN
           /\ new \in EntryRows /\ SameBudget(new, row) /\ SamePausing(new, row)
           /\ new.status = row.status /\ new.order = row.order /\ new.request = row.request /\ new.total = t
BY DEF EntryRows, SameBudget, SamePausing

LEMMA WithOrderIs ==
    ASSUME NEW row \in EntryRows, NEW i \in Nat
    PROVE  LET new == [row EXCEPT !.order = i] IN
           /\ new \in EntryRows /\ SameBudget(new, row) /\ SamePausing(new, row)
           /\ new.status = row.status /\ new.order = i /\ new.request = row.request /\ new.total = row.total
BY DEF EntryRows, SameBudget, SamePausing

LEMMA AwakeIs ==
    ASSUME NEW row \in EntryRows
    PROVE  LET new == [row EXCEPT !.surprised = FALSE, !.reaction = TRUE] IN
           /\ new \in EntryRows
           /\ SameRoll(new, row) /\ SameBudget(new, row) /\ SamePausing(new, row)
BY DEF EntryRows, SameRoll, SameBudget, SamePausing

Ended(row) ==
    [Refreshed(row) EXCEPT !.request = {}, !.total = None, !.order = None,
                           !.surprised = FALSE, !.reaction = TRUE]

LEMMA EndedIs ==
    ASSUME NEW row \in EntryRows
    PROVE  /\ Ended(row) \in EntryRows /\ Ended(row).status = row.status
           /\ Ended(row).request = {} /\ Ended(row).total = None
           /\ Ended(row).action /\ Ended(row).attacks = 0
           /\ Ended(row).window = None /\ Ended(row).pending = None
<1> DEFINE r == Refreshed(row)
<1>1. r \in EntryRows /\ r.status = row.status /\ r.action /\ r.attacks = 0 /\ r.window = None /\ r.pending = None
    BY RefreshedIs DEF SameRoll
<1> DEFINE q == [r EXCEPT !.request = {}, !.total = None]
<1>2. Ended(row) = [q EXCEPT !.order = None, !.surprised = FALSE, !.reaction = TRUE]
    BY DEF Ended
<1> HIDE DEF r
<1>3. /\ q \in EntryRows /\ q.status = row.status /\ q.request = {} /\ q.total = None
      /\ q.action /\ q.attacks = 0 /\ q.window = None /\ q.pending = None
    BY <1>1 DEF EntryRows
<1> HIDE DEF q
<1> QED
    BY <1>2, <1>3 DEF EntryRows

-----------------------------------------------------------------------------
(* What each operation does to the rows of the combatants. *)

Only(e, row) ==
    /\ entry' \in [Entries -> EntryRows] /\ entry'[e] = row
    /\ \A o \in Entries \ {e} : entry'[o] = entry[o]

LEMMA OneRow ==
    ASSUME TypeOK, NEW e \in Entries, NEW row \in EntryRows, entry' = [entry EXCEPT ![e] = row]
    PROVE  Only(e, row)
BY DEF TypeOK, Only

LEMMA UseAttackDoes ==
    ASSUME TypeOK, NEW e \in Entries, UseAttack(e)
    PROVE  \E row \in EntryRows :
              /\ Only(e, row) /\ SameRoll(row, entry[e]) /\ SamePausing(row, entry[e])
              /\ row.attacks = entry[e].attacks + 1
              /\ row.action = (entry[e].action /\ entry[e].attacks > 0)
<1>1. entry[e] \in EntryRows
    BY DEF TypeOK
<1> PICK a \in BOOLEAN : a = (entry[e].action /\ entry[e].attacks > 0)
    OBVIOUS
<1> PICK n \in Nat : n = entry[e].attacks + 1
    BY <1>1 DEF EntryRows
<1> DEFINE row == [entry[e] EXCEPT !.attacks = n, !.action = a]
<1>2. /\ row \in EntryRows /\ SameRoll(row, entry[e]) /\ SamePausing(row, entry[e])
      /\ row.attacks = entry[e].attacks + 1 /\ row.action = a
    BY <1>1 DEF EntryRows, SameRoll, SamePausing
<1>3. entry' = [entry EXCEPT ![e] = row]
    BY <1>1 DEF UseAttack, EntryRows
<1> HIDE DEF row
<1>4. Only(e, row)
    BY <1>2, <1>3, OneRow
<1> QED
    BY <1>2, <1>4

LEMMA UseActionDoes ==
    ASSUME TypeOK, NEW e \in Entries, NEW kind, UseAction(e, kind)
    PROVE  \E row \in EntryRows :
              /\ Only(e, row) /\ SameRoll(row, entry[e]) /\ SamePausing(row, entry[e])
              /\ row.attacks = entry[e].attacks /\ ~row.action
<1>1. entry[e] \in EntryRows /\ Speed \in Nat
    BY CombatAssumption DEF TypeOK
<1> PICK d \in BOOLEAN : d = (entry[e].disengaged \/ kind = "disengage")
    OBVIOUS
<1> PICK b \in Nat : b = IF kind = "dash" /\ combat.mode = "tactical" THEN entry[e].budget + Speed ELSE entry[e].budget
    BY <1>1 DEF EntryRows
<1> DEFINE row == [entry[e] EXCEPT !.action = FALSE, !.disengaged = d, !.budget = b]
<1>2. /\ row \in EntryRows /\ SameRoll(row, entry[e]) /\ SamePausing(row, entry[e])
      /\ row.attacks = entry[e].attacks /\ ~row.action
  <2> DEFINE tired == [entry[e] EXCEPT !.action = FALSE]
  <2>1. /\ tired \in EntryRows /\ SameRoll(tired, entry[e]) /\ SamePausing(tired, entry[e])
        /\ tired.attacks = entry[e].attacks /\ ~tired.action
      BY <1>1 DEF EntryRows, SameRoll, SamePausing
  <2>2. row = [tired EXCEPT !.disengaged = d, !.budget = b]
      BY <1>1 DEF EntryRows
  <2> HIDE DEF tired
  <2> QED
      BY <2>1, <2>2 DEF EntryRows, SameRoll, SamePausing
<1>3. entry' = [entry EXCEPT ![e] = row]
    BY <1>1 DEF UseAction, EntryRows
<1> HIDE DEF row
<1> QED
    BY <1>2, <1>3, OneRow

LEMMA UseBonusDoes ==
    ASSUME TypeOK, NEW e \in Entries, UseBonus(e)
    PROVE  \E row \in EntryRows :
              /\ Only(e, row)
              /\ SameRoll(row, entry[e])
              /\ SameBudget(row, entry[e])
              /\ SamePausing(row, entry[e])
<1>1. entry[e] \in EntryRows
    BY DEF TypeOK
<1> DEFINE row == [entry[e] EXCEPT !.bonus = FALSE]
<1>2. /\ row \in EntryRows
      /\ SameRoll(row, entry[e])
      /\ SameBudget(row, entry[e])
      /\ SamePausing(row, entry[e])
    BY <1>1 DEF EntryRows, SameRoll, SameBudget, SamePausing
<1>3. entry' = [entry EXCEPT ![e] = row]
    BY <1>1 DEF UseBonus, EntryRows
<1> HIDE DEF row
<1> QED
    BY <1>2, <1>3, OneRow

LEMMA UseReactionDoes ==
    ASSUME TypeOK, NEW e \in Entries, UseReaction(e)
    PROVE  \E row \in EntryRows :
              /\ Only(e, row)
              /\ SameRoll(row, entry[e])
              /\ SameBudget(row, entry[e])
              /\ row.window = None /\ row.pending = entry[e].pending
<1>1. entry[e] \in EntryRows
    BY DEF TypeOK
<1> DEFINE row == [entry[e] EXCEPT !.reaction = FALSE, !.window = None]
<1>2. /\ row \in EntryRows
      /\ SameRoll(row, entry[e])
      /\ SameBudget(row, entry[e])
      /\ row.window = None /\ row.pending = entry[e].pending
    BY <1>1 DEF EntryRows, SameRoll, SameBudget, SamePausing
<1>3. entry' = [entry EXCEPT ![e] = row]
    BY <1>1 DEF UseReaction, EntryRows
<1> HIDE DEF row
<1> QED
    BY <1>2, <1>3, OneRow

LEMMA SetEntryStatusDoes ==
    ASSUME TypeOK, NEW e \in Entries, NEW status \in Outcomes(e), SetEntryStatus(e, status)
    PROVE  \E row \in EntryRows :
              /\ Only(e, row)
              /\ SameBudget(row, entry[e])
              /\ row.status = status /\ row.order = entry[e].order
              /\ row.request = entry[e].request /\ row.total = entry[e].total
              /\ row.window = None /\ row.pending = None
<1>1. entry[e] \in EntryRows
    BY DEF TypeOK
<1> DEFINE row == [entry[e] EXCEPT !.status = status, !.window = None, !.disengaged = FALSE,
                                   !.used = 0, !.budget = 0, !.pending = None]
<1>2. /\ row \in EntryRows
      /\ SameBudget(row, entry[e])
      /\ row.status = status /\ row.order = entry[e].order
      /\ row.request = entry[e].request /\ row.total = entry[e].total
      /\ row.window = None /\ row.pending = None
    BY <1>1 DEF EntryRows, SameRoll, SameBudget, SamePausing, Outcomes, Statuses
<1>3. entry' = [entry EXCEPT ![e] = row]
    BY <1>1 DEF SetEntryStatus, EntryRows
<1> HIDE DEF row
<1> QED
    BY <1>2, <1>3, OneRow

LEMMA CancelPauseDoes ==
    ASSUME TypeOK, NEW e \in Entries, CancelPause(e)
    PROVE  \E row \in EntryRows :
              /\ Only(e, row)
              /\ SameRoll(row, entry[e])
              /\ SameBudget(row, entry[e])
              /\ row.window = entry[e].window /\ row.pending = None
<1>1. entry[e] \in EntryRows
    BY DEF TypeOK
<1> DEFINE row == [entry[e] EXCEPT !.pending = None]
<1>2. /\ row \in EntryRows
      /\ SameRoll(row, entry[e])
      /\ SameBudget(row, entry[e])
      /\ row.window = entry[e].window /\ row.pending = None
    BY <1>1 DEF EntryRows, SameRoll, SameBudget, SamePausing
<1>3. entry' = [entry EXCEPT ![e] = row]
    BY <1>1 DEF CancelPause, EntryRows
<1> HIDE DEF row
<1> QED
    BY <1>2, <1>3, OneRow

LEMMA OpenWindowDoes ==
    ASSUME TypeOK, NEW e \in Entries, NEW eligible \in SUBSET Entries, OpenWindow(e, eligible)
    PROVE  \E row \in EntryRows :
              /\ Only(e, row)
              /\ SameRoll(row, entry[e])
              /\ SameBudget(row, entry[e])
              /\ row.window # None => row.window.pause = 0
              /\ row.pending = entry[e].pending
<1>1. entry[e] \in EntryRows
    BY DEF TypeOK
<1> PICK window \in Windows : window = [kind |-> "other", mover |-> None, pause |-> 0, eligible |-> eligible]
    BY DEF Windows
<1> DEFINE row == [entry[e] EXCEPT !.window = window]
<1>2. /\ row \in EntryRows
      /\ SameRoll(row, entry[e])
      /\ SameBudget(row, entry[e])
      /\ row.window # None => row.window.pause = 0
      /\ row.pending = entry[e].pending
    BY <1>1 DEF EntryRows, SameRoll, SameBudget, SamePausing
<1>3. entry' = [entry EXCEPT ![e] = row]
    BY <1>1 DEF OpenWindow, EntryRows
<1> HIDE DEF row
<1> QED
    BY <1>2, <1>3, OneRow

LEMMA SetWindowDoes ==
    ASSUME TypeOK, NEW e \in Entries, NEW open \in BOOLEAN, SetWindow(e, open)
    PROVE  \E row \in EntryRows :
              /\ Only(e, row)
              /\ SameRoll(row, entry[e])
              /\ SameBudget(row, entry[e])
              /\ row.window # None => row.window.pause = 0
              /\ row.pending = entry[e].pending
<1>1. entry[e] \in EntryRows
    BY DEF TypeOK
<1> PICK window \in Windows \cup {None} :
        window = IF open THEN [kind |-> "manual", mover |-> None, pause |-> 0, eligible |-> {}] ELSE None
    BY DEF Windows
<1> DEFINE row == [entry[e] EXCEPT !.window = window]
<1>2. /\ row \in EntryRows
      /\ SameRoll(row, entry[e])
      /\ SameBudget(row, entry[e])
      /\ row.window # None => row.window.pause = 0
      /\ row.pending = entry[e].pending
    BY <1>1 DEF EntryRows, SameRoll, SameBudget, SamePausing
<1>3. entry' = [entry EXCEPT ![e] = row]
    BY <1>1 DEF SetWindow, EntryRows
<1> HIDE DEF row
<1> QED
    BY <1>2, <1>3, OneRow

LEMMA SpendActionDoes ==
    ASSUME TypeOK, NEW e \in Entries, entry' = [entry EXCEPT ![e].action = FALSE]
    PROVE  \E row \in EntryRows :
              /\ Only(e, row) /\ SameRoll(row, entry[e]) /\ SamePausing(row, entry[e])
              /\ row.attacks = entry[e].attacks /\ ~row.action
<1>1. entry[e] \in EntryRows
    BY DEF TypeOK
<1> DEFINE row == [entry[e] EXCEPT !.action = FALSE]
<1>2. /\ row \in EntryRows /\ SameRoll(row, entry[e]) /\ SamePausing(row, entry[e])
      /\ row.attacks = entry[e].attacks /\ ~row.action
    BY <1>1 DEF EntryRows, SameRoll, SamePausing
<1>3. entry' = [entry EXCEPT ![e] = row]
    BY <1>1 DEF EntryRows
<1> HIDE DEF row
<1> QED
    BY <1>2, <1>3, OneRow

LEMMA RuleDoes ==
    ASSUME TypeOK, BodiesTypeOK, NEW r \in rows, NEW trigger \in BOOLEAN, Rule(r, trigger)
    PROVE  \/ entry' = entry
           \/ \E row \in EntryRows :
                 /\ Only(r.by, row) /\ SameRoll(row, entry[r.by]) /\ SameBudget(row, entry[r.by])
                 /\ row.window # None => row.window.pause = 0
                 /\ row.pending = entry[r.by].pending
<1> SUFFICES ASSUME entry' # entry
             PROVE  \E row \in EntryRows :
                       /\ Only(r.by, row) /\ SameRoll(row, entry[r.by]) /\ SameBudget(row, entry[r.by])
                       /\ row.window # None => row.window.pause = 0
                       /\ row.pending = entry[r.by].pending
    OBVIOUS
<1>1. r.by \in Entries /\ r.at \in (SUBSET Entries) \ {{}}
    BY DEF BodiesTypeOK, ActionRows
<1> PICK e \in Entries : e = r.by
    BY <1>1
<1>2. (CHOOSE t \in r.at : TRUE) \in Entries
  <2>1. \E t \in r.at : TRUE
      BY <1>1
  <2> QED
      BY <1>1, <2>1
<1> PICK window \in Windows :
        window = [kind |-> "opportunity_attack", mover |-> CHOOSE t \in r.at : TRUE, pause |-> 0, eligible |-> {}]
    BY <1>2 DEF Windows
<1>3. entry[e] \in EntryRows
    BY DEF TypeOK
<1> DEFINE row == [entry[e] EXCEPT !.window = window]
<1>4. /\ row \in EntryRows /\ SameRoll(row, entry[e]) /\ SameBudget(row, entry[e])
      /\ row.window.pause = 0 /\ row.pending = entry[e].pending
    BY <1>3 DEF EntryRows, SameRoll, SameBudget
<1>5. entry' = [entry EXCEPT ![e] = row]
    BY <1>3 DEF Rule, EntryRows
<1> HIDE DEF row
<1> QED
    BY <1>4, <1>5, OneRow

LEMMA StartCombatDoes ==
    ASSUME TypeOK, NEW mode \in {"quick", "tactical"}, NEW monsters \in SUBSET Monsters,
           NEW place \in [monsters -> Cells], StartCombat(mode, monsters, place)
    PROVE  /\ entry' \in [Entries -> EntryRows]
           /\ \A e \in Entries : entry'[e] = NewEntry(FALSE) \/ entry'[e] = entry[e]
           /\ \A e \in Entries : e \in monsters => entry'[e] = NewEntry(FALSE)
<1>1. entry' = [e \in Entries |-> IF e \in session.seated \cup monsters THEN NewEntry(FALSE) ELSE entry[e]]
    BY DEF StartCombat
<1>2. NewEntry(FALSE) \in EntryRows /\ \A e \in Entries : entry[e] \in EntryRows
    BY NewEntryIs DEF TypeOK
<1> QED
    BY <1>1, <1>2

LEMMA AddEntryDoes ==
    ASSUME TypeOK, NEW e \in Entries, NEW surprised \in BOOLEAN, AddEntry(e, surprised)
    PROVE  Only(e, NewEntry(surprised))
BY NewEntryIs, OneRow DEF AddEntry

\* the units of a request are its single combatants and its pack
LEMMA UnitsAre ==
    ASSUME NEW S \in SUBSET Entries
    PROVE  /\ \A u \in Units(S) : u \in SUBSET S /\ u # {}
           /\ \A e \in S : \E u \in Units(S) : e \in u
           /\ \A u, v \in Units(S) : \A e \in u : e \in v => u = v
BY DEF Units

LEMMA RequestInitiativeDoes ==
    ASSUME TypeOK, NEW S \in SUBSET Active, RequestInitiative(S)
    PROVE  \E asked \in SUBSET Active :
              /\ entry' \in [Entries -> EntryRows]
              /\ \A e \in asked : entry[e].request = {} /\ entry[e].total = None
              /\ \A e \in Entries :
                    /\ entry'[e].status = entry[e].status /\ entry'[e].order = entry[e].order
                    /\ entry'[e].total = entry[e].total
                    /\ SameBudget(entry'[e], entry[e]) /\ SamePausing(entry'[e], entry[e])
                    /\ e \in asked => entry'[e].request \in Units(asked) /\ e \in entry'[e].request
                    /\ e \notin asked => entry'[e].request = entry[e].request
              /\ requests' = requests \cup
                    {[unit |-> u, session |-> session.no, status |-> "pending", total |-> None] : u \in Units(asked)}
<1> DEFINE asked == {e \in S : entry[e].request = {} /\ entry[e].total = None}
           Unit(e) == CHOOSE u \in Units(asked) : e \in u
<1>1. asked \in SUBSET Active /\ asked \in SUBSET Entries
    BY DEF Active
<1>2. entry' = [e \in Entries |-> IF e \in asked THEN [entry[e] EXCEPT !.request = Unit(e)] ELSE entry[e]]
    BY DEF RequestInitiative
<1>3. requests' = requests \cup
         {[unit |-> u, session |-> session.no, status |-> "pending", total |-> None] : u \in Units(asked)}
    BY DEF RequestInitiative
<1>4. \A e \in asked : entry[e].request = {} /\ entry[e].total = None
    OBVIOUS
<1> HIDE DEF asked
<1>5. ASSUME NEW e \in asked PROVE Unit(e) \in Units(asked) /\ e \in Unit(e) /\ Unit(e) \in SUBSET Entries
  <2>1. \E u \in Units(asked) : e \in u
      BY <1>1, UnitsAre
  <2>2. Unit(e) \in Units(asked) /\ e \in Unit(e)
      BY <2>1
  <2> QED
      BY <1>1, <2>2, UnitsAre
<1>6. \A e \in Entries : entry[e] \in EntryRows
    BY DEF TypeOK
<1> HIDE DEF Unit
<1>7. ASSUME NEW e \in Entries
      PROVE  /\ entry'[e] \in EntryRows
             /\ entry'[e].status = entry[e].status /\ entry'[e].order = entry[e].order
             /\ entry'[e].total = entry[e].total
             /\ SameBudget(entry'[e], entry[e]) /\ SamePausing(entry'[e], entry[e])
             /\ e \in asked => entry'[e].request \in Units(asked) /\ e \in entry'[e].request
             /\ e \notin asked => entry'[e].request = entry[e].request
  <2>1. CASE e \in asked
    <3>1. entry'[e] = [entry[e] EXCEPT !.request = Unit(e)] /\ Unit(e) \in SUBSET Entries
        BY <1>2, <1>5, <2>1
    <3> QED
        BY <1>5, <1>6, <2>1, <3>1, WithRequestIs
  <2>2. CASE e \notin asked
      BY <1>2, <1>6, <2>2 DEF SameBudget, SamePausing
  <2> QED
      BY <2>1, <2>2
<1>8. entry' \in [Entries -> EntryRows]
    BY <1>2, <1>7
<1> QED
    BY <1>1, <1>3, <1>4, <1>7, <1>8

LEMMA CompleteInitiativeDoes ==
    ASSUME TypeOK, NEW r \in requests, NEW total \in Totals, CompleteInitiative(r, total)
    PROVE  /\ entry' \in [Entries -> EntryRows]
           /\ \A e \in Entries :
                 /\ entry'[e].status = entry[e].status /\ entry'[e].order = entry[e].order
                 /\ entry'[e].request = entry[e].request
                 /\ SameBudget(entry'[e], entry[e]) /\ SamePausing(entry'[e], entry[e])
                 /\ entry'[e].total = IF entry[e].request = r.unit THEN total ELSE entry[e].total
<1>1. entry' = [e \in Entries |-> IF e \in Bound(r) THEN [entry[e] EXCEPT !.total = total] ELSE entry[e]]
    BY DEF CompleteInitiative
<1>2. \A e \in Entries : entry[e] \in EntryRows /\ (e \in Bound(r) <=> entry[e].request = r.unit)
    BY DEF TypeOK, Bound
<1>3. ASSUME NEW e \in Entries
      PROVE  /\ entry'[e] \in EntryRows
             /\ entry'[e].status = entry[e].status /\ entry'[e].order = entry[e].order
             /\ entry'[e].request = entry[e].request
             /\ SameBudget(entry'[e], entry[e]) /\ SamePausing(entry'[e], entry[e])
             /\ entry'[e].total = IF entry[e].request = r.unit THEN total ELSE entry[e].total
  <2>1. CASE e \in Bound(r)
    <3>1. entry'[e] = [entry[e] EXCEPT !.total = total] /\ entry[e] \in EntryRows
        BY <1>1, <1>2, <2>1
    <3> QED
        BY <1>2, <2>1, <3>1, WithTotalIs
  <2>2. CASE e \notin Bound(r)
      BY <1>1, <1>2, <2>2 DEF SameBudget, SamePausing
  <2> QED
      BY <2>1, <2>2
<1> QED
    BY <1>1, <1>3

LEMMA EndCombatDoes ==
    ASSUME TypeOK, EndCombat
    PROVE  /\ entry' \in [Entries -> EntryRows]
           /\ \A e \in Entries : entry'[e] = Ended(entry[e])
BY EndedIs DEF TypeOK, EndCombat, Ended

LEMMA CommitReorderDoes ==
    ASSUME TypeOK, NEW c \in calls, CommitReorder(c),
           \A e \in Active : \E i \in DOMAIN c.seq : c.seq[i] = e, DOMAIN c.seq \subseteq Nat
    PROVE  /\ entry' \in [Entries -> EntryRows]
           /\ \A e \in Entries :
                 /\ entry'[e].status = entry[e].status /\ entry'[e].request = entry[e].request
                 /\ entry'[e].total = entry[e].total
                 /\ SameBudget(entry'[e], entry[e]) /\ SamePausing(entry'[e], entry[e])
                 /\ e \in Active => entry'[e].order \in DOMAIN c.seq /\ c.seq[entry'[e].order] = e
                 /\ e \notin Active => entry'[e] = entry[e]
<1> DEFINE Place(e) == CHOOSE i \in DOMAIN c.seq : c.seq[i] = e
<1>1. entry' = [e \in Entries |-> IF e \in Active THEN [entry[e] EXCEPT !.order = Place(e)] ELSE entry[e]]
    BY DEF CommitReorder, PlaceInOrder
<1>2. ASSUME NEW e \in Active PROVE Place(e) \in DOMAIN c.seq /\ c.seq[Place(e)] = e /\ Place(e) \in Nat
    OBVIOUS
<1>3. \A e \in Entries : entry[e] \in EntryRows
    BY DEF TypeOK
<1> HIDE DEF Place
<1>4. ASSUME NEW e \in Entries
      PROVE  /\ entry'[e] \in EntryRows
             /\ entry'[e].status = entry[e].status /\ entry'[e].request = entry[e].request
             /\ entry'[e].total = entry[e].total
             /\ SameBudget(entry'[e], entry[e]) /\ SamePausing(entry'[e], entry[e])
             /\ e \in Active => entry'[e].order \in DOMAIN c.seq /\ c.seq[entry'[e].order] = e
             /\ e \notin Active => entry'[e] = entry[e]
  <2>1. CASE e \in Active
    <3>1. entry'[e] = [entry[e] EXCEPT !.order = Place(e)] /\ entry[e] \in EntryRows /\ Place(e) \in Nat
        BY <1>1, <1>2, <1>3, <2>1
    <3> QED
        BY <1>2, <2>1, <3>1, WithOrderIs
  <2>2. CASE e \notin Active
      BY <1>1, <1>3, <2>2 DEF SameBudget, SamePausing
  <2> QED
      BY <2>1, <2>2
<1> QED
    BY <1>1, <1>4

LEMMA CommitFinalizeDoes ==
    ASSUME TypeOK, NEW c \in calls, CommitFinalize(c),
           \A e \in Active : \E i \in DOMAIN c.seq : c.seq[i] = e, DOMAIN c.seq \subseteq Nat
    PROVE  /\ entry' \in [Entries -> EntryRows]
           /\ \A e \in Entries :
                 /\ entry'[e].status = entry[e].status /\ entry'[e].request = entry[e].request
                 /\ entry'[e].total = entry[e].total
                 /\ e \in Active =>
                       /\ entry'[e].action /\ entry'[e].attacks = 0
                       /\ entry'[e].window = None /\ entry'[e].pending = None
                       /\ entry'[e].order \in DOMAIN c.seq /\ c.seq[entry'[e].order] = e
                 /\ e \notin Active => entry'[e] = entry[e]
<1> DEFINE Place(e) == CHOOSE i \in DOMAIN c.seq : c.seq[i] = e
           Placed(e) == [entry[e] EXCEPT !.order = Place(e)]
<1>1. entry' = [e \in Entries |-> IF e \in Active THEN Refreshed(Placed(e)) ELSE entry[e]]
    BY DEF CommitFinalize, PlaceInOrder
<1>2. ASSUME NEW e \in Active PROVE Place(e) \in DOMAIN c.seq /\ c.seq[Place(e)] = e /\ Place(e) \in Nat
    OBVIOUS
<1>3. \A e \in Entries : entry[e] \in EntryRows
    BY DEF TypeOK
<1> HIDE DEF Place
<1>4. ASSUME NEW e \in Entries
      PROVE  /\ entry'[e] \in EntryRows
             /\ entry'[e].status = entry[e].status /\ entry'[e].request = entry[e].request
             /\ entry'[e].total = entry[e].total
             /\ e \in Active =>
                   /\ entry'[e].action /\ entry'[e].attacks = 0
                   /\ entry'[e].window = None /\ entry'[e].pending = None
                   /\ entry'[e].order \in DOMAIN c.seq /\ c.seq[entry'[e].order] = e
             /\ e \notin Active => entry'[e] = entry[e]
  <2>1. CASE e \in Active
    <3>1. entry'[e] = Refreshed(Placed(e)) /\ entry[e] \in EntryRows /\ Place(e) \in Nat
        BY <1>1, <1>2, <1>3, <2>1
    <3>2. /\ Placed(e) \in EntryRows /\ Placed(e).status = entry[e].status /\ Placed(e).order = Place(e)
          /\ Placed(e).request = entry[e].request /\ Placed(e).total = entry[e].total
        BY <3>1, WithOrderIs
    <3> HIDE DEF Placed
    <3> QED
        BY <1>2, <2>1, <3>1, <3>2, RefreshedIs DEF SameRoll
  <2>2. CASE e \notin Active
      BY <1>1, <1>3, <2>2
  <2> QED
      BY <2>1, <2>2
<1> QED
    BY <1>1, <1>4

LEMMA AdvanceTurnDoes ==
    ASSUME TypeOK, AdvanceTurn, combat.turn \in Entries, NextInOrder(combat.turn) \in Entries
    PROVE  LET next == NextInOrder(combat.turn) IN
           /\ entry' \in [Entries -> EntryRows]
           /\ \A e \in Entries : SameRoll(entry'[e], entry[e])
           /\ \A e \in Entries \ {next} : SameBudget(entry'[e], entry[e]) /\ SamePausing(entry'[e], entry[e])
           /\ entry'[next].action /\ entry'[next].attacks = 0
           /\ entry'[next].window = None /\ entry'[next].pending = None
<1> DEFINE now == combat.turn
           next == NextInOrder(combat.turn)
           awake == IF entry[now].surprised
                    THEN [entry EXCEPT ![now].surprised = FALSE, ![now].reaction = TRUE] ELSE entry
<1>1. entry' = [awake EXCEPT ![next] = Refreshed(awake[next])] /\ now \in Entries /\ next \in Entries
    BY DEF AdvanceTurn
<1>2. entry \in [Entries -> EntryRows]
    BY DEF TypeOK
<1> HIDE DEF now, next
<1>3. /\ awake \in [Entries -> EntryRows]
      /\ \A e \in Entries : /\ SameRoll(awake[e], entry[e]) /\ SameBudget(awake[e], entry[e])
                            /\ SamePausing(awake[e], entry[e])
  <2>1. CASE entry[now].surprised
    <3> DEFINE row == [entry[now] EXCEPT !.surprised = FALSE, !.reaction = TRUE]
    <3>1. awake = [entry EXCEPT ![now] = row]
        BY <1>1, <1>2, <2>1 DEF EntryRows
    <3>2. row \in EntryRows /\ SameRoll(row, entry[now]) /\ SameBudget(row, entry[now]) /\ SamePausing(row, entry[now])
        BY <1>1, <1>2, AwakeIs
    <3> HIDE DEF row, awake
    <3>3. awake \in [Entries -> EntryRows]
        BY <1>1, <1>2, <3>1, <3>2
    <3>4. ASSUME NEW e \in Entries
          PROVE  SameRoll(awake[e], entry[e]) /\ SameBudget(awake[e], entry[e]) /\ SamePausing(awake[e], entry[e])
      <4>1. CASE e = now
          BY <1>1, <1>2, <3>1, <3>2, <4>1
      <4>2. CASE e # now
          BY <1>1, <1>2, <3>1, <4>2 DEF SameRoll, SameBudget, SamePausing
      <4> QED
          BY <4>1, <4>2
    <3> QED
        BY <3>3, <3>4
  <2>2. CASE ~entry[now].surprised
      BY <1>2, <2>2 DEF SameRoll, SameBudget, SamePausing
  <2> QED
      BY <2>1, <2>2
<1> HIDE DEF awake
<1>4. /\ Refreshed(awake[next]) \in EntryRows /\ SameRoll(Refreshed(awake[next]), entry[next])
      /\ Refreshed(awake[next]).action /\ Refreshed(awake[next]).attacks = 0
      /\ Refreshed(awake[next]).window = None /\ Refreshed(awake[next]).pending = None
    BY <1>1, <1>3, RefreshedIs DEF SameRoll
<1>5. entry' \in [Entries -> EntryRows] /\ entry'[next] = Refreshed(awake[next])
    BY <1>1, <1>3, <1>4
<1>6. \A e \in Entries \ {next} : entry'[e] = awake[e]
    BY <1>1, <1>3
<1> QED
    BY <1>3, <1>4, <1>5, <1>6 DEF next

LEMMA WithWindowIs ==
    ASSUME NEW row \in EntryRows, NEW w \in Windows \cup {None}
    PROVE  LET new == [row EXCEPT !.window = w] IN
           /\ new \in EntryRows /\ SameRoll(new, row) /\ SameBudget(new, row)
           /\ new.window = w /\ new.pending = row.pending
BY DEF EntryRows, SameRoll, SameBudget

LEMMA WithPendingIs ==
    ASSUME NEW row \in EntryRows, NEW p \in Pauses \cup {None}
    PROVE  LET new == [row EXCEPT !.pending = p] IN
           /\ new \in EntryRows /\ SameRoll(new, row) /\ SameBudget(new, row)
           /\ new.window = row.window /\ new.pending = p
BY DEF EntryRows, SameRoll, SameBudget

LEMMA WithReactionIs ==
    ASSUME NEW row \in EntryRows, NEW b \in BOOLEAN
    PROVE  LET new == [row EXCEPT !.reaction = b] IN
           new \in EntryRows /\ SameRoll(new, row) /\ SameBudget(new, row) /\ SamePausing(new, row)
BY DEF EntryRows, SameRoll, SameBudget, SamePausing

\* the mover's pause once an answer is in
AnsweredBy(new, old, id, accept) ==
    /\ new \in Pauses /\ new.pause = old.pause /\ new.asked = old.asked
    /\ new.windows = old.windows \ {id} /\ new.revision = old.revision + 1
    /\ new.yes = IF accept THEN old.yes \cup {id} ELSE old.yes

Waits(o, owner) ==
    LET window == entry[owner].window IN
    /\ window.kind = "opportunity_attack" /\ window.mover = o
    /\ entry[o].pending # None /\ <<owner, window.pause>> \in entry[o].pending.windows

LEMMA AnsweredByIs ==
    ASSUME NEW old \in Pauses, NEW id \in WindowIds, NEW accept \in BOOLEAN
    PROVE  AnsweredBy(Informed(old, id, accept), old, id, accept)
<1> PICK windows \in SUBSET WindowIds : windows = old.windows \ {id}
    BY DEF Pauses
<1> PICK yes \in SUBSET WindowIds : yes = IF accept THEN old.yes \cup {id} ELSE old.yes
    BY DEF Pauses
<1> PICK n \in Nat : n = old.revision + 1
    BY DEF Pauses
<1> DEFINE new == [old EXCEPT !.windows = windows, !.yes = yes, !.revision = n]
<1>1. /\ new \in Pauses /\ new.pause = old.pause /\ new.asked = old.asked
      /\ new.windows = windows /\ new.yes = yes /\ new.revision = n
    BY DEF Pauses
<1>2. Informed(old, id, accept) = new
    BY DEF Pauses, Informed
<1> HIDE DEF new
<1> QED
    BY <1>1, <1>2 DEF AnsweredBy

LEMMA AnswerWindowDoes ==
    ASSUME TypeOK, NEW owner \in Entries, NEW e \in Entries, NEW accept \in BOOLEAN,
           AnswerWindow(owner, e, accept)
    PROVE  LET id == <<owner, entry[owner].window.pause>> IN
           /\ entry' \in [Entries -> EntryRows]
           /\ \A o \in Entries :
                 /\ SameRoll(entry'[o], entry[o]) /\ SameBudget(entry'[o], entry[o])
                 /\ entry'[o].window = IF o = owner THEN None ELSE entry[o].window
                 /\ IF Waits(o, owner) THEN AnsweredBy(entry'[o].pending, entry[o].pending, id, accept)
                    ELSE entry'[o].pending = entry[o].pending
           /\ id \in WindowIds
<1> DEFINE window == entry[owner].window
           id == <<owner, window.pause>>
           mover == window.mover
           waits == /\ window.kind = "opportunity_attack"
                    /\ entry[mover].pending # None
                    /\ id \in entry[mover].pending.windows
           first == [entry EXCEPT ![owner] = [entry[owner] EXCEPT !.window = None]]
<1>1. entry \in [Entries -> EntryRows]
    BY DEF TypeOK
<1>2. window \in Windows
    BY <1>1 DEF AnswerWindow, EntryRows
<1>3. id \in WindowIds
    BY <1>2 DEF Windows, WindowIds
<1>4. waits => mover \in Entries /\ entry[mover].pending \in Pauses
    BY <1>1, <1>2 DEF Windows, EntryRows
<1>5. /\ first \in [Entries -> EntryRows]
      /\ \A o \in Entries : /\ SameRoll(first[o], entry[o]) /\ SameBudget(first[o], entry[o])
                            /\ first[o].window = IF o = owner THEN None ELSE entry[o].window
                            /\ first[o].pending = entry[o].pending
    BY <1>1, WithWindowIs DEF SameRoll, SameBudget
<1> PICK reaction \in BOOLEAN : reaction = (entry[e].reaction /\ ~accept)
    OBVIOUS
<1> DEFINE answered == [first EXCEPT ![e] = [first[e] EXCEPT !.reaction = reaction]]
<1>6. [entry EXCEPT ![owner].window = None, ![e].reaction = @ /\ ~accept] = answered
  <2>1. first[e].reaction = entry[e].reaction
      BY <1>1 DEF EntryRows
  <2> QED
      BY <1>1, <2>1
<1> HIDE DEF first
<1>7. /\ answered \in [Entries -> EntryRows]
      /\ \A o \in Entries : /\ SameRoll(answered[o], entry[o]) /\ SameBudget(answered[o], entry[o])
                            /\ answered[o].window = IF o = owner THEN None ELSE entry[o].window
                            /\ answered[o].pending = entry[o].pending
  <2> DEFINE row == [first[e] EXCEPT !.reaction = reaction]
  <2>1. row \in EntryRows /\ SameRoll(row, first[e]) /\ SameBudget(row, first[e]) /\ SamePausing(row, first[e])
      BY <1>5, WithReactionIs
  <2> HIDE DEF row
  <2>2. answered \in [Entries -> EntryRows] /\ answered[e] = row /\ \A o \in Entries \ {e} : answered[o] = first[o]
      BY <1>5, <2>1 DEF row
  <2> QED
      BY <1>5, <2>1, <2>2 DEF SameRoll, SameBudget, SamePausing
<1> DEFINE After1 == [entry EXCEPT ![owner].window = None, ![e].reaction = @ /\ ~accept]
<1>11. entry' = IF ~waits THEN After1
                ELSE [After1 EXCEPT ![mover].pending = Informed(entry[mover].pending, id, accept)]
    BY DEF AnswerWindow
<1>12. After1 = answered
    BY <1>6
<1> HIDE DEF After1
<1>8. entry' = IF ~waits THEN answered
               ELSE [answered EXCEPT ![mover].pending = Informed(entry[mover].pending, id, accept)]
    BY <1>11, <1>12, Zenon
<1> HIDE DEF answered
<1>9. CASE ~waits
  <2>1. entry' = answered
      BY <1>8, <1>9
  <2>2. \A o \in Entries : ~Waits(o, owner)
      BY <1>9 DEF Waits
  <2> QED
      BY <1>3, <1>7, <2>1, <2>2
<1>10. CASE waits
  <2> DEFINE old == entry[mover].pending
             new == Informed(entry[mover].pending, id, accept)
             row == [answered[mover] EXCEPT !.pending = new]
  <2>1. old \in Pauses /\ mover \in Entries /\ answered[mover].pending = old /\ answered[mover] \in EntryRows
      BY <1>4, <1>7, <1>10
  <2>2. AnsweredBy(new, old, id, accept)
      BY <1>3, <2>1, AnsweredByIs
  <2>3. entry' = [answered EXCEPT ![mover] = row]
      BY <1>7, <1>8, <1>10, <2>1
  <2> HIDE DEF new
  <2>4. row \in EntryRows /\ SameRoll(row, answered[mover]) /\ SameBudget(row, answered[mover])
        /\ row.window = answered[mover].window /\ row.pending = new
      BY <2>1, <2>2, WithPendingIs DEF AnsweredBy
  <2> HIDE DEF row
  <2>5. /\ entry' \in [Entries -> EntryRows] /\ entry'[mover] = row
        /\ \A o \in Entries \ {mover} : entry'[o] = answered[o]
      BY <1>7, <2>1, <2>3, <2>4
  <2>6. \A o \in Entries : Waits(o, owner) <=> o = mover
      BY <1>10 DEF Waits
  <2> HIDE DEF waits, mover, id
  <2> QED
      BY <1>3, <1>7, <2>1, <2>2, <2>4, <2>5, <2>6 DEF SameRoll, SameBudget, id
<1> QED
    BY <1>9, <1>10

LEMMA CommitMoveDoes ==
    ASSUME TypeOK, NEW c \in MoveCalls, CommitMove(c), c.reactors # {} => c.pending \in Pauses
    PROVE  /\ entry' \in [Entries -> EntryRows]
           /\ \A o \in Entries :
                 /\ SameRoll(entry'[o], entry[o]) /\ SameBudget(entry'[o], entry[o])
                 /\ entry'[o].window = IF o \in c.reactors THEN OpportunityWindow(c) ELSE entry[o].window
                 /\ o # c.entry => entry'[o].pending = entry[o].pending
           /\ entry'[c.entry].pending =
                 IF c.kind = "confirm" /\ c.pending = None THEN entry[c.entry].pending ELSE c.pending
<1> DEFINE next == IF c.kind = "confirm" /\ c.pending = None THEN entry[c.entry].pending ELSE c.pending
           row == [entry[c.entry] EXCEPT !.used = c.used, !.budget = c.budget, !.pending = next]
           moved == [entry EXCEPT ![c.entry] = row]
<1>1. entry \in [Entries -> EntryRows]
    BY DEF TypeOK
<1>2. c.entry \in Entries /\ c.used \in Nat /\ c.budget \in Nat /\ c.reactors \in SUBSET Entries
    BY DEF MoveCalls
<1>3. next \in Pauses \cup {None}
    BY <1>1, <1>2 DEF MoveCalls, EntryRows
<1> PICK used \in Nat : used = c.used
    BY <1>2
<1> PICK budget \in Nat : budget = c.budget
    BY <1>2
<1> PICK pending \in Pauses \cup {None} : pending = next
    BY <1>3
<1>4. entry' = [o \in Entries |-> IF o \in c.reactors THEN [moved[o] EXCEPT !.window = OpportunityWindow(c)] ELSE moved[o]]
    BY <1>1, <1>2 DEF CommitMove, EntryRows
<1>10. row = [entry[c.entry] EXCEPT !.used = used, !.budget = budget, !.pending = pending]
    OBVIOUS
<1> HIDE DEF next, row
<1>5. /\ row \in EntryRows /\ SameRoll(row, entry[c.entry]) /\ SameBudget(row, entry[c.entry])
      /\ row.window = entry[c.entry].window /\ row.pending = next
  <2>1. entry[c.entry] \in EntryRows
      BY <1>1, <1>2
  <2> QED
      BY <1>10, <2>1 DEF EntryRows, SameRoll, SameBudget
<1>6. /\ moved \in [Entries -> EntryRows] /\ moved[c.entry] = row
      /\ \A o \in Entries \ {c.entry} : moved[o] = entry[o]
    BY <1>1, <1>2, <1>5
<1> HIDE DEF moved
<1>7. /\ moved \in [Entries -> EntryRows]
      /\ \A o \in Entries : /\ SameRoll(moved[o], entry[o]) /\ SameBudget(moved[o], entry[o])
                            /\ moved[o].window = entry[o].window
                            /\ moved[o].pending = IF o = c.entry THEN next ELSE entry[o].pending
    BY <1>5, <1>6 DEF SameRoll, SameBudget
<1>8. c.reactors # {} => OpportunityWindow(c) \in Windows
    BY <1>2 DEF OpportunityWindow, Windows, Pauses
<1>9. ASSUME NEW o \in Entries
      PROVE  /\ entry'[o] \in EntryRows
             /\ SameRoll(entry'[o], entry[o]) /\ SameBudget(entry'[o], entry[o])
             /\ entry'[o].window = IF o \in c.reactors THEN OpportunityWindow(c) ELSE entry[o].window
             /\ entry'[o].pending = IF o = c.entry THEN next ELSE entry[o].pending
  <2>1. CASE o \in c.reactors
    <3>1. entry'[o] = [moved[o] EXCEPT !.window = OpportunityWindow(c)] /\ OpportunityWindow(c) \in Windows \cup {None}
        BY <1>4, <1>8, <2>1
    <3>2. moved[o] \in EntryRows
        BY <1>7
    <3>3. /\ entry'[o] \in EntryRows /\ SameRoll(entry'[o], moved[o]) /\ SameBudget(entry'[o], moved[o])
          /\ entry'[o].window = OpportunityWindow(c) /\ entry'[o].pending = moved[o].pending
        BY <3>1, <3>2, WithWindowIs
    <3> QED
        BY <1>7, <2>1, <3>3 DEF SameRoll, SameBudget
  <2>2. CASE o \notin c.reactors
      BY <1>4, <1>7, <2>2
  <2> QED
      BY <2>1, <2>2
<1> QED
    BY <1>2, <1>4, <1>9 DEF next

-----------------------------------------------------------------------------
(* What a planned call remembers. *)

Below == {pair \in Nat \X Nat : pair[1] < pair[2]}

LEMMA LeastIs ==
    ASSUME NEW S \in SUBSET Nat, S # {}
    PROVE  Least(S) \in S /\ \A j \in S : Least(S) <= j
<1>1. IsWellFoundedOn(Below, Nat)
    BY NatLessThanWellFounded DEF OpToRel, Below
<1>2. PICK i \in S : \A j \in S : <<j, i>> \notin Below
    BY <1>1, WFMin
<1>3. ASSUME NEW j \in S PROVE i <= j
  <2>1. ~(j < i)
      BY <1>2 DEF Below
  <2> QED
      BY <2>1
<1> QED
    BY <1>3 DEF Least

\* the first of some combatants of the order
LEMMA FirstIs ==
    ASSUME TypeOK, NEW S \in SUBSET Ordered, S # {}
    PROVE  First(S) \in S /\ \A o \in S : entry[First(S)].order <= entry[o].order
<1> DEFINE Places == {entry[e].order : e \in S}
<1>1. \A e \in S : entry[e].order \in Nat
    BY DEF Ordered, Active, TypeOK, EntryRows
<1>2. Places \in SUBSET Nat /\ Places # {}
    BY <1>1
<1>3. Least(Places) \in Places /\ \A j \in Places : Least(Places) <= j
    BY <1>2, LeastIs
<1>4. \E e \in S : \A o \in S : entry[e].order <= entry[o].order
    BY <1>3
<1> QED
    BY <1>4 DEF First

LEMMA CostIs ==
    ASSUME NEW p \in Seq(Cells), NEW e
    PROVE  Len(p) >= 2 => Cost(p, e) \in Nat
<1> DEFINE Shared == {i \in 2..Len(p) : On(p[i], e) # {}}
<1>1. IsFiniteSet(2..Len(p))
    BY FS_Interval
<1>2. Cardinality(Shared) \in Nat
    BY <1>1, FS_Subset, FS_CardinalityType
<1> QED
    BY <1>2 DEF Cost

LEMMA FeetIs ==
    ASSUME NEW p \in Seq(Cells), NEW e, NEW left
    PROVE  Feet(p, e, left) \in Nat
BY CostIs DEF Feet, LegalPath

LEMMA RestIs ==
    ASSUME NEW p \in Paths, NEW from \in Nat \ {0}
    PROVE  /\ Rest(p, from) \in Seq(Cells)
           /\ \A n \in 1..Len(Rest(p, from)) :
                 LET walk == SubSeq(Rest(p, from), 1, n) IN
                 walk \in Seq(Cells) /\ Len(walk) = n /\ \A i \in 1..n : walk[i] = Rest(p, from)[i]
<1>1. p \in Seq(Cells)
    BY CombatAssumption
<1>2. Rest(p, from) \in Seq(Cells)
  <2>1. \A i \in from..Len(p) : p[i] \in Cells
      BY <1>1
  <2> QED
      BY <1>1, <2>1, SubSeqProperties DEF Rest
<1>3. ASSUME NEW n \in 1..Len(Rest(p, from))
      PROVE  LET walk == SubSeq(Rest(p, from), 1, n) IN
             walk \in Seq(Cells) /\ Len(walk) = n /\ \A i \in 1..n : walk[i] = Rest(p, from)[i]
  <2> DEFINE rest == Rest(p, from)
  <2>1. rest \in Seq(Cells) /\ n \in Int /\ n >= 1 /\ n <= Len(rest)
      BY <1>2
  <2> HIDE DEF rest
  <2>2. \A i \in 1..n : rest[i] \in Cells
      BY <2>1
  <2>3. /\ SubSeq(rest, 1, n) \in Seq(Cells) /\ Len(SubSeq(rest, 1, n)) = n
        /\ \A i \in 1..n : SubSeq(rest, 1, n)[i] = rest[i]
      BY <2>1, <2>2, SubSeqProperties
  <2> QED
      BY <2>3 DEF rest
<1> QED
    BY <1>2, <1>3

\* what is remembered of a planned movement
CallFor(c, kind, e, dm, pendingRev) ==
    /\ c \in MoveCalls /\ c.kind = kind /\ c.entry = e /\ c.dm = dm /\ c.session = session.no
    /\ c.tokenRev = token[e].rev /\ c.boardRev = board.rev /\ c.pendingRev = pendingRev
    /\ c.walk # << >> /\ c.walk[1] = token[e].at

LEMMA MoveCallIs ==
    ASSUME TypeOK, NEW kind \in {"confirm", "resume", "stop"}, NEW e \in Entries, NEW dm \in BOOLEAN,
           NEW pendingRev \in Nat, NEW walk \in Seq(Cells), NEW used \in Nat, NEW budget \in Nat,
           NEW reactors \in SUBSET Entries, NEW pending \in Pauses \cup {None},
           walk # << >>, walk[1] = token[e].at,
           NEW c, c = MoveCall(kind, e, dm, pendingRev, walk, used, budget, reactors, pending)
    PROVE  /\ CallFor(c, kind, e, dm, pendingRev)
           /\ c.walk = walk /\ c.reactors = reactors /\ c.pending = pending
<1> PICK no \in Nat : no = session.no
    BY DEF TypeOK, Sessions
<1> PICK tokenRev \in Nat : tokenRev = token[e].rev
    BY DEF TypeOK, Tokens
<1> PICK boardRev \in Nat : boardRev = board.rev
    BY DEF TypeOK, Boards
<1>1. c = [kind |-> kind, session |-> no, entry |-> e, dm |-> dm, tokenRev |-> tokenRev, boardRev |-> boardRev,
          pendingRev |-> pendingRev, walk |-> walk, used |-> used, budget |-> budget, reactors |-> reactors,
          pending |-> pending]
    BY DEF MoveCall
<1> QED
    BY <1>1 DEF CallFor, MoveCalls

LEMMA PlanIs ==
    ASSUME TypeOK, NEW kind \in {"confirm", "resume"}, NEW e \in Entries, NEW dm \in BOOLEAN,
           NEW pendingRev \in Nat, NEW p \in Paths, NEW from \in Nat \ {0}, NEW budget \in Nat,
           NEW used \in Nat, NEW asked \in SUBSET Entries,
           Len(Rest(p, from)) >= 2, Rest(p, from)[1] = token[e].at, PathFits(Rest(p, from), e),
           NEW plan, plan = Plan(kind, e, dm, pendingRev, p, from, budget, used, asked)
    PROVE  CallFor(plan, kind, e, dm, pendingRev) /\ Planned(plan) /\ WayIsFree(plan)
<1> DEFINE rest == Rest(p, from)
           left == Remaining(budget, used)
           stops == Crossings(rest, e, asked)
           last == Least(stops)
           walk == IF stops = {} THEN rest ELSE SubSeq(rest, 1, last)
           feet == used + Feet(walk, e, left)
           reactors == IF stops = {} THEN {} ELSE LeftAt(rest, e, last) \ asked
           pending == IF stops = {} THEN None ELSE Pause(p, from + last - 1, feet, asked, reactors)
           c == MoveCall(kind, e, dm, pendingRev, walk, feet, budget, reactors, pending)
<1>1. rest \in Seq(Cells) /\ Len(rest) >= 2 /\ rest[1] = token[e].at /\ PathFits(rest, e)
    BY RestIs
<1>2. stops # {} => last \in 1..(Len(rest) - 1)
  <2>1. stops \in SUBSET (1..(Len(rest) - 1))
      BY DEF Crossings
  <2> QED
      BY <1>1, <2>1, LeastIs
<1>3. stops # {} => walk \in Seq(Cells) /\ Len(walk) = last /\ \A i \in 1..last : walk[i] = rest[i]
    BY <1>1, <1>2, RestIs
<1>4. stops = {} => walk = rest /\ pending = None /\ reactors = {}
    OBVIOUS
<1>5. reactors \in SUBSET Entries
    BY DEF LeftAt, Reactors, Active
<1>11. plan = c
    BY DEF Plan
<1> HIDE DEF rest, left
<1>6. walk \in Seq(Cells) /\ walk # << >> /\ walk[1] = token[e].at
    BY <1>1, <1>2, <1>3, <1>4
<1>7. feet \in Nat
  <2> HIDE DEF walk
  <2>1. Feet(walk, e, left) \in Nat
      BY <1>6, FeetIs
  <2> QED
      BY <2>1
<1>8. stops # {} =>
        /\ pending \in Pauses /\ pending.pause = board.rev /\ pending.yes = {}
        /\ pending.windows = {<<o, board.rev>> : o \in reactors}
  <2> SUFFICES ASSUME stops # {}
               PROVE  /\ pending \in Pauses /\ pending.pause = board.rev /\ pending.yes = {}
                      /\ pending.windows = {<<o, board.rev>> : o \in reactors}
      OBVIOUS
  <2> PICK index \in Nat \ {0} : index = from + last - 1
      BY <1>2, <1>1
  <2> PICK rev \in Nat : rev = board.rev
      BY DEF TypeOK, Boards
  <2> PICK windows : windows = {<<o, rev>> : o \in reactors}
      OBVIOUS
  <2>2. windows \in SUBSET WindowIds
    <3> HIDE DEF reactors
    <3> QED
        BY <1>5 DEF WindowIds
  <2> PICK all \in SUBSET Entries : all = asked \cup reactors
      BY <1>5
  <2>1. pending = [path |-> p, index |-> index, feet |-> feet, revision |-> 0, pause |-> rev,
                   windows |-> windows, yes |-> {}, asked |-> all]
      BY DEF Pause
  <2> HIDE DEF pending, feet
  <2> QED
      BY <1>7, <2>1, <2>2 DEF Pauses
<1> HIDE DEF last, feet, reactors, pending
<1>9. /\ CallFor(c, kind, e, dm, pendingRev) /\ c.walk = walk /\ c.reactors = reactors /\ c.pending = pending
  <2>1. pending \in Pauses \cup {None}
      BY <1>4, <1>8
  <2>2. kind \in {"confirm", "resume", "stop"}
      OBVIOUS
  <2>3. c = MoveCall(kind, e, dm, pendingRev, walk, feet, budget, reactors, pending)
      OBVIOUS
  <2> HIDE DEF walk, c
  <2> QED
      BY <1>5, <1>6, <1>7, <2>1, <2>2, <2>3, MoveCallIs
<1> HIDE DEF c
<1>10. Planned(c)
    BY <1>4, <1>8, <1>9 DEF Planned, CallFor
<1>12. c.entry = e
    BY <1>9 DEF CallFor
<1>13. ASSUME NEW i \in 2..Len(walk)
       PROVE  /\ Crosses(walk[i-1], walk[i]) => board.door = "open"
              /\ \A o \in On(walk[i], e) \ unseen : ~Hostile(e, o)
  <2>1. i \in 2..Len(rest) /\ walk[i] = rest[i] /\ walk[i-1] = rest[i-1]
    <3>1. CASE stops = {}
        BY <1>4, <3>1
    <3>2. CASE stops # {}
        BY <1>1, <1>2, <1>3, <3>2
    <3> QED
        BY <3>1, <3>2
  <2> QED
      BY <1>1, <2>1 DEF PathFits
<1>14. pending = None => On(walk[Len(walk)], e) \subseteq unseen
  <2>1. stops # {} => pending # None
      BY <1>8, PausesAssumption
  <2> QED
      BY <1>1, <1>4, <2>1 DEF PathFits
<1>15. WayIsFree(c)
    BY <1>9, <1>12, <1>13, <1>14 DEF WayIsFree
<1> QED
    BY <1>9, <1>10, <1>11, <1>15

\* a movement as it is when its planning ends
JustPlanned(c) ==
    /\ c \in MoveCalls /\ c.entry \in Active /\ combat.mode = "tactical"
    /\ c.tokenRev = token[c.entry].rev /\ c.boardRev = board.rev
    /\ c.walk # << >> /\ c.walk[1] = token[c.entry].at
    /\ Planned(c) /\ (c.kind # "stop" => WayIsFree(c))
    /\ c.kind = "resume" =>
          LET was == entry[c.entry].pending IN
          was # None /\ c.pendingRev = was.revision /\ was.windows = {} /\ (was.yes # {} => c.dm)

LEMMA ReadConfirmDoes ==
    ASSUME TypeOK, NEW e \in Active, NEW p \in Paths, ReadConfirm(e, p)
    PROVE  \E c : JustPlanned(c) /\ calls' = calls \cup {c}
<1> DEFINE budget == TurnBudget(e)
           used == entry[e].used
           c == Plan("confirm", e, TRUE, 0, p, 1, budget, used, {})
<1>1. e \in Entries /\ entry[e] \in EntryRows /\ p \in Seq(Cells) /\ combat.mode = "tactical"
    BY CombatAssumption DEF Active, TypeOK, ReadConfirm, InMovement
<1>2. budget \in Nat /\ used \in Nat
    BY <1>1, CombatAssumption DEF TurnBudget, EntryRows
<1>3. Rest(p, 1) = p
    BY <1>1, SubSeqFull DEF Rest
<1>4. Len(p) >= 2 /\ p[1] = token[e].at /\ PathFits(p, e)
    BY DEF ReadConfirm, LegalPath
<1>5. calls' = calls \cup {c}
    BY DEF ReadConfirm, Begin
<1> HIDE DEF budget, used
<1>6. c = Plan("confirm", e, TRUE, 0, p, 1, budget, used, {})
    OBVIOUS
<1> HIDE DEF c
<1>7. CallFor(c, "confirm", e, TRUE, 0) /\ Planned(c) /\ WayIsFree(c)
  <2>1. Len(Rest(p, 1)) >= 2 /\ Rest(p, 1)[1] = token[e].at /\ PathFits(Rest(p, 1), e)
      BY <1>3, <1>4
  <2>2. 0 \in Nat /\ 1 \in Nat \ {0} /\ TRUE \in BOOLEAN /\ {} \in SUBSET Entries
      OBVIOUS
  <2> QED
      BY <1>1, <1>2, <1>6, <2>1, <2>2, PlanIs
<1>8. JustPlanned(c)
    BY <1>1, <1>7 DEF CallFor, JustPlanned
<1> QED
    BY <1>5, <1>8

LEMMA ReadResumeDoes ==
    ASSUME TypeOK, NEW e \in Active, NEW dm \in BOOLEAN, NEW able \in BOOLEAN, ReadResume(e, dm, able)
    PROVE  \E c : JustPlanned(c) /\ calls' = calls \cup {c}
<1> DEFINE row == entry[e]
           was == row.pending
           budget == TurnBudget(e)
           plan == Plan("resume", e, dm, was.revision, was.path, was.index, budget, was.feet, was.asked)
           stop == MoveCall("stop", e, dm, was.revision, <<token[e].at>>, row.used, row.budget, {}, None)
<1>1. e \in Entries /\ row \in EntryRows /\ combat.mode = "tactical" /\ was # None
    BY DEF Active, TypeOK, ReadResume, InMovement
<1>2. was \in Pauses /\ was.windows = {} /\ (was.yes # {} => dm)
    BY <1>1 DEF EntryRows, ReadResume, Answered
<1>3. budget \in Nat /\ row.used \in Nat /\ row.budget \in Nat
    BY <1>1, CombatAssumption DEF TurnBudget, EntryRows
<1>4. token[e].at \in Cells
    BY <1>1 DEF TypeOK, Tokens, ReadResume, InMovement, OnBoard, Off
<1>5. was.revision \in Nat /\ was.path \in Paths /\ was.index \in Nat \ {0} /\ was.feet \in Nat /\ was.asked \in SUBSET Entries
    BY <1>2 DEF Pauses
<1>6. CASE able /\ token[e].at = was.path[was.index]
  <2>1. calls' = calls \cup {plan}
      BY <1>6 DEF ReadResume, Begin
  <2>2. LegalPath(Rest(was.path, was.index), e, Remaining(budget, was.feet))
      BY <1>6 DEF ReadResume
  <2>3. /\ Len(Rest(was.path, was.index)) >= 2 /\ Rest(was.path, was.index)[1] = token[e].at
        /\ PathFits(Rest(was.path, was.index), e)
      BY <2>2 DEF LegalPath
  <2> PICK c : c = plan
      OBVIOUS
  <2>6. c = Plan("resume", e, dm, was.revision, was.path, was.index, budget, was.feet, was.asked)
      OBVIOUS
  <2> HIDE DEF plan, was, row, budget
  <2>4. CallFor(c, "resume", e, dm, was.revision) /\ Planned(c) /\ WayIsFree(c)
      BY <1>1, <1>3, <1>5, <2>3, <2>6, PlanIs
  <2>5. JustPlanned(c)
    <3>1. c.kind = "resume" /\ c.entry = e /\ c.dm = dm /\ c.pendingRev = was.revision
        BY <2>4 DEF CallFor
    <3> QED
        BY <1>1, <1>2, <2>4, <3>1 DEF CallFor, JustPlanned, was, row
  <2> QED
      BY <2>1, <2>5
<1>7. CASE ~(able /\ token[e].at = was.path[was.index])
  <2>1. calls' = calls \cup {stop}
      BY <1>7 DEF ReadResume, Begin
  <2>2. PICK walk \in Seq(Cells) : walk # << >> /\ walk[1] = token[e].at /\ walk = <<token[e].at>>
    <3> PICK x \in Cells : x = token[e].at
        BY <1>4
    <3>1. <<x>> \in Seq(Cells) /\ <<x>> # << >> /\ <<x>>[1] = x
        OBVIOUS
    <3> QED
        BY <3>1
  <2> DEFINE call == MoveCall("stop", e, dm, was.revision, walk, row.used, row.budget, {}, None)
  <2>3. calls' = calls \cup {call}
      BY <2>1, <2>2
  <2>4. CallFor(call, "stop", e, dm, was.revision) /\ call.walk = walk /\ call.reactors = {} /\ call.pending = None
    <3>1. walk \in Seq(Cells) /\ walk # << >> /\ walk[1] = token[e].at
        BY <2>2
    <3>2. {} \in SUBSET Entries /\ None \in Pauses \cup {None} /\ "stop" \in {"confirm", "resume", "stop"}
        OBVIOUS
    <3> HIDE DEF was, row
    <3> QED
        BY <1>1, <1>3, <1>5, <3>1, <3>2, MoveCallIs
  <2>6. JustPlanned(call)
      BY <1>1, <2>4 DEF CallFor, JustPlanned, Planned
  <2> QED
      BY <2>3, <2>6
<1> QED
    BY <1>6, <1>7

NewOrder(c) ==
    /\ c \in OrderCalls /\ Descending(c.seq) /\ Active # {}
    /\ \A i \in DOMAIN c.seq : c.seq[i] \in Active /\ entry[c.seq[i]].total # None
    /\ \A i, j \in DOMAIN c.seq : c.seq[i] = c.seq[j] => i = j

NewPlace(c) == c \in PlaceCalls /\ c.entry \in Active /\ combat.mode = "tactical" /\ c.walk # << >>

LEMMA ReadOrderDoes ==
    ASSUME TypeOK, NEW kind \in {"finalize", "reorder"}, NEW s \in OrderingsOf(Active), ReadOrder(kind, s)
    PROVE  \E c : NewOrder(c) /\ calls' = calls \cup {c}
<1>1. Active \in SUBSET Entries /\ IsFiniteSet(Active)
  <2>1. Active \in SUBSET Entries
      BY DEF Active
  <2> QED
      BY <2>1, EntriesFinite, FS_Subset
<1>2. Cardinality(Active) \in Nat
    BY <1>1, FS_CardinalityType
<1>3. /\ s \in Seq(Entries) /\ \A i \in DOMAIN s : s[i] \in Active
      /\ \A i, j \in DOMAIN s : s[i] = s[j] => i = j
    BY <1>1, <1>2 DEF OrderingsOf
<1>4. (\A e \in Active : entry[e].total # None) /\ Descending(s) /\ Active # {}
    BY DEF ReadOrder, Whole, AllRolled
<1> PICK no \in Nat : no = session.no
    BY DEF TypeOK, Sessions
<1> DEFINE c == [kind |-> kind, session |-> no, seq |-> s]
<1>5. calls' = calls \cup {c}
    BY DEF ReadOrder, Begin
<1>6. c \in OrderCalls /\ c.seq = s
    BY <1>3 DEF OrderCalls
<1> HIDE DEF c
<1> QED
    BY <1>3, <1>4, <1>5, <1>6 DEF NewOrder

LEMMA PlaceCallIs ==
    ASSUME TypeOK, NEW kind \in {"place", "reposition"}, NEW e \in Active, NEW x \in Cells, combat.mode = "tactical"
    PROVE  NewPlace(PlaceCall(kind, e, x))
<1>1. e \in Entries
    BY DEF Active
<1> PICK no \in Nat : no = session.no
    BY DEF TypeOK, Sessions
<1> PICK rev \in Nat : rev = token[e].rev
    BY <1>1 DEF TypeOK, Tokens
<1> PICK walk : walk = <<x>>
    OBVIOUS
<1>2. walk \in Seq(Cells) /\ walk # << >>
    OBVIOUS
<1>3. PlaceCall(kind, e, x) = [kind |-> kind, session |-> no, entry |-> e, tokenRev |-> rev, walk |-> walk]
    BY DEF PlaceCall
<1> QED
    BY <1>1, <1>2, <1>3 DEF NewPlace, PlaceCalls

-----------------------------------------------------------------------------
(* The steps of HealthNext: what damage, healing, spells and saves do, and *)
(* a Character State written by hand.                                      *)

HandWrite ==
    \E c \in Characters, up, out \in BOOLEAN, pointer \in Holds \cup {None}, marks \in SUBSET Nat :
       WriteState(c, up, out, pointer, marks)

Resolving ==
    \/ \E e \in Active, t \in Active \cup {None}, spell \in Spells \cup {None}, lands, mends \in BOOLEAN, wound \in Wounds :
          Cast(e, t, spell, lands, wound, mends)
    \/ \E t \in Active, wound \in Wounds, critical \in BOOLEAN : ApplyDamage(t, wound, critical)
    \/ \E c \in Characters : ApplyHealing(c)
    \/ \E k \in checks, success \in BOOLEAN : JudgeCheck(k, success)
    \/ \E e \in Active : DropConcentration(e)

LEMMA HealthIs ==
    ASSUME BodiesTypeOK, HealthNext
    PROVE  Resolving \/ HandWrite
<1>1. Pointers \subseteq Holds \cup {None} /\ SUBSET (1..casts) \subseteq SUBSET Nat
    BY DEF Pointers, Holds, BodiesTypeOK
<1>2. ASSUME NEW c \in Characters, NEW up \in BOOLEAN, NEW out \in BOOLEAN, NEW pointer \in Pointers, NEW marks \in SUBSET (1..casts),
             NEW dm \in BOOLEAN, TablePatch(c, dm, up, out, pointer, marks) \/ SheetPatch(c, up, out, pointer, marks)
      PROVE  HandWrite
  <2>1. WriteState(c, up, out, pointer, marks)
      BY <1>2 DEF TablePatch, SheetPatch
  <2> QED
      BY <1>1, <2>1 DEF HandWrite
<1>3. ASSUME NEW c \in Characters, NEW up \in BOOLEAN, NewVersion(c, up) PROVE HandWrite
  <2>1. c \in Entries
      BY DEF Entries
  <2>2. life[c].out \in BOOLEAN /\ concentration[c] \in Holds \cup {None} /\ effects[c] \in SUBSET Nat
      BY <2>1 DEF BodiesTypeOK
  <2>3. WriteState(c, up, life[c].out, concentration[c], effects[c])
      BY <1>3 DEF NewVersion
  <2> QED
      BY <2>2, <2>3 DEF HandWrite
<1>4. TRUE \in BOOLEAN
    OBVIOUS
<1> QED
    BY <1>2, <1>3, <1>4 DEF HealthNext, Resolving

LEMMA WriteLeaves ==
    ASSUME HandWrite
    PROVE  UNCHANGED <<checks, casts, entry>> /\ Untouched
BY DEF HandWrite, WriteState

-----------------------------------------------------------------------------
(* The kinds of steps, as far as the table is concerned. *)

tableVars == <<combat, entry, requests, board, token, calls, acted, unseen, accepted>>
Quiet == UNCHANGED tableVars /\ session' \in Sessions

\* a combatant spends something, or is offered or refused a reaction
Spending ==
    /\ UNCHANGED <<turnVars, calls, boardVars>>
    /\ \E e \in Active, row \in EntryRows :
          /\ Only(e, row) /\ SameRoll(row, entry[e]) /\ row.pending = entry[e].pending
          /\ row.window = entry[e].window \/ (row.window # None => row.window.pause = 0)

Planning ==
    /\ UNCHANGED <<turnVars, entry, boardVars>>
    /\ \E c : (NewOrder(c) \/ JustPlanned(c) \/ NewPlace(c)) /\ calls' = calls \cup {c}

\* a roll is pending as long as it has no total
RollPending(r) == r.status = "pending" <=> r.total = None

Checking ==
    /\ UNCHANGED <<session, combat, entry, acted, calls, boardVars>>
    /\ requests' \in SUBSET Requests
    /\ \A r : r.unit # {} => (r \in requests' <=> r \in requests)
    /\ \A r \in requests' : r \in requests \/ RollPending(r)

StepKinds ==
    \/ Quiet \/ Spending \/ Planning \/ Checking
    \/ \E mode \in {"quick", "tactical"}, monsters \in SUBSET Monsters :
          \E place \in [monsters -> Cells] : StartCombat(mode, monsters, place)
    \/ \E e \in Entries, surprised \in BOOLEAN : AddEntry(e, surprised)
    \/ \E S \in SUBSET Active : RequestInitiative(S)
    \/ \E r \in requests, total \in Totals : CompleteInitiative(r, total)
    \/ \E c \in calls : CommitFinalize(c) \/ CommitReorder(c)
    \/ AdvanceTurn \/ EndCombat
    \/ \E e \in Entries : \E status \in Outcomes(e) : SetEntryStatus(e, status)
    \/ \E c \in calls : CommitMove(c) \/ CommitPlace(c) \/ CommitReposition(c)
    \/ \E e \in Active : CancelPause(e)
    \/ \E state \in {"open", "closed"} : SetDoor(state)
    \/ \E owner, e \in Active, accept \in BOOLEAN : AnswerWindow(owner, e, accept)

LEMMA SessionKinds ==
    ASSUME TypeOK, EndSession \/ \E seated \in SUBSET Characters : StartSession(seated)
    PROVE  Quiet
<1>1. session \in Sessions
    BY DEF TypeOK
<1>2. CASE EndSession
  <2>1. session' = [session EXCEPT !.open = FALSE] /\ UNCHANGED tableVars
      BY <1>2 DEF EndSession, tableVars, boardVars
  <2> QED
      BY <1>1, <2>1 DEF Quiet, Sessions
<1>3. ASSUME NEW seated \in SUBSET Characters, StartSession(seated) PROVE Quiet
  <2> PICK no \in Nat : no = session.no + 1
      BY <1>1 DEF Sessions
  <2>1. session' = [no |-> no, open |-> TRUE, seated |-> seated] /\ UNCHANGED tableVars
      BY <1>3 DEF StartSession, tableVars, boardVars
  <2> QED
      BY <2>1 DEF Quiet, Sessions
<1> QED
    BY <1>2, <1>3

LEMMA CheckKinds ==
    ASSUME TypeOK, RequestCheck \/ \E r \in requests, total \in Totals : CompleteCheck(r, total)
    PROVE  Checking
<1>1. CASE RequestCheck
  <2> PICK no \in Nat : no = session.no
      BY DEF TypeOK, Sessions
  <2> DEFINE new == [unit |-> {}, session |-> no, status |-> "pending", total |-> None]
  <2>1. requests' = requests \cup {new} /\ UNCHANGED <<session, combat, entry, acted, calls, boardVars>>
      BY <1>1 DEF RequestCheck
  <2>2. new \in Requests /\ new.unit = {} /\ RollPending(new)
      BY DEF Requests, RollPending
  <2> HIDE DEF new
  <2> QED
      BY <2>1, <2>2 DEF Checking, TypeOK
<1>2. ASSUME NEW r \in requests, NEW total \in Totals, CompleteCheck(r, total) PROVE Checking
  <2>1. r \in Requests
      BY DEF TypeOK
  <2> DEFINE new == [r EXCEPT !.status = "resolved", !.total = total]
  <2>2. requests' = (requests \ {r}) \cup {new} /\ UNCHANGED <<session, combat, entry, acted, calls, boardVars>> /\ r.unit = {}
      BY <1>2 DEF CompleteCheck, SeenByChecks
  <2>3. total # None
      BY CombatAssumption
  <2>4. new \in Requests /\ new.unit = {} /\ RollPending(new)
      BY <2>1, <2>2, <2>3 DEF Requests, RollPending
  <2> HIDE DEF new
  <2> QED
      BY <2>2, <2>4 DEF Checking, TypeOK
<1> QED
    BY <1>1, <1>2

\* each use of a turn's means spends something of one active combatant
LEMMA SpendingIs ==
    ASSUME NEW e \in Active, NEW row \in EntryRows, UNCHANGED <<turnVars, calls, boardVars>>,
           Only(e, row), SameRoll(row, entry[e]), row.pending = entry[e].pending,
           row.window = entry[e].window \/ (row.window # None => row.window.pause = 0)
    PROVE  Spending
BY DEF Spending

LEMMA UseKinds ==
    ASSUME TypeOK, NEW e \in Entries,
           UseAttack(e) \/ UseBonus(e) \/ UseReaction(e) \/ \E kind \in {"dash", "disengage"} : UseAction(e, kind)
    PROVE  Spending
<1>1. CASE UseAttack(e)
  <2>1. e \in Active /\ UNCHANGED <<turnVars, calls, boardVars>>
      BY <1>1 DEF UseAttack
  <2> QED
      BY <1>1, <2>1, UseAttackDoes, SpendingIs DEF SamePausing
<1>2. CASE UseBonus(e)
  <2>1. e \in Active /\ UNCHANGED <<turnVars, calls, boardVars>>
      BY <1>2 DEF UseBonus
  <2> QED
      BY <1>2, <2>1, UseBonusDoes, SpendingIs DEF SamePausing
<1>3. CASE UseReaction(e)
  <2>1. e \in Active /\ UNCHANGED <<turnVars, calls, boardVars>>
      BY <1>3 DEF UseReaction
  <2> QED
      BY <1>3, <2>1, UseReactionDoes, SpendingIs
<1>4. ASSUME NEW kind \in {"dash", "disengage"}, UseAction(e, kind) PROVE Spending
  <2>1. e \in Active /\ UNCHANGED <<turnVars, calls, boardVars>>
      BY <1>4 DEF UseAction
  <2> QED
      BY <1>4, <2>1, UseActionDoes, SpendingIs DEF SamePausing
<1> QED
    BY <1>1, <1>2, <1>3, <1>4

LEMMA WindowKinds ==
    ASSUME TypeOK, NEW e \in Active,
           \/ \E other \in Active : OpenWindow(e, {e, other})
           \/ \E open \in BOOLEAN : SetWindow(e, open)
    PROVE  Spending
<1>1. e \in Entries
    BY DEF Active
<1>2. ASSUME NEW other \in Active, OpenWindow(e, {e, other}) PROVE Spending
  <2>1. UNCHANGED <<turnVars, calls, boardVars>> /\ {e, other} \in SUBSET Entries
      BY <1>2 DEF OpenWindow, Active
  <2> QED
      BY <1>1, <1>2, <2>1, OpenWindowDoes, SpendingIs
<1>3. ASSUME NEW open \in BOOLEAN, SetWindow(e, open) PROVE Spending
  <2>1. UNCHANGED <<turnVars, calls, boardVars>>
      BY <1>3 DEF SetWindow
  <2> QED
      BY <1>1, <1>3, <2>1, SetWindowDoes, SpendingIs
<1> QED
    BY <1>2, <1>3

\* casting, an escape and an area cost the action
SpendsAction(e) == e \in Active /\ entry' = [entry EXCEPT ![e].action = FALSE] /\ Untouched

LEMMA SpendsActionKind ==
    ASSUME TypeOK, NEW e, SpendsAction(e)
    PROVE  Spending
<1>1. e \in Active /\ e \in Entries /\ UNCHANGED <<turnVars, calls, boardVars>>
    BY DEF SpendsAction, Active, Untouched
<1>2. entry' = [entry EXCEPT ![e].action = FALSE]
    BY DEF SpendsAction
<1> QED
    BY <1>1, <1>2, SpendActionDoes, SpendingIs DEF SamePausing

LEMMA LeavesTable ==
    ASSUME TypeOK, UNCHANGED entry, Untouched
    PROVE  Quiet
BY DEF Untouched, Quiet, tableVars, turnVars, boardVars, TypeOK

LEMMA HealthKinds ==
    ASSUME TypeOK, BodiesTypeOK, HealthNext
    PROVE  Quiet \/ Spending
<1>1. ASSUME NEW e \in Active, NEW t \in Active \cup {None}, NEW spell \in Spells \cup {None},
             NEW lands \in BOOLEAN, NEW mends \in BOOLEAN, NEW wound \in Wounds, Cast(e, t, spell, lands, wound, mends)
      PROVE  Spending
    BY <1>1, SpendsActionKind DEF Cast, SpendsAction
<1>2. ASSUME NEW t \in Active, NEW wound \in Wounds, NEW critical \in BOOLEAN, ApplyDamage(t, wound, critical) PROVE Quiet
    BY <1>2, LeavesTable DEF ApplyDamage
<1>3. ASSUME NEW c \in Characters, ApplyHealing(c) PROVE Quiet
    BY <1>3, LeavesTable DEF ApplyHealing
<1>4. ASSUME NEW k \in checks, NEW success \in BOOLEAN, JudgeCheck(k, success) PROVE Quiet
    BY <1>4, LeavesTable DEF JudgeCheck
<1>5. ASSUME NEW e \in Active, DropConcentration(e) PROVE Quiet
    BY <1>5, LeavesTable DEF DropConcentration
<1>6. CASE HandWrite
  <2>1. UNCHANGED entry /\ Untouched
      BY <1>6, WriteLeaves
  <2> QED
      BY <2>1, LeavesTable
<1> QED
    BY <1>1, <1>2, <1>3, <1>4, <1>5, <1>6, HealthIs DEF Resolving

LEMMA RuleKind ==
    ASSUME TypeOK, BodiesTypeOK, NEW r \in rows, NEW trigger \in BOOLEAN, Rule(r, trigger)
    PROVE  Quiet \/ Spending
<1>1. Untouched
    BY DEF Rule
<1>2. CASE entry' = entry
    BY <1>1, <1>2, LeavesTable
<1>3. CASE entry' # entry
  <2>1. r.by \in Active
      BY <1>3 DEF Rule
  <2>2. UNCHANGED <<turnVars, calls, boardVars>>
      BY <1>1 DEF Untouched
  <2> QED
      BY <1>3, <2>1, <2>2, RuleDoes, SpendingIs
<1> QED
    BY <1>2, <1>3

LEMMA ActionKinds ==
    ASSUME TypeOK, BodiesTypeOK, ActionsNext
    PROVE  Quiet \/ Spending
<1>1. ASSUME NEW e \in Active, NEW t \in Active,
             DeclareAttack(e, t) \/ RequestEscape(e, t)
             \/ (\E kind \in {"attack", "special"} : AskReach(kind, e, t))
             \/ (\E kind \in {"opportunity_attack", "special_adjudication"} : AskRuling(kind, e, t))
      PROVE  Quiet \/ Spending
  <2>1. e \in Entries
      BY DEF Active
  <2>2. CASE DeclareAttack(e, t)
      BY <2>1, <2>2, UseKinds DEF DeclareAttack
  <2>3. CASE RequestEscape(e, t)
      BY <2>3, SpendsActionKind DEF RequestEscape, SpendsAction
  <2>4. ASSUME NEW kind, AskReach(kind, e, t) PROVE Quiet
      BY <2>4, LeavesTable DEF AskReach
  <2>5. ASSUME NEW kind, AskRuling(kind, e, t) PROVE Quiet
      BY <2>5, LeavesTable DEF AskRuling
  <2> QED
      BY <1>1, <2>2, <2>3, <2>4, <2>5
<1>2. ASSUME NEW e, NEW targets, ProposeArea(e, targets) PROVE Quiet
    BY <1>2, LeavesTable DEF ProposeArea
<1>3. ASSUME NEW c, RequestDeathSave(c) PROVE Quiet
    BY <1>3, LeavesTable DEF RequestDeathSave
<1>4. ASSUME NEW r \in rows, NEW answer \in BOOLEAN, RuleReach(r, answer) PROVE Quiet \/ Spending
  <2>1. r.by \in Entries
      BY DEF BodiesTypeOK, ActionRows
  <2>2. CASE answer
      BY <1>4, <2>1, <2>2, UseKinds DEF RuleReach, BudgetNow
  <2>3. CASE ~answer
      BY <1>4, <2>3, LeavesTable DEF RuleReach
  <2> QED
      BY <2>2, <2>3
<1>5. ASSUME NEW r \in rows, NEW wound, NEW critical, CompleteAttack(r, wound, critical) PROVE Quiet
    BY <1>5, LeavesTable DEF CompleteAttack
<1>6. ASSUME NEW r \in rows, CompleteOpposed(r) PROVE Quiet
    BY <1>6, LeavesTable DEF CompleteOpposed
<1>7. ASSUME NEW r \in rows, NEW confirmed, NEW wound, ResolveArea(r, confirmed, wound) PROVE Spending
    BY <1>7, SpendsActionKind DEF ResolveArea, SpendsAction
<1>8. ASSUME NEW r \in rows, NEW roll, CompleteDeathSave(r, roll) PROVE Quiet
    BY <1>8, LeavesTable DEF CompleteDeathSave
<1> QED
    BY <1>1, <1>2, <1>3, <1>4, <1>5, <1>6, <1>7, <1>8, RuleKind DEF ActionsNext

LEMMA MoveKinds ==
    ASSUME TypeOK, NEW e \in Active,
           \/ \E p \in Paths : ReadConfirm(e, p)
           \/ \E dm, able \in BOOLEAN : ReadResume(e, dm, able)
           \/ \E x \in Cells : ReadPlace(e, x) \/ ReadReposition(e, x)
    PROVE  Planning
<1>1. ASSUME NEW p \in Paths, ReadConfirm(e, p) PROVE Planning
  <2>1. UNCHANGED <<turnVars, entry, boardVars>>
      BY <1>1 DEF ReadConfirm
  <2> QED
      BY <1>1, <2>1, ReadConfirmDoes DEF Planning
<1>2. ASSUME NEW dm \in BOOLEAN, NEW able \in BOOLEAN, ReadResume(e, dm, able) PROVE Planning
  <2>1. UNCHANGED <<turnVars, entry, boardVars>>
      BY <1>2 DEF ReadResume
  <2> QED
      BY <1>2, <2>1, ReadResumeDoes DEF Planning
<1>3. ASSUME NEW x \in Cells, ReadPlace(e, x) \/ ReadReposition(e, x) PROVE Planning
  <2>1. UNCHANGED <<turnVars, entry, boardVars>> /\ combat.mode = "tactical"
      BY <1>3 DEF ReadPlace, ReadReposition, InMovement
  <2>2. \E kind \in {"place", "reposition"} : calls' = calls \cup {PlaceCall(kind, e, x)}
      BY <1>3 DEF ReadPlace, ReadReposition, Begin
  <2> QED
      BY <2>1, <2>2, PlaceCallIs DEF Planning
<1> QED
    BY <1>1, <1>2, <1>3

LEMMA OrderKinds ==
    ASSUME TypeOK, NEW kind \in {"finalize", "reorder"}, NEW s \in OrderingsOf(Active), ReadOrder(kind, s)
    PROVE  Planning
<1>1. UNCHANGED <<turnVars, entry, boardVars>>
    BY DEF ReadOrder
<1> QED
    BY <1>1, ReadOrderDoes DEF Planning

LEMMA NextKinds ==
    ASSUME TypeOK, BodiesTypeOK, [Next]_<<vars, healthVars, rows>>
    PROVE  StepKinds
<1>1. CASE UNCHANGED <<vars, healthVars, rows>>
    BY <1>1 DEF vars, StepKinds, Quiet, tableVars, TypeOK
<1>2. CASE Starting
    BY <1>2 DEF Starting, StepKinds
<1>3. CASE OrderNext
    BY <1>3, SessionKinds, CheckKinds, OrderKinds DEF OrderNext, StepKinds
<1>4. CASE TurnsNext
    BY <1>4, UseKinds DEF TurnsNext, StepKinds
<1>5. CASE MovesNext
    BY <1>5, MoveKinds, WindowKinds DEF MovesNext, StepKinds
<1>6. CASE HealthNext
    BY <1>6, HealthKinds DEF StepKinds
<1>7. CASE ActionsNext
    BY <1>7, ActionKinds DEF StepKinds
<1> QED
    BY <1>1, <1>2, <1>3, <1>4, <1>5, <1>6, <1>7 DEF Next

-----------------------------------------------------------------------------
(* What the operations do to the order, the tokens and the board. *)

LEMMA CallKinds ==
    ASSUME TypeOK, NEW c \in calls
    PROVE  /\ Ordering(c) => c \in OrderCalls
           /\ Moving(c) => c \in MoveCalls
           /\ Placing(c) => c \in PlaceCalls
BY DEF TypeOK, Ordering, Moving, Placing, OrderCalls, MoveCalls, PlaceCalls

\* a whole order has a place for every active combatant and for nobody else
LEMMA WholeIs ==
    ASSUME TypeOK, NEW c \in calls, Ordering(c), Whole(c.seq)
    PROVE  /\ \A e \in Active : \E i \in DOMAIN c.seq : c.seq[i] = e
           /\ DOMAIN c.seq \subseteq Nat /\ 1 \in DOMAIN c.seq
           /\ \A i \in DOMAIN c.seq : c.seq[i] \in Active /\ 1 <= i
           /\ \A e \in Active : entry[e].total # None
<1>1. c.seq \in Seq(Entries)
    BY CallKinds DEF OrderCalls
<1>2. DOMAIN c.seq = 1..Len(c.seq) /\ Len(c.seq) \in Nat
    BY <1>1
<1>3. Listed(c.seq) = Active /\ Active # {}
    BY DEF Whole
<1>4. \A e \in Active : \E i \in DOMAIN c.seq : c.seq[i] = e
    BY <1>3 DEF Listed
<1>5. \A i \in DOMAIN c.seq : c.seq[i] \in Active
    BY <1>3 DEF Listed
<1> QED
    BY <1>2, <1>3, <1>4, <1>5 DEF Whole, AllRolled

\* the token of e moves to x, the others stay
Put(e, x) ==
    /\ token'[e].at = x /\ token'[e].rev = token[e].rev + 1
    /\ \A o \in Entries \ {e} : token'[o] = token[o]

LEMMA PutIs ==
    ASSUME token \in Tokens, NEW e \in Entries, NEW x \in Cells,
           token' = [token EXCEPT ![e] = [at |-> x, rev |-> @.rev + 1]]
    PROVE  token' \in Tokens /\ Put(e, x)
<1> PICK n \in Nat : n = token[e].rev + 1
    BY DEF Tokens
<1>1. token' = [token EXCEPT ![e] = [at |-> x, rev |-> n]]
    BY DEF Tokens
<1>2. [at |-> x, rev |-> n] \in [at : Cells \cup {None}, rev : Nat]
    OBVIOUS
<1> QED
    BY <1>1, <1>2 DEF Tokens, Put

LEMMA EndOfWalk ==
    ASSUME NEW walk \in Seq(Cells), walk # << >>
    PROVE  walk[1] \in Cells /\ walk[Len(walk)] \in Cells
OBVIOUS

LEMMA CommitMovePuts ==
    ASSUME TypeOK, CallsName, NEW c \in calls, CommitMove(c)
    PROVE  /\ c \in MoveCalls /\ Moving(c) /\ token' \in Tokens
           /\ IF c.kind = "stop" THEN token' = token ELSE Put(c.entry, c.walk[Len(c.walk)])
           /\ c.walk[Len(c.walk)] \in Cells
<1>1. Moving(c)
    BY DEF CommitMove, Moving
<1>2. c \in MoveCalls /\ c.entry \in Entries /\ c.walk \in Seq(Cells) /\ c.walk # << >>
    BY <1>1, CallKinds DEF MoveCalls, CallsName
<1>3. c.walk[Len(c.walk)] \in Cells
    BY <1>2, EndOfWalk
<1>4. token \in Tokens
    BY DEF TypeOK
<1>5. token' = IF c.kind = "stop" THEN token ELSE [token EXCEPT ![c.entry] = [at |-> c.walk[Len(c.walk)], rev |-> @.rev + 1]]
    BY DEF CommitMove
<1>6. CASE c.kind = "stop"
    BY <1>1, <1>2, <1>3, <1>4, <1>5, <1>6
<1>7. CASE c.kind # "stop"
    BY <1>1, <1>2, <1>3, <1>4, <1>5, <1>7, PutIs
<1> QED
    BY <1>6, <1>7

LEMMA CommitPlacePuts ==
    ASSUME TypeOK, CallsName, NEW c \in calls, CommitPlace(c) \/ CommitReposition(c)
    PROVE  c.entry \in Entries /\ Placing(c) /\ token' \in Tokens /\ Put(c.entry, c.walk[1]) /\ c.walk[1] \in Cells
<1>1. Placing(c)
    BY DEF CommitPlace, CommitReposition, Placing
<1>2. c.entry \in Entries /\ c.walk \in Seq(Cells) /\ c.walk # << >>
    BY <1>1, CallKinds DEF PlaceCalls, CallsName
<1>3. c.walk[1] \in Cells
    BY <1>2, EndOfWalk
<1>4. token \in Tokens
    BY DEF TypeOK
<1>5. token' = [token EXCEPT ![c.entry] = [at |-> c.walk[1], rev |-> @.rev + 1]]
    BY DEF CommitPlace, CommitReposition
<1> QED
    BY <1>1, <1>2, <1>3, <1>4, <1>5, PutIs

Bumped == board' \in Boards /\ board'.rev = board.rev + 1 /\ unseen' = {}

LEMMA BumpIs ==
    ASSUME board \in Boards, BumpBoard
    PROVE  Bumped /\ board'.door = board.door
<1> PICK n \in Nat \ {0} : n = board.rev + 1
    BY DEF Boards
<1>1. board' = [board EXCEPT !.rev = n] /\ unseen' = {}
    BY DEF BumpBoard, Boards
<1> QED
    BY <1>1 DEF Boards, Bumped

LEMMA DoorIs ==
    ASSUME board \in Boards, NEW state \in {"open", "closed"}, SetDoor(state)
    PROVE  Bumped
<1> PICK n \in Nat \ {0} : n = board.rev + 1
    BY DEF Boards
<1>1. board' = [rev |-> n, door |-> state] /\ unseen' = {}
    BY DEF SetDoor
<1> QED
    BY <1>1 DEF Boards, Bumped

LEMMA NextIs ==
    ASSUME TypeOK, combat.turn \in Ordered
    PROVE  LET now == combat.turn
               next == NextInOrder(now) IN
           /\ next \in Ordered
           /\ After(now) = {} => next = First(Ordered) /\ \A o \in Ordered : entry[next].order <= entry[o].order
           /\ After(now) # {} =>
                 /\ next \in After(now) /\ next # First(Ordered)
                 /\ \A o \in After(now) : entry[next].order <= entry[o].order
<1> DEFINE now == combat.turn
           next == NextInOrder(now)
<1>1. \A o \in Ordered : entry[o].order \in Nat
    BY DEF Ordered, Active, TypeOK, EntryRows
<1>2. First(Ordered) \in Ordered /\ \A o \in Ordered : entry[First(Ordered)].order <= entry[o].order
    BY FirstIs
<1>3. CASE After(now) = {}
    BY <1>2, <1>3 DEF NextInOrder
<1>4. CASE After(now) # {}
  <2>1. After(now) \in SUBSET Ordered
      BY DEF After
  <2>2. next = First(After(now))
      BY <1>4 DEF NextInOrder
  <2>3. next \in After(now) /\ \A o \in After(now) : entry[next].order <= entry[o].order
      BY <1>4, <2>1, <2>2, FirstIs
  <2>4. entry[next].order > entry[now].order
      BY <2>3 DEF After
  <2> HIDE DEF next
  <2>5. next # First(Ordered)
      BY <1>1, <1>2, <2>1, <2>3, <2>4
  <2> QED
      BY <1>4, <2>1, <2>3, <2>5 DEF next
<1> QED
    BY <1>3, <1>4

-----------------------------------------------------------------------------
(* Types are kept. *)

LEMMA AdvanceTurnTypes ==
    ASSUME TypeOK, AdvanceTurn
    PROVE  /\ combat' \in Combats /\ entry' \in [Entries -> EntryRows] /\ acted' \in SUBSET Entries
           /\ combat' = [combat EXCEPT !.turn = NextInOrder(combat.turn), !.round = RoundAfter(NextInOrder(combat.turn))]
           /\ combat'.status = combat.status /\ combat'.mode = combat.mode
           /\ combat'.turn = NextInOrder(combat.turn) /\ combat'.round = RoundAfter(NextInOrder(combat.turn))
<1> DEFINE next == NextInOrder(combat.turn)
<1>1. combat.turn \in Ordered /\ combat \in Combats
    BY DEF AdvanceTurn, CanAdvance, TypeOK
<1>2. next \in Entries /\ combat.turn \in Entries
    BY <1>1, NextIs DEF Ordered, Active
<1>3. entry' \in [Entries -> EntryRows]
    BY <1>2, AdvanceTurnDoes
<1> PICK n : n = RoundAfter(next)
    OBVIOUS
<1>4. n \in Nat
    BY <1>1 DEF RoundAfter, Combats
<1>5. combat' = [combat EXCEPT !.turn = next, !.round = n] /\ n = RoundAfter(next)
    BY DEF AdvanceTurn
<1>6. acted' \in SUBSET Entries
    BY <1>2 DEF AdvanceTurn, TypeOK
<1> HIDE DEF next
<1>7. combat' \in Combats /\ combat'.status = combat.status /\ combat'.mode = combat.mode /\ combat'.turn = next /\ combat'.round = n
    BY <1>1, <1>2, <1>4, <1>5 DEF Combats
<1> QED
    BY <1>3, <1>5, <1>6, <1>7 DEF next

TypesKept ==
    /\ session' \in Sessions /\ combat' \in Combats /\ entry' \in [Entries -> EntryRows]
    /\ requests' \in SUBSET Requests /\ board' \in Boards /\ token' \in Tokens
    /\ calls' \in SUBSET (OrderCalls \cup MoveCalls \cup PlaceCalls)
    /\ acted' \in SUBSET Entries /\ unseen' \in SUBSET Entries /\ accepted' \in SUBSET WindowIds

LEMMA StartTypes ==
    ASSUME TypeOK, NEW mode \in {"quick", "tactical"}, NEW monsters \in SUBSET Monsters,
           NEW place \in [monsters -> Cells], StartCombat(mode, monsters, place)
    PROVE  TypesKept
<1>1. combat' = [combat EXCEPT !.mode = mode, !.status = "initiative_pending"] /\ combat \in Combats
    BY DEF StartCombat, TypeOK
<1>2. combat' \in Combats
    BY <1>1 DEF Combats
<1>3. token' \in Tokens
  <2>1. token' = [e \in Entries |-> IF e \in monsters THEN [at |-> place[e], rev |-> 1] ELSE token[e]] /\ token \in Tokens
      BY DEF StartCombat, TypeOK
  <2> QED
      BY <2>1 DEF Tokens
<1> QED
    BY <1>2, <1>3, StartCombatDoes DEF TypesKept, TypeOK, StartCombat

LEMMA RequestTypes ==
    ASSUME TypeOK, NEW S \in SUBSET Active, RequestInitiative(S)
    PROVE  TypesKept
<1> PICK asked \in SUBSET Active :
          /\ entry' \in [Entries -> EntryRows]
          /\ requests' = requests \cup
                {[unit |-> u, session |-> session.no, status |-> "pending", total |-> None] : u \in Units(asked)}
    BY RequestInitiativeDoes
<1>1. asked \in SUBSET Entries
    BY DEF Active
<1> PICK no \in Nat : no = session.no
    BY DEF TypeOK, Sessions
<1>2. \A u \in Units(asked) : [unit |-> u, session |-> no, status |-> "pending", total |-> None] \in Requests
    BY <1>1, UnitsAre DEF Requests
<1>3. requests' \in SUBSET Requests
    BY <1>2 DEF TypeOK
<1> QED
    BY <1>3 DEF TypesKept, TypeOK, RequestInitiative, boardVars

LEMMA ResolvedIs ==
    ASSUME NEW r \in Requests, NEW total \in Totals
    PROVE  LET new == [r EXCEPT !.status = "resolved", !.total = total] IN
           /\ new \in Requests /\ new.unit = r.unit /\ new.session = r.session
           /\ new.status = "resolved" /\ new.total = total /\ RollPending(new)
<1>1. total # None
    BY CombatAssumption
<1> QED
    BY <1>1 DEF Requests, RollPending

LEMMA CompleteTypes ==
    ASSUME TypeOK, NEW r \in requests, NEW total \in Totals, CompleteInitiative(r, total)
    PROVE  TypesKept
<1>1. r \in Requests
    BY DEF TypeOK
<1>2. requests' = (requests \ {r}) \cup {[r EXCEPT !.status = "resolved", !.total = total]}
    BY DEF CompleteInitiative
<1>3. requests' \in SUBSET Requests
    BY <1>1, <1>2, ResolvedIs DEF TypeOK
<1> QED
    BY <1>3, CompleteInitiativeDoes DEF TypesKept, TypeOK, CompleteInitiative, boardVars

LEMMA CommitOrderTypes ==
    ASSUME TypeOK, NEW c \in calls, CommitFinalize(c) \/ CommitReorder(c)
    PROVE  TypesKept
<1>1. Ordering(c) /\ Whole(c.seq)
    BY DEF CommitFinalize, CommitReorder, Ordering
<1>2. entry' \in [Entries -> EntryRows]
    BY <1>1, WholeIs, CommitFinalizeDoes, CommitReorderDoes
<1>3. calls' \in SUBSET (OrderCalls \cup MoveCalls \cup PlaceCalls)
    BY DEF CommitFinalize, CommitReorder, Finish, TypeOK
<1>4. c.seq[1] \in Entries
    BY <1>1, WholeIs DEF Active
<1>5. combat' \in Combats /\ acted' \in SUBSET Entries
  <2>1. CASE CommitFinalize(c)
    <3> PICK first \in Entries : first = c.seq[1]
        BY <1>4
    <3>1. combat' = [combat EXCEPT !.status = "running", !.round = 1, !.turn = first] /\ acted' = {first} /\ combat \in Combats
        BY <2>1 DEF CommitFinalize, TypeOK
    <3> QED
        BY <3>1 DEF Combats
  <2>2. CASE CommitReorder(c)
      BY <2>2 DEF CommitReorder, TypeOK, Active
  <2> QED
      BY <2>1, <2>2
<1> QED
    BY <1>2, <1>3, <1>5 DEF TypesKept, TypeOK, CommitFinalize, CommitReorder, boardVars

LEMMA EndTypes ==
    ASSUME TypeOK, EndCombat
    PROVE  TypesKept
<1>1. combat' = [combat EXCEPT !.status = "ended", !.round = 0, !.turn = None] /\ combat \in Combats
    BY DEF EndCombat, TypeOK
<1>2. combat' \in Combats
    BY <1>1 DEF Combats
<1> QED
    BY <1>2, EndCombatDoes DEF TypesKept, TypeOK, EndCombat, boardVars

LEMMA StatusTypes ==
    ASSUME TypeOK, NEW e \in Entries, NEW status \in Outcomes(e), SetEntryStatus(e, status)
    PROVE  TypesKept
<1>1. entry' \in [Entries -> EntryRows]
    BY SetEntryStatusDoes DEF Only
<1>2. token' \in Tokens
  <2>1. token \in Tokens /\ NoToken \in [at : Cells \cup {None}, rev : Nat]
      BY DEF TypeOK, NoToken, Off
  <2>2. token' = token \/ token' = [token EXCEPT ![e] = NoToken]
      BY DEF SetEntryStatus
  <2> QED
      BY <2>1, <2>2 DEF Tokens
<1> QED
    BY <1>1, <1>2 DEF TypesKept, TypeOK, SetEntryStatus, turnVars

LEMMA PlannedReactors ==
    ASSUME PausesPlanned, NEW c \in calls, Moving(c)
    PROVE  c.reactors # {} => c.pending \in Pauses
BY DEF PausesPlanned, Planned

LEMMA MovementTypes ==
    ASSUME TypeOK, CallsName, PausesPlanned, NEW c \in calls, CommitMove(c) \/ CommitPlace(c) \/ CommitReposition(c)
    PROVE  TypesKept
<1>1. calls' \in SUBSET (OrderCalls \cup MoveCalls \cup PlaceCalls)
    BY DEF CommitMove, CommitPlace, CommitReposition, Finish, TypeOK
<1>2. board \in Boards
    BY DEF TypeOK
<1>3. CASE CommitMove(c)
  <2>1. c \in MoveCalls /\ Moving(c) /\ token' \in Tokens
      BY <1>3, CommitMovePuts
  <2>2. entry' \in [Entries -> EntryRows]
      BY <1>3, <2>1, PlannedReactors, CommitMoveDoes
  <2>3. board' \in Boards /\ unseen' \in SUBSET Entries
      BY <1>2, <1>3, BumpIs DEF CommitMove, Bumped
  <2> QED
      BY <1>1, <1>3, <2>1, <2>2, <2>3 DEF TypesKept, TypeOK, CommitMove, turnVars
<1>4. CASE CommitPlace(c)
  <2>1. token' \in Tokens /\ c.entry \in Entries
      BY <1>4, CommitPlacePuts
  <2> QED
      BY <1>1, <1>4, <2>1 DEF TypesKept, TypeOK, CommitPlace, turnVars
<1>5. CASE CommitReposition(c)
  <2>1. token' \in Tokens
      BY <1>5, CommitPlacePuts
  <2>2. board' \in Boards /\ unseen' \in SUBSET Entries
      BY <1>2, <1>5, BumpIs DEF CommitReposition, Bumped
  <2> QED
      BY <1>1, <1>5, <2>1, <2>2 DEF TypesKept, TypeOK, CommitReposition, turnVars
<1> QED
    BY <1>3, <1>4, <1>5

LEMMA BoardTypes ==
    ASSUME TypeOK,
           \/ \E e \in Active : CancelPause(e)
           \/ \E state \in {"open", "closed"} : SetDoor(state)
           \/ \E owner, e \in Active, accept \in BOOLEAN : AnswerWindow(owner, e, accept)
    PROVE  TypesKept
<1>1. board \in Boards
    BY DEF TypeOK
<1>2. ASSUME NEW e \in Active, CancelPause(e) PROVE TypesKept
  <2>1. e \in Entries
      BY DEF Active
  <2>2. entry' \in [Entries -> EntryRows]
      BY <1>2, <2>1, CancelPauseDoes DEF Only
  <2>3. board' \in Boards /\ unseen' \in SUBSET Entries
      BY <1>1, <1>2, BumpIs DEF CancelPause, Bumped
  <2> QED
      BY <1>2, <2>2, <2>3 DEF TypesKept, TypeOK, CancelPause, turnVars
<1>3. ASSUME NEW state \in {"open", "closed"}, SetDoor(state) PROVE TypesKept
  <2>1. board' \in Boards /\ unseen' \in SUBSET Entries
      BY <1>1, <1>3, DoorIs DEF Bumped
  <2> QED
      BY <1>3, <2>1 DEF TypesKept, TypeOK, SetDoor, turnVars
<1>4. ASSUME NEW owner \in Active, NEW e \in Active, NEW accept \in BOOLEAN, AnswerWindow(owner, e, accept) PROVE TypesKept
  <2>1. owner \in Entries /\ e \in Entries
      BY DEF Active
  <2>2. entry' \in [Entries -> EntryRows] /\ <<owner, entry[owner].window.pause>> \in WindowIds
      BY <1>4, <2>1, AnswerWindowDoes
  <2>3. accepted' \in SUBSET WindowIds
      BY <1>4, <2>2 DEF AnswerWindow, TypeOK
  <2> QED
      BY <1>4, <2>2, <2>3 DEF TypesKept, TypeOK, AnswerWindow, turnVars
<1> QED
    BY <1>2, <1>3, <1>4

LEMMA TypeStep ==
    ASSUME TypeOK, CallsName, PausesPlanned, StepKinds
    PROVE  TypeOK'
<1> SUFFICES TypesKept
    BY DEF TypesKept, TypeOK
<1>1. CASE Quiet
    BY <1>1 DEF Quiet, tableVars, TypesKept, TypeOK
<1>2. CASE Spending
    BY <1>2 DEF Spending, Only, turnVars, boardVars, TypesKept, TypeOK
<1>3. CASE Planning
  <2>1. calls' \in SUBSET (OrderCalls \cup MoveCalls \cup PlaceCalls)
      BY <1>3 DEF Planning, NewOrder, JustPlanned, NewPlace, TypeOK
  <2> QED
      BY <1>3, <2>1 DEF Planning, turnVars, boardVars, TypesKept, TypeOK
<1>4. CASE Checking
    BY <1>4 DEF Checking, boardVars, TypesKept, TypeOK
<1>5. ASSUME NEW e \in Entries, NEW surprised \in BOOLEAN, AddEntry(e, surprised) PROVE TypesKept
    BY <1>5, AddEntryDoes DEF AddEntry, Only, turnVars, boardVars, TypesKept, TypeOK
<1>6. CASE AdvanceTurn
    BY <1>6, AdvanceTurnTypes DEF AdvanceTurn, boardVars, TypesKept, TypeOK
<1> QED
    BY <1>1, <1>2, <1>3, <1>4, <1>5, <1>6, StartTypes, RequestTypes, CompleteTypes, CommitOrderTypes, EndTypes,
       StatusTypes, MovementTypes, BoardTypes DEF StepKinds

-----------------------------------------------------------------------------
(* Who is there, and what waiting calls name. *)

\* who is in the Combat stays in it, and who is out of the fight stays out
LEMMA PresenceStep ==
    ASSUME TypeOK, NothingBefore, CallsName, PausesPlanned, StepKinds, NEW e \in Entries, Present(e)
    PROVE  Present(e)' /\ (entry'[e].status = "active" => entry[e].status = "active")
<1> DEFINE Goal == Present(e)' /\ (entry'[e].status = "active" => entry[e].status = "active")
<1> SUFFICES Goal
    OBVIOUS
<1>1. entry'[e].status = entry[e].status => Goal
    BY DEF Present
<1> HIDE DEF Goal
<1>2. CASE Quiet \/ Planning \/ Checking
    BY <1>1, <1>2 DEF Quiet, Planning, Checking, tableVars
<1>3. CASE Spending
    BY <1>1, <1>3 DEF Spending, Only, SameRoll
<1>4. ASSUME NEW mode, NEW monsters, NEW place, StartCombat(mode, monsters, place) PROVE Goal
    BY <1>4 DEF StartCombat, NothingBefore
<1>5. ASSUME NEW o \in Entries, NEW surprised \in BOOLEAN, AddEntry(o, surprised) PROVE Goal
  <2>1. o # e /\ Only(o, NewEntry(surprised))
      BY <1>5, AddEntryDoes DEF AddEntry, Present
  <2> QED
      BY <1>1, <2>1 DEF Only
<1>6. ASSUME NEW S \in SUBSET Active, RequestInitiative(S) PROVE Goal
    BY <1>1, <1>6, RequestInitiativeDoes
<1>7. ASSUME NEW r \in requests, NEW total \in Totals, CompleteInitiative(r, total) PROVE Goal
    BY <1>1, <1>7, CompleteInitiativeDoes
<1>8. ASSUME NEW c \in calls, CommitFinalize(c) \/ CommitReorder(c) PROVE Goal
  <2>1. Ordering(c) /\ Whole(c.seq)
      BY <1>8 DEF CommitFinalize, CommitReorder, Ordering
  <2> QED
      BY <1>1, <1>8, <2>1, WholeIs, CommitFinalizeDoes, CommitReorderDoes
<1>9. CASE AdvanceTurn
  <2>1. combat.turn \in Ordered
      BY <1>9 DEF AdvanceTurn, CanAdvance
  <2>2. combat.turn \in Entries /\ NextInOrder(combat.turn) \in Entries
      BY <2>1, NextIs DEF Ordered, Active
  <2> QED
      BY <1>1, <1>9, <2>2, AdvanceTurnDoes DEF SameRoll
<1>10. CASE EndCombat
  <2>1. entry[e] \in EntryRows /\ entry'[e] = Ended(entry[e])
      BY <1>10, EndCombatDoes DEF TypeOK
  <2> QED
      BY <1>1, <2>1, EndedIs
<1>11. ASSUME NEW o \in Entries, NEW status \in Outcomes(o), SetEntryStatus(o, status) PROVE Goal
  <2>1. CASE e = o
    <3>1. entry'[e].status = status /\ status \notin {"absent", "active"}
        BY <1>11, <2>1, SetEntryStatusDoes DEF Only, Outcomes
    <3> QED
        BY <3>1 DEF Goal, Present
  <2>2. CASE e # o
      BY <1>1, <1>11, <2>2, SetEntryStatusDoes DEF Only
  <2> QED
      BY <2>1, <2>2
<1>12. ASSUME NEW c \in calls, CommitMove(c) PROVE Goal
  <2>1. c \in MoveCalls /\ Moving(c)
      BY <1>12, CommitMovePuts
  <2> QED
      BY <1>1, <1>12, <2>1, PlannedReactors, CommitMoveDoes DEF SameRoll
<1>13. ASSUME NEW c \in calls, CommitPlace(c) \/ CommitReposition(c) PROVE Goal
    BY <1>1, <1>13 DEF CommitPlace, CommitReposition
<1>14. ASSUME NEW o \in Active, CancelPause(o) PROVE Goal
  <2>1. o \in Entries
      BY DEF Active
  <2> QED
      BY <1>1, <1>14, <2>1, CancelPauseDoes DEF Only, SameRoll
<1>15. ASSUME NEW state \in {"open", "closed"}, SetDoor(state) PROVE Goal
    BY <1>1, <1>15 DEF SetDoor
<1>16. ASSUME NEW owner \in Active, NEW o \in Active, NEW accept \in BOOLEAN, AnswerWindow(owner, o, accept) PROVE Goal
  <2>1. owner \in Entries /\ o \in Entries
      BY DEF Active
  <2> QED
      BY <1>1, <1>16, <2>1, AnswerWindowDoes DEF SameRoll
<1> QED
    BY <1>2, <1>3, <1>4, <1>5, <1>6, <1>7, <1>8, <1>9, <1>10, <1>11, <1>12, <1>13, <1>14, <1>15, <1>16 DEF StepKinds

\* before a Combat starts only the Session, checks and the start itself happen
LEMMA BeforeTheStart ==
    ASSUME TypeOK, NothingBefore, StepKinds, combat.status = "none"
    PROVE  \/ Quiet \/ Checking
           \/ \E mode \in {"quick", "tactical"}, monsters \in SUBSET Monsters :
                 \E place \in [monsters -> Cells] : StartCombat(mode, monsters, place)
<1>1. Active = {} /\ calls = {} /\ ~Fighting /\ ~Running
    BY DEF NothingBefore, Present, Active, Fighting, Running
<1>2. ~Spending
    BY <1>1 DEF Spending
<1>3. ~Planning
    BY <1>1 DEF Planning, NewOrder, JustPlanned, NewPlace
<1>4. \A r : ~\E total \in Totals : CompleteInitiative(r, total)
    BY <1>1 DEF CompleteInitiative
<1>5. \A S : ~RequestInitiative(S)
    BY <1>1 DEF RequestInitiative
<1>6. \A e : ~(\E surprised \in BOOLEAN : AddEntry(e, surprised)) /\ ~\E status : SetEntryStatus(e, status)
    BY <1>1 DEF AddEntry, SetEntryStatus
<1>7. ~AdvanceTurn /\ ~EndCombat
    BY <1>1 DEF AdvanceTurn, CanAdvance, EndCombat
<1>8. \A state : ~SetDoor(state)
    BY <1>1 DEF SetDoor
<1> QED
    BY <1>1, <1>2, <1>3, <1>4, <1>5, <1>6, <1>7, <1>8 DEF StepKinds

\* the Combat row: what changes its status or its mode
LEMMA CombatStep ==
    ASSUME TypeOK, StepKinds
    PROVE  \/ UNCHANGED combat
           \/ combat.status = "none" /\ combat'.status = "initiative_pending"
           \/ combat.status # "none" /\ combat'.status # "none" /\ combat'.mode = combat.mode
<1>1. combat \in Combats
    BY DEF TypeOK
<1>2. ASSUME NEW mode \in {"quick", "tactical"}, NEW monsters, NEW place, StartCombat(mode, monsters, place)
      PROVE  combat.status = "none" /\ combat'.status = "initiative_pending"
    BY <1>1, <1>2 DEF StartCombat, Combats
<1>3. ASSUME NEW c \in calls, CommitFinalize(c)
      PROVE  combat.status # "none" /\ combat'.status # "none" /\ combat'.mode = combat.mode
  <2> PICK first : first = c.seq[1]
      OBVIOUS
  <2>1. combat' = [combat EXCEPT !.status = "running", !.round = 1, !.turn = first] /\ combat.status = "initiative_pending"
      BY <1>3 DEF CommitFinalize
  <2> QED
      BY <1>1, <2>1 DEF Combats
<1>4. CASE AdvanceTurn
    BY <1>4, AdvanceTurnTypes DEF AdvanceTurn, CanAdvance, Running
<1>5. CASE EndCombat
    BY <1>1, <1>5 DEF EndCombat, Combats, Fighting
<1>6. CASE Quiet \/ Spending \/ Planning \/ Checking
    BY <1>6 DEF Quiet, Spending, Planning, Checking, tableVars, turnVars
<1>7. ASSUME NEW e, (\E surprised : AddEntry(e, surprised)) \/ (\E status : SetEntryStatus(e, status))
             \/ RequestInitiative(e) \/ CancelPause(e) \/ SetDoor(e)
      PROVE  UNCHANGED combat
    BY <1>7 DEF AddEntry, SetEntryStatus, RequestInitiative, CancelPause, SetDoor, turnVars
<1>8. ASSUME NEW r, NEW total, CompleteInitiative(r, total) PROVE UNCHANGED combat
    BY <1>8 DEF CompleteInitiative
<1>9. ASSUME NEW c \in calls, CommitReorder(c) \/ CommitMove(c) \/ CommitPlace(c) \/ CommitReposition(c) PROVE UNCHANGED combat
    BY <1>9 DEF CommitReorder, CommitMove, CommitPlace, CommitReposition, turnVars
<1>10. ASSUME NEW owner, NEW e, NEW accept, AnswerWindow(owner, e, accept) PROVE UNCHANGED combat
    BY <1>10 DEF AnswerWindow, turnVars
<1> QED
    BY <1>2, <1>3, <1>4, <1>5, <1>6, <1>7, <1>8, <1>9, <1>10 DEF StepKinds

\* the board: its revision grows, or it stays and what was placed is known
LEMMA BoardStep ==
    ASSUME TypeOK, StepKinds
    PROVE  (board' = board /\ unseen \subseteq unseen') \/ Bumped
<1>1. board \in Boards
    BY DEF TypeOK
<1>2. ASSUME NEW c \in calls, CommitMove(c) \/ CommitReposition(c) PROVE Bumped
    BY <1>1, <1>2, BumpIs DEF CommitMove, CommitReposition
<1>3. ASSUME NEW e \in Active, CancelPause(e) PROVE Bumped
    BY <1>1, <1>3, BumpIs DEF CancelPause
<1>4. ASSUME NEW state \in {"open", "closed"}, SetDoor(state) PROVE Bumped
    BY <1>1, <1>4, DoorIs
<1> DEFINE Stays == board' = board /\ unseen \subseteq unseen'
<1>5. CASE Quiet \/ Spending \/ Planning \/ Checking \/ AdvanceTurn \/ EndCombat
    BY <1>5 DEF Quiet, Spending, Planning, Checking, AdvanceTurn, EndCombat, tableVars, boardVars
<1>6. ASSUME NEW mode, NEW monsters, NEW place, StartCombat(mode, monsters, place) PROVE Stays
    BY <1>6 DEF StartCombat
<1>7. ASSUME NEW e, (\E surprised : AddEntry(e, surprised)) \/ (\E status : SetEntryStatus(e, status)) \/ RequestInitiative(e)
      PROVE  Stays
    BY <1>7 DEF AddEntry, SetEntryStatus, RequestInitiative, boardVars
<1>8. ASSUME NEW r, NEW total, CompleteInitiative(r, total) PROVE Stays
    BY <1>8 DEF CompleteInitiative, boardVars
<1>9. ASSUME NEW c \in calls, CommitFinalize(c) \/ CommitReorder(c) \/ CommitPlace(c) PROVE Stays
    BY <1>9 DEF CommitFinalize, CommitReorder, CommitPlace, boardVars
<1>10. ASSUME NEW owner, NEW e, NEW accept, AnswerWindow(owner, e, accept) PROVE Stays
    BY <1>10 DEF AnswerWindow
<1> QED
    BY <1>2, <1>3, <1>4, <1>5, <1>6, <1>7, <1>8, <1>9, <1>10 DEF StepKinds

\* calls are only dropped, or planned one at a time
LEMMA CallsStep ==
    ASSUME TypeOK, StepKinds
    PROVE  Planning \/ calls' \subseteq calls
<1> DEFINE Dropped == calls' \subseteq calls
<1>1. CASE Quiet \/ Spending \/ Checking \/ AdvanceTurn \/ EndCombat
    BY <1>1 DEF Quiet, Spending, Checking, AdvanceTurn, EndCombat, tableVars
<1>2. ASSUME NEW mode, NEW monsters, NEW place, StartCombat(mode, monsters, place) PROVE Dropped
    BY <1>2 DEF StartCombat
<1>3. ASSUME NEW e, (\E surprised : AddEntry(e, surprised)) \/ (\E status : SetEntryStatus(e, status))
             \/ RequestInitiative(e) \/ CancelPause(e) \/ SetDoor(e)
      PROVE  Dropped
    BY <1>3 DEF AddEntry, SetEntryStatus, RequestInitiative, CancelPause, SetDoor
<1>4. ASSUME NEW r, NEW total, CompleteInitiative(r, total) PROVE Dropped
    BY <1>4 DEF CompleteInitiative
<1>5. ASSUME NEW c \in calls, CommitFinalize(c) \/ CommitReorder(c) \/ CommitMove(c) \/ CommitPlace(c) \/ CommitReposition(c)
      PROVE  Dropped
    BY <1>5 DEF CommitFinalize, CommitReorder, CommitMove, CommitPlace, CommitReposition, Finish
<1>6. ASSUME NEW owner, NEW e, NEW accept, AnswerWindow(owner, e, accept) PROVE Dropped
    BY <1>6 DEF AnswerWindow
<1> QED
    BY <1>1, <1>2, <1>3, <1>4, <1>5, <1>6 DEF StepKinds

LEMMA NothingBeforeStep ==
    ASSUME TypeOK, NothingBefore, StepKinds
    PROVE  NothingBefore'
<1> SUFFICES ASSUME combat'.status = "none"
             PROVE  /\ calls' = {} /\ \A r \in requests' : r.unit = {}
                    /\ \A e \in Entries : ~Present(e)' /\ token'[e].at = Off
    BY DEF NothingBefore
<1>1. combat.status = "none"
    BY CombatStep
<1>2. Quiet \/ Checking
    BY <1>1, BeforeTheStart, CombatStep DEF StartCombat, TypeOK, Combats
<1> QED
    BY <1>1, <1>2 DEF NothingBefore, Quiet, Checking, tableVars, boardVars, Present

LEMMA CallsNameStep ==
    ASSUME TypeOK, NothingBefore, CallsName, PausesPlanned, StepKinds
    PROVE  CallsName'
<1> DEFINE Names(c) ==
              /\ Ordering(c) => \A i \in DOMAIN c.seq : Present(c.seq[i])
              /\ Ordering(c) => \A i, j \in DOMAIN c.seq : c.seq[i] = c.seq[j] => i = j
              /\ Moving(c) \/ Placing(c) =>
                    Present(c.entry) /\ combat.mode = "tactical" /\ c.walk # << >>
              /\ Moving(c) => c.boardRev <= board.rev
<1>1. \A e \in Entries : Present(e) => Present(e)'
    BY PresenceStep
<1>2. ASSUME NEW c \in calls PROVE Names(c)'
  <2>1. Names(c)
      BY DEF CallsName
  <2>2. combat'.mode = combat.mode
      BY CombatStep DEF NothingBefore
  <2>3. Ordering(c) => \A i \in DOMAIN c.seq : c.seq[i] \in Entries
      BY CallKinds DEF OrderCalls
  <2>4. Moving(c) \/ Placing(c) => c.entry \in Entries
      BY CallKinds DEF MoveCalls, PlaceCalls
  <2>5. Moving(c) => c.boardRev \in Nat
      BY CallKinds DEF MoveCalls
  <2>6. board'.rev \in Nat /\ board.rev \in Nat /\ board.rev <= board'.rev
      BY BoardStep DEF Bumped, TypeOK, Boards
  <2> QED
      BY <1>1, <2>1, <2>2, <2>3, <2>4, <2>5, <2>6 DEF Ordering, Moving, Placing
<1>3. ASSUME Planning PROVE \A c \in calls' \ calls : Names(c)'
  <2>1. PICK c : (NewOrder(c) \/ JustPlanned(c) \/ NewPlace(c)) /\ calls' = calls \cup {c}
      BY <1>3 DEF Planning
  <2>2. UNCHANGED <<combat, entry, board>>
      BY <1>3 DEF Planning, turnVars, boardVars
  <2>3. \A e \in Active : Present(e)
      BY DEF Active, Present
  <2>4. CASE NewOrder(c)
    <3>1. Ordering(c) /\ ~Moving(c) /\ ~Placing(c)
        BY <2>4 DEF NewOrder, OrderCalls, Ordering, Moving, Placing
    <3> QED
        BY <2>1, <2>2, <2>3, <2>4, <3>1 DEF NewOrder, Present, Ordering, Moving, Placing
  <2>5. CASE JustPlanned(c)
    <3>1. Moving(c) /\ ~Ordering(c) /\ board.rev \in Nat
        BY <2>5 DEF JustPlanned, MoveCalls, Ordering, Moving, TypeOK, Boards
    <3> QED
        BY <2>1, <2>2, <2>3, <2>5, <3>1 DEF JustPlanned, Present, Ordering, Moving, Placing
  <2>6. CASE NewPlace(c)
    <3>1. Placing(c) /\ ~Ordering(c) /\ ~Moving(c)
        BY <2>6 DEF NewPlace, PlaceCalls, Ordering, Moving, Placing
    <3> QED
        BY <2>1, <2>2, <2>3, <2>6, <3>1 DEF NewPlace, Present, Ordering, Moving, Placing
  <2> QED
      BY <2>1, <2>4, <2>5, <2>6
<1>4. \A c \in calls' : Names(c)'
    BY <1>2, <1>3, CallsStep
<1> QED
    BY <1>4 DEF CallsName

LEMMA AbsentIsBlankStep ==
    ASSUME TypeOK, NothingBefore, AbsentIsBlank, CallsName, PausesPlanned, StepKinds
    PROVE  AbsentIsBlank'
<1> DEFINE Blank(e) ==
              /\ entry[e].request = {} /\ entry[e].total = None
              /\ entry[e].action /\ entry[e].attacks = 0 /\ entry[e].pending = None
              /\ token[e].at = Off
<1> SUFFICES ASSUME NEW e \in Entries, ~Present(e)' PROVE Blank(e)'
    BY DEF AbsentIsBlank
<1>1. ~Present(e) /\ Blank(e)
    BY PresenceStep DEF AbsentIsBlank
<1>2. e \notin Active /\ entry'[e].status = "absent"
    BY <1>1 DEF Present, Active
<1>3. entry'[e] = entry[e] /\ token'[e] = token[e] => Blank(e)'
    BY <1>1
<1> HIDE DEF Blank
<1>4. CASE Quiet \/ Planning \/ Checking
    BY <1>3, <1>4 DEF Quiet, Planning, Checking, tableVars, boardVars
<1>5. CASE Spending
    BY <1>2, <1>3, <1>5 DEF Spending, Only, boardVars
<1>6. ASSUME NEW mode \in {"quick", "tactical"}, NEW monsters \in SUBSET Monsters,
             NEW place \in [monsters -> Cells], StartCombat(mode, monsters, place)
      PROVE  Blank(e)'
  <2>1. entry'[e] = entry[e] /\ e \notin monsters
      BY <1>2, <1>6, StartCombatDoes, NewEntryIs
  <2>2. token'[e] = token[e]
      BY <1>6, <2>1 DEF StartCombat
  <2> QED
      BY <1>3, <2>1, <2>2
<1>7. ASSUME NEW o \in Entries, NEW surprised \in BOOLEAN, AddEntry(o, surprised) PROVE Blank(e)'
  <2>1. Only(o, NewEntry(surprised)) /\ o # e
      BY <1>2, <1>7, AddEntryDoes, NewEntryIs DEF Only
  <2> QED
      BY <1>3, <1>7, <2>1 DEF Only, AddEntry, boardVars
<1>8. ASSUME NEW S \in SUBSET Active, RequestInitiative(S) PROVE Blank(e)'
  <2>1. /\ entry'[e].request = entry[e].request /\ entry'[e].total = entry[e].total
        /\ SameBudget(entry'[e], entry[e]) /\ SamePausing(entry'[e], entry[e])
      BY <1>2, <1>8, RequestInitiativeDoes
  <2> QED
      BY <1>1, <1>8, <2>1 DEF Blank, SameBudget, SamePausing, RequestInitiative, boardVars
<1>9. ASSUME NEW r \in requests, NEW total \in Totals, CompleteInitiative(r, total) PROVE Blank(e)'
  <2>1. entry[e].request # r.unit
      BY <1>1, <1>9 DEF CompleteInitiative, Blank
  <2>2. /\ entry'[e].request = entry[e].request /\ entry'[e].total = entry[e].total
        /\ SameBudget(entry'[e], entry[e]) /\ SamePausing(entry'[e], entry[e])
      BY <1>9, <2>1, CompleteInitiativeDoes
  <2> QED
      BY <1>1, <1>9, <2>2 DEF Blank, SameBudget, SamePausing, CompleteInitiative, boardVars
<1>10. ASSUME NEW c \in calls, CommitFinalize(c) \/ CommitReorder(c) PROVE Blank(e)'
  <2>1. Ordering(c) /\ Whole(c.seq)
      BY <1>10 DEF CommitFinalize, CommitReorder, Ordering
  <2>2. entry'[e] = entry[e]
      BY <1>2, <1>10, <2>1, WholeIs, CommitFinalizeDoes, CommitReorderDoes
  <2> QED
      BY <1>3, <1>10, <2>2 DEF CommitFinalize, CommitReorder, boardVars
<1>11. CASE AdvanceTurn
  <2>1. combat.turn \in Ordered
      BY <1>11 DEF AdvanceTurn, CanAdvance
  <2>2. combat.turn \in Entries /\ NextInOrder(combat.turn) \in Entries /\ NextInOrder(combat.turn) # e
      BY <1>2, <2>1, NextIs DEF Ordered, Active
  <2>3. SameRoll(entry'[e], entry[e]) /\ SameBudget(entry'[e], entry[e]) /\ SamePausing(entry'[e], entry[e])
      BY <1>11, <2>2, AdvanceTurnDoes
  <2> QED
      BY <1>1, <1>11, <2>3 DEF Blank, SameRoll, SameBudget, SamePausing, AdvanceTurn, boardVars
<1>12. CASE EndCombat
  <2>1. entry[e] \in EntryRows /\ entry'[e] = Ended(entry[e])
      BY <1>12, EndCombatDoes DEF TypeOK
  <2> QED
      BY <1>1, <1>12, <2>1, EndedIs DEF Blank, EndCombat, boardVars
<1>13. ASSUME NEW o \in Entries, NEW status \in Outcomes(o), SetEntryStatus(o, status) PROVE Blank(e)'
  <2>1. o \in Active
      BY <1>13 DEF SetEntryStatus
  <2>2. o # e
      BY <1>2, <2>1
  <2>3. entry'[e] = entry[e]
      BY <1>13, <2>2, SetEntryStatusDoes DEF Only
  <2>4. token'[e] = token[e]
      BY <1>13, <2>2 DEF SetEntryStatus, TypeOK, Tokens
  <2> QED
      BY <1>3, <2>3, <2>4
<1>14. ASSUME NEW c \in calls, CommitMove(c) PROVE Blank(e)'
  <2>1. c \in MoveCalls /\ Moving(c) /\ (token' = token \/ Put(c.entry, c.walk[Len(c.walk)]))
      BY <1>14, CommitMovePuts
  <2>2. c.entry # e
      BY <1>1, <2>1 DEF CallsName
  <2>3. token'[e] = token[e]
      BY <2>1, <2>2 DEF Put
  <2>4. SameRoll(entry'[e], entry[e]) /\ SameBudget(entry'[e], entry[e]) /\ entry'[e].pending = entry[e].pending
      BY <1>14, <2>1, <2>2, PlannedReactors, CommitMoveDoes
  <2> QED
      BY <1>1, <2>3, <2>4 DEF Blank, SameRoll, SameBudget
<1>15. ASSUME NEW c \in calls, CommitPlace(c) \/ CommitReposition(c) PROVE Blank(e)'
  <2>1. Placing(c) /\ Put(c.entry, c.walk[1])
      BY <1>15, CommitPlacePuts
  <2>2. c.entry # e
      BY <1>1, <2>1 DEF CallsName
  <2> QED
      BY <1>3, <1>15, <2>1, <2>2 DEF Put, CommitPlace, CommitReposition
<1>16. ASSUME NEW o \in Active, CancelPause(o) PROVE Blank(e)'
  <2>1. o \in Entries /\ o # e
      BY <1>2 DEF Active
  <2> QED
      BY <1>3, <1>16, <2>1, CancelPauseDoes DEF Only, CancelPause
<1>17. ASSUME NEW state \in {"open", "closed"}, SetDoor(state) PROVE Blank(e)'
    BY <1>3, <1>17 DEF SetDoor
<1>18. ASSUME NEW owner \in Active, NEW o \in Active, NEW accept \in BOOLEAN, AnswerWindow(owner, o, accept) PROVE Blank(e)'
  <2>1. owner \in Entries /\ o \in Entries /\ ~Waits(e, owner)
      BY <1>1 DEF Active, Waits, Blank
  <2>2. SameRoll(entry'[e], entry[e]) /\ SameBudget(entry'[e], entry[e]) /\ entry'[e].pending = entry[e].pending
      BY <1>18, <2>1, AnswerWindowDoes
  <2> QED
      BY <1>1, <1>18, <2>2 DEF Blank, SameRoll, SameBudget, AnswerWindow
<1> QED
    BY <1>4, <1>5, <1>6, <1>7, <1>8, <1>9, <1>10, <1>11, <1>12, <1>13, <1>14, <1>15, <1>16, <1>17, <1>18 DEF StepKinds


-----------------------------------------------------------------------------
(* Initiative. *)

Fulfilled(r) == \A e \in r.unit : entry[e].request = r.unit /\ entry[e].total = r.total

RollsBound ==
    /\ \A r \in requests : RollPending(r)
    /\ \A r, q \in requests : r.unit # {} /\ r.unit = q.unit => r = q
    /\ Fighting => \A r \in requests : Fulfilled(r)
    /\ \A e \in Entries : entry[e].request # {} => Fighting /\ e \in entry[e].request

OrdersReady ==
    Fighting => \A c \in calls : Ordering(c) => AllRolled(Listed(c.seq)) /\ Descending(c.seq)

ActedIsPassed ==
    Running => \A e \in Ordered : e \in acted <=> entry[e].order <= entry[combat.turn].order

TurnInv == TurnsFollowInitiative /\ ActedIsPassed

-----------------------------------------------------------------------------
(* Movement. *)

PausesStand ==
    \A e \in Entries : entry[e].pending # None =>
        /\ combat.mode = "tactical" /\ token[e].at # Off
        /\ entry[e].pending.pause \in 1..(board.rev - 1)

OnePause ==
    \A e, o \in Entries :
        entry[e].pending # None /\ entry[o].pending # None /\ entry[e].pending.pause = entry[o].pending.pause => e = o

PausesKnown ==
    /\ \A o \in Entries : entry[o].window # None => entry[o].window.pause < board.rev
    /\ \A id \in accepted : id[2] < board.rev

WindowsAwaited ==
    \A e, o \in Entries :
        LET was == entry[e].pending
            window == entry[o].window IN
        /\ was # None /\ window # None /\ window.pause = was.pause =>
              /\ window.kind = "opportunity_attack" /\ window.mover = e /\ <<o, was.pause>> \in was.windows
        /\ was # None /\ <<o, was.pause>> \in accepted => <<o, was.pause>> \in was.yes

PauseInv == PausesStand /\ OnePause /\ PausesKnown /\ WindowsAwaited

ResumesFit ==
    \A c \in calls :
        LET was == entry[c.entry].pending IN
        c.kind = "resume" /\ c.boardRev = board.rev /\ was # None =>
            /\ c.pendingRev <= was.revision
            /\ c.pendingRev = was.revision => was.windows = {} /\ (was.yes # {} => c.dm)

TokensFit ==
    \A c \in calls : Moving(c) /\ c.entry \in Active =>
        /\ c.tokenRev <= token[c.entry].rev
        /\ c.tokenRev = token[c.entry].rev => token[c.entry].at = c.walk[1]

WaysFit ==
    \A c \in calls : c.kind \in {"confirm", "resume"} /\ c.boardRev = board.rev => WayIsFree(c)

-----------------------------------------------------------------------------
(* Actions and effects. *)

Spent(e) ==
    LET strikes == Paid(e, {"attack", "special"})
        others == Paid(e, {"area", "escape"}) IN
    /\ Cardinality(strikes) <= entry[e].attacks /\ entry[e].attacks <= AttacksAllowed
    /\ Cardinality(others) + (IF entry[e].attacks > 0 THEN 1 ELSE 0) <= 1
    /\ strikes \cup others # {} \/ entry[e].attacks > 0 => ~entry[e].action

BudgetInv == \A e \in Entries : Spent(e)

Inv ==
    /\ TypeOK /\ BodiesTypeOK /\ NothingBefore /\ AbsentIsBlank /\ AbsentIsUnaffected /\ CallsName
    /\ RollsBound /\ OrdersReady /\ TurnInv
    /\ PauseInv /\ ResumesFit /\ TokensFit /\ WaysFit /\ PausesPlanned
    /\ BudgetInv /\ EffectsAreHeld /\ DeathSavesOnlyWhenDown

-----------------------------------------------------------------------------
(* Initiative: the rolls and the order. *)

RollsStay == UNCHANGED <<combat, requests, acted>> /\ \A e \in Entries : SameRoll(entry'[e], entry[e])

\* the steps that matter to initiative
RollKinds ==
    \/ RollsStay \/ Checking
    \/ \E mode \in {"quick", "tactical"}, monsters \in SUBSET Monsters :
          \E place \in [monsters -> Cells] : StartCombat(mode, monsters, place)
    \/ \E e \in Entries, surprised \in BOOLEAN : AddEntry(e, surprised)
    \/ \E S \in SUBSET Active : RequestInitiative(S)
    \/ \E r \in requests, total \in Totals : CompleteInitiative(r, total)
    \/ \E c \in calls : CommitFinalize(c) \/ CommitReorder(c)
    \/ AdvanceTurn \/ EndCombat
    \/ \E e \in Entries : \E status \in Outcomes(e) : SetEntryStatus(e, status)

LEMMA RollStep ==
    ASSUME TypeOK, CallsName, PausesPlanned, StepKinds
    PROVE  RollKinds
<1>1. CASE Quiet \/ Planning
    BY <1>1 DEF Quiet, Planning, tableVars, turnVars, RollsStay, RollKinds, SameRoll
<1>2. CASE Spending
  <2>1. \A e \in Entries : SameRoll(entry'[e], entry[e])
      BY <1>2 DEF Spending, Only, SameRoll
  <2> QED
      BY <1>2, <2>1 DEF Spending, turnVars, RollsStay, RollKinds
<1>3. ASSUME NEW c \in calls, CommitMove(c) PROVE RollKinds
  <2>1. c \in MoveCalls /\ Moving(c)
      BY <1>3, CommitMovePuts
  <2>2. \A e \in Entries : SameRoll(entry'[e], entry[e])
      BY <1>3, <2>1, PlannedReactors, CommitMoveDoes
  <2> QED
      BY <1>3, <2>2 DEF CommitMove, turnVars, RollsStay, RollKinds
<1>4. ASSUME NEW c \in calls, CommitPlace(c) \/ CommitReposition(c) PROVE RollKinds
    BY <1>4 DEF CommitPlace, CommitReposition, turnVars, RollsStay, RollKinds, SameRoll
<1>5. ASSUME NEW o \in Active, CancelPause(o) PROVE RollKinds
  <2>1. o \in Entries
      BY DEF Active
  <2>2. \A e \in Entries : SameRoll(entry'[e], entry[e])
      BY <1>5, <2>1, CancelPauseDoes DEF Only, SameRoll
  <2> QED
      BY <1>5, <2>2 DEF CancelPause, turnVars, RollsStay, RollKinds
<1>6. ASSUME NEW state \in {"open", "closed"}, SetDoor(state) PROVE RollKinds
    BY <1>6 DEF SetDoor, turnVars, RollsStay, RollKinds, SameRoll
<1>7. ASSUME NEW owner \in Active, NEW o \in Active, NEW accept \in BOOLEAN, AnswerWindow(owner, o, accept) PROVE RollKinds
  <2>1. owner \in Entries /\ o \in Entries
      BY DEF Active
  <2>2. \A e \in Entries : SameRoll(entry'[e], entry[e])
      BY <1>7, <2>1, AnswerWindowDoes
  <2> QED
      BY <1>7, <2>2 DEF AnswerWindow, turnVars, RollsStay, RollKinds
<1> QED
    BY <1>1, <1>2, <1>3, <1>4, <1>5, <1>6, <1>7 DEF StepKinds, RollKinds

\* an entry that joins had no roll before
LEMMA NewcomerIs ==
    ASSUME TypeOK, AbsentIsBlank, NEW o \in Entries, NEW surprised \in BOOLEAN, AddEntry(o, surprised), NEW e \in Entries
    PROVE  /\ entry'[e].request = entry[e].request /\ entry'[e].total = entry[e].total
           /\ e = o => entry'[e].status = "active" /\ entry'[e].order = None
           /\ e # o => entry'[e] = entry[e]
<1>1. Only(o, NewEntry(surprised)) /\ ~Present(o)
    BY AddEntryDoes DEF AddEntry, Present
<1> QED
    BY <1>1, NewEntryIs DEF Only, AbsentIsBlank

LEMMA StartersAre ==
    ASSUME TypeOK, NothingBefore, AbsentIsBlank, NEW mode \in {"quick", "tactical"}, NEW monsters \in SUBSET Monsters,
           NEW place \in [monsters -> Cells], StartCombat(mode, monsters, place), NEW e \in Entries
    PROVE  entry'[e].request = {} /\ entry'[e].total = None /\ entry'[e].pending = None
<1>1. ~Present(e)
    BY DEF NothingBefore, StartCombat
<1> QED
    BY <1>1, StartCombatDoes, NewEntryIs DEF AbsentIsBlank

LEMMA RollsBoundStep ==
    ASSUME TypeOK, NothingBefore, AbsentIsBlank, CallsName, RollsBound, RollKinds
    PROVE  RollsBound'
<1> DEFINE Same == /\ Fighting' = Fighting /\ requests' = requests
                   /\ \A e \in Entries : entry'[e].request = entry[e].request /\ entry'[e].total = entry[e].total
<1>1. ASSUME Same PROVE RollsBound'
  <2>1. \A r \in requests : r.unit \in SUBSET Entries
      BY DEF TypeOK, Requests
  <2> QED
      BY <1>1, <2>1 DEF RollsBound, RollPending, Fulfilled
<1>2. CASE RollsStay
    BY <1>1, <1>2 DEF RollsStay, SameRoll, Fighting
<1>3. ASSUME NEW o \in Entries, NEW surprised \in BOOLEAN, AddEntry(o, surprised) PROVE RollsBound'
    BY <1>1, <1>3, NewcomerIs DEF AddEntry, turnVars, Fighting
<1>4. ASSUME NEW o \in Entries, NEW status \in Outcomes(o), SetEntryStatus(o, status) PROVE RollsBound'
  <2>1. \A e \in Entries : entry'[e].request = entry[e].request /\ entry'[e].total = entry[e].total
      BY <1>4, SetEntryStatusDoes DEF Only
  <2>2. combat' = combat /\ requests' = requests
      BY <1>4 DEF SetEntryStatus, turnVars
  <2> QED
      BY <1>1, <2>1, <2>2 DEF Fighting
<1>5. CASE AdvanceTurn
  <2>1. combat.turn \in Ordered
      BY <1>5 DEF AdvanceTurn, CanAdvance
  <2>2. combat.turn \in Entries /\ NextInOrder(combat.turn) \in Entries
      BY <2>1, NextIs DEF Ordered, Active
  <2>3. \A e \in Entries : SameRoll(entry'[e], entry[e])
      BY <1>5, <2>2, AdvanceTurnDoes
  <2>4. combat'.status = combat.status
      BY <1>5, AdvanceTurnTypes
  <2> QED
      BY <1>1, <1>5, <2>3, <2>4 DEF AdvanceTurn, SameRoll, Fighting
<1>6. ASSUME NEW c \in calls, CommitFinalize(c) \/ CommitReorder(c) PROVE RollsBound'
  <2>1. Ordering(c) /\ Whole(c.seq)
      BY <1>6 DEF CommitFinalize, CommitReorder, Ordering
  <2>2. \A e \in Entries : entry'[e].request = entry[e].request /\ entry'[e].total = entry[e].total
      BY <1>6, <2>1, WholeIs, CommitFinalizeDoes, CommitReorderDoes
  <2>3. Fighting /\ Fighting' /\ requests' = requests
    <3>1. CASE CommitFinalize(c)
      <4> PICK first : first = c.seq[1]
          OBVIOUS
      <4>1. combat' = [combat EXCEPT !.status = "running", !.round = 1, !.turn = first]
          BY <3>1 DEF CommitFinalize
      <4> QED
          BY <3>1, <4>1 DEF CommitFinalize, Fighting, TypeOK, Combats
    <3>2. CASE CommitReorder(c)
        BY <3>2 DEF CommitReorder, Fighting, Running
    <3> QED
        BY <1>6, <3>1, <3>2
  <2> QED
      BY <1>1, <2>2, <2>3
<1>7. CASE Checking
    BY <1>7 DEF Checking, RollsBound, RollPending, Fulfilled, Fighting
<1>8. ASSUME NEW mode \in {"quick", "tactical"}, NEW monsters \in SUBSET Monsters,
             NEW place \in [monsters -> Cells], StartCombat(mode, monsters, place)
      PROVE  RollsBound'
  <2>1. (\A r \in requests : r.unit = {}) /\ requests' = requests
      BY <1>8 DEF NothingBefore, StartCombat
  <2>2. \A e \in Entries : entry'[e].request = {}
      BY <1>8, StartersAre
  <2> QED
      BY <2>1, <2>2 DEF RollsBound, RollPending, Fulfilled
<1>9. CASE EndCombat
  <2>1. \A e \in Entries : entry'[e].request = {}
      BY <1>9, EndCombatDoes, EndedIs DEF TypeOK
  <2>2. ~Fighting' /\ requests' = requests
      BY <1>9 DEF EndCombat, Fighting, TypeOK, Combats
  <2> QED
      BY <2>1, <2>2 DEF RollsBound, RollPending
<1>10. ASSUME NEW S \in SUBSET Active, RequestInitiative(S) PROVE RollsBound'
  <2>1. PICK asked \in SUBSET Active :
              /\ \A e \in asked : entry[e].request = {} /\ entry[e].total = None
              /\ \A e \in Entries :
                    /\ entry'[e].total = entry[e].total
                    /\ e \in asked => entry'[e].request \in Units(asked) /\ e \in entry'[e].request
                    /\ e \notin asked => entry'[e].request = entry[e].request
              /\ requests' = requests \cup
                    {[unit |-> u, session |-> session.no, status |-> "pending", total |-> None] : u \in Units(asked)}
      BY <1>10, RequestInitiativeDoes
  <2>2. asked \in SUBSET Entries /\ Fighting /\ Fighting'
      BY <1>10 DEF Active, RequestInitiative, Fighting
  <2>3. /\ \A u \in Units(asked) : u \in SUBSET asked /\ u # {}
        /\ \A u, v \in Units(asked) : \A e \in u : e \in v => u = v
      BY <2>2, UnitsAre
  <2>4. \A r \in requests : r.unit \in SUBSET Entries
      BY DEF TypeOK, Requests
  <2> DEFINE New(u) == [unit |-> u, session |-> session.no, status |-> "pending", total |-> None]
  <2>5. \A u : New(u).unit = u /\ New(u).total = None /\ RollPending(New(u))
      BY DEF RollPending
  <2>6. \A r : r \in requests' <=> r \in requests \/ \E u \in Units(asked) : r = New(u)
      BY <2>1
  <2> HIDE DEF New
  <2>7. \A r \in requests : \A e \in r.unit : e \in Entries /\ e \notin asked /\ entry[e].request = r.unit /\ entry[e].total = r.total
      BY <2>1, <2>2, <2>4 DEF RollsBound, Fulfilled
  <2>8. \A r \in requests' : RollPending(r)
      BY <2>5, <2>6 DEF RollsBound
  <2>9. \A r \in requests, u \in Units(asked) : r.unit # u
      BY <2>3, <2>7
  <2>10. ASSUME NEW r \in requests', NEW q \in requests', r.unit # {}, r.unit = q.unit PROVE r = q
    <3>1. CASE r \in requests
        BY <2>5, <2>6, <2>9, <2>10, <3>1 DEF RollsBound
    <3>2. CASE r \notin requests
        BY <2>5, <2>6, <2>9, <2>10, <3>2
    <3> QED
        BY <3>1, <3>2
  <2>11. ASSUME NEW r \in requests' PROVE Fulfilled(r)'
    <3>1. CASE r \in requests
        BY <2>1, <2>7, <3>1 DEF Fulfilled
    <3>2. CASE r \notin requests
      <4>1. PICK u \in Units(asked) : r = New(u)
          BY <2>6, <3>2
      <4>2. \A e \in u : e \in asked /\ e \in Entries /\ entry'[e].request = u /\ entry'[e].total = None
          BY <2>1, <2>2, <2>3
      <4> QED
          BY <2>5, <4>1, <4>2 DEF Fulfilled
    <3> QED
        BY <3>1, <3>2
  <2>12. \A e \in Entries : entry'[e].request # {} => e \in entry'[e].request
      BY <2>1 DEF RollsBound
  <2> QED
      BY <2>2, <2>8, <2>10, <2>11, <2>12 DEF RollsBound
<1>11. ASSUME NEW r \in requests, NEW total \in Totals, CompleteInitiative(r, total) PROVE RollsBound'
  <2>1. r \in Requests /\ r.unit # {}
      BY <1>11 DEF TypeOK, CompleteInitiative
  <2>2. PICK new : new.unit = r.unit /\ new.total = total /\ RollPending(new) /\ requests' = (requests \ {r}) \cup {new}
      BY <1>11, <2>1, ResolvedIs DEF CompleteInitiative
  <2>3. \A e \in Entries : /\ entry'[e].request = entry[e].request
                           /\ entry'[e].total = IF entry[e].request = r.unit THEN total ELSE entry[e].total
      BY <1>11, CompleteInitiativeDoes
  <2>4. Fighting' = Fighting
      BY <1>11 DEF CompleteInitiative, Fighting
  <2>5. \A q \in requests : q.unit \in SUBSET Entries
      BY DEF TypeOK, Requests
  <2>6. \A q \in requests' : RollPending(q)
      BY <2>2 DEF RollsBound
  <2>7. \A p, q \in requests' : p.unit # {} /\ p.unit = q.unit => p = q
      BY <2>1, <2>2 DEF RollsBound
  <2>8. ASSUME Fighting, NEW q \in requests' PROVE Fulfilled(q)'
    <3>1. CASE q = new
        BY <2>2, <2>3, <2>5, <2>8, <3>1 DEF RollsBound, Fulfilled
    <3>2. CASE q # new
      <4>1. q \in requests /\ q # r
          BY <2>2, <3>2
      <4>2. q.unit # r.unit
          BY <2>1, <4>1 DEF RollsBound
      <4> QED
          BY <2>3, <2>5, <2>8, <4>1, <4>2 DEF RollsBound, Fulfilled
    <3> QED
        BY <3>1, <3>2
  <2> QED
      BY <2>3, <2>4, <2>6, <2>7, <2>8 DEF RollsBound
<1> QED
    BY <1>2, <1>3, <1>4, <1>5, <1>6, <1>7, <1>8, <1>9, <1>10, <1>11 DEF RollKinds

\* a total stays as it was rolled while the Combat lasts
LEMMA TotalsStay ==
    ASSUME TypeOK, NothingBefore, AbsentIsBlank, CallsName, RollsBound, RollKinds, NEW e \in Entries,
           entry[e].total # None, Fighting'
    PROVE  entry'[e].total = entry[e].total
<1>1. Present(e)
    BY DEF AbsentIsBlank
<1>2. CASE RollsStay \/ Checking
    BY <1>2 DEF RollsStay, SameRoll, Checking
<1>3. ASSUME NEW mode, NEW monsters, NEW place, StartCombat(mode, monsters, place) PROVE FALSE
    BY <1>1, <1>3 DEF NothingBefore, StartCombat
<1>4. ASSUME NEW o \in Entries, NEW surprised \in BOOLEAN, AddEntry(o, surprised) PROVE entry'[e].total = entry[e].total
    BY <1>4, NewcomerIs
<1>5. ASSUME NEW S \in SUBSET Active, RequestInitiative(S) PROVE entry'[e].total = entry[e].total
    BY <1>5, RequestInitiativeDoes
<1>6. ASSUME NEW r \in requests, NEW total \in Totals, CompleteInitiative(r, total) PROVE entry'[e].total = entry[e].total
  <2>1. r.unit # {} /\ r.total = None
      BY <1>6 DEF CompleteInitiative, RollsBound, RollPending
  <2>2. entry[e].request = r.unit => entry[e].total = r.total
      BY <2>1 DEF RollsBound, Fulfilled
  <2>3. entry[e].request # r.unit
      BY <2>1, <2>2
  <2> QED
      BY <1>6, <2>3, CompleteInitiativeDoes
<1>7. ASSUME NEW c \in calls, CommitFinalize(c) \/ CommitReorder(c) PROVE entry'[e].total = entry[e].total
  <2>1. Ordering(c) /\ Whole(c.seq)
      BY <1>7 DEF CommitFinalize, CommitReorder, Ordering
  <2> QED
      BY <1>7, <2>1, WholeIs, CommitFinalizeDoes, CommitReorderDoes
<1>8. CASE AdvanceTurn
  <2>1. combat.turn \in Ordered
      BY <1>8 DEF AdvanceTurn, CanAdvance
  <2>2. combat.turn \in Entries /\ NextInOrder(combat.turn) \in Entries
      BY <2>1, NextIs DEF Ordered, Active
  <2> QED
      BY <1>8, <2>2, AdvanceTurnDoes DEF SameRoll
<1>9. CASE EndCombat
    BY <1>9 DEF EndCombat, Fighting, TypeOK, Combats
<1>10. ASSUME NEW o \in Entries, NEW status \in Outcomes(o), SetEntryStatus(o, status) PROVE entry'[e].total = entry[e].total
    BY <1>10, SetEntryStatusDoes DEF Only
<1> QED
    BY <1>2, <1>3, <1>4, <1>5, <1>6, <1>7, <1>8, <1>9, <1>10 DEF RollKinds

\* a Combat begins to be fought only when it starts
LEMMA FightStarts ==
    ASSUME TypeOK, NothingBefore, StepKinds, Fighting', ~Fighting
    PROVE  calls' = {}
<1>1. CASE combat.status = "none"
  <2>1. calls = {}
      BY <1>1 DEF NothingBefore
  <2>2. CASE Quiet \/ Checking
      BY <2>1, <2>2 DEF Quiet, Checking, tableVars
  <2>3. ASSUME NEW mode, NEW monsters, NEW place, StartCombat(mode, monsters, place) PROVE calls' = {}
      BY <2>1, <2>3 DEF StartCombat
  <2> QED
      BY <1>1, <2>2, <2>3, BeforeTheStart
<1>2. CASE combat.status # "none"
  <2>1. combat' # combat
      BY DEF Fighting
  <2>2. ASSUME NEW mode, NEW monsters, NEW place, StartCombat(mode, monsters, place) PROVE FALSE
      BY <1>2, <2>2 DEF StartCombat
  <2>3. ASSUME NEW c \in calls, CommitFinalize(c) PROVE FALSE
      BY <2>3 DEF CommitFinalize, Fighting
  <2>4. ~AdvanceTurn /\ ~EndCombat
      BY DEF AdvanceTurn, CanAdvance, EndCombat, Fighting, Running
  <2>5. ~(Quiet \/ Spending \/ Planning \/ Checking)
      BY <2>1 DEF Quiet, Spending, Planning, Checking, tableVars, turnVars
  <2>6. ASSUME NEW e, (\E surprised : AddEntry(e, surprised)) \/ (\E status : SetEntryStatus(e, status))
               \/ RequestInitiative(e) \/ CancelPause(e) \/ SetDoor(e)
        PROVE  FALSE
      BY <2>1, <2>6 DEF AddEntry, SetEntryStatus, RequestInitiative, CancelPause, SetDoor, turnVars
  <2>7. ASSUME NEW r, NEW total, CompleteInitiative(r, total) PROVE FALSE
      BY <2>1, <2>7 DEF CompleteInitiative
  <2>8. ASSUME NEW c \in calls, CommitReorder(c) \/ CommitMove(c) \/ CommitPlace(c) \/ CommitReposition(c) PROVE FALSE
      BY <2>1, <2>8 DEF CommitReorder, CommitMove, CommitPlace, CommitReposition, turnVars
  <2>9. ASSUME NEW owner, NEW e, NEW accept, AnswerWindow(owner, e, accept) PROVE FALSE
      BY <2>1, <2>9 DEF AnswerWindow, turnVars
  <2> QED
      BY <2>2, <2>3, <2>4, <2>5, <2>6, <2>7, <2>8, <2>9 DEF StepKinds
<1> QED
    BY <1>1, <1>2

LEMMA OrdersReadyStep ==
    ASSUME TypeOK, NothingBefore, AbsentIsBlank, CallsName, PausesPlanned, RollsBound, OrdersReady, StepKinds
    PROVE  OrdersReady'
<1> SUFFICES ASSUME Fighting', NEW c \in calls', Ordering(c)
             PROVE  AllRolled(Listed(c.seq))' /\ Descending(c.seq)'
    BY DEF OrdersReady, Ordering
<1>1. Fighting
    BY FightStarts
<1>2. RollKinds
    BY RollStep
<1>3. /\ \A i \in DOMAIN c.seq : c.seq[i] \in Entries /\ entry[c.seq[i]].total # None
      /\ Descending(c.seq)
  <2>1. CASE c \in calls
      BY <1>1, <2>1, CallKinds DEF OrdersReady, AllRolled, Listed, OrderCalls
  <2>2. CASE c \notin calls
    <3>1. NewOrder(c) \/ JustPlanned(c) \/ NewPlace(c)
        BY <2>2, CallsStep DEF Planning
    <3>2. ~JustPlanned(c) /\ ~NewPlace(c)
        BY DEF Ordering, JustPlanned, MoveCalls, NewPlace, PlaceCalls
    <3> QED
        BY <3>1, <3>2 DEF NewOrder, Active
  <2> QED
      BY <2>1, <2>2
<1>4. \A i \in DOMAIN c.seq : entry'[c.seq[i]].total = entry[c.seq[i]].total
    BY <1>2, <1>3, TotalsStay
<1>5. AllRolled(Listed(c.seq))'
    BY <1>3, <1>4 DEF AllRolled, Listed
<1>6. Descending(c.seq)'
    BY <1>3, <1>4 DEF Descending
<1> QED
    BY <1>5, <1>6

\* the order only loses members that do not have the turn
OrderRemains ==
    /\ UNCHANGED <<combat, acted>>
    /\ \A e \in Ordered' : e \in Ordered /\ entry'[e].order = entry[e].order /\ entry'[e].total = entry[e].total
    /\ Running => (combat.turn \in Ordered => combat.turn \in Ordered')

LEMMA OrderRemainsKeeps ==
    ASSUME TypeOK, TurnInv, OrderRemains
    PROVE  TurnInv'
<1> SUFFICES ASSUME Running'
             PROVE  /\ combat'.turn \in Ordered'
                    /\ \A a, b \in Ordered' :
                          /\ entry'[a].total # None
                          /\ a # b => entry'[a].order # entry'[b].order
                          /\ entry'[a].order < entry'[b].order => entry'[a].total >= entry'[b].total
                    /\ \A e \in Ordered' : e \in acted' <=> entry'[e].order <= entry'[combat'.turn].order
    BY DEF TurnInv, TurnsFollowInitiative, ActedIsPassed, Running
<1>1. Running /\ combat.turn \in Ordered /\ combat'.turn \in Ordered' /\ combat' = combat /\ acted' = acted
    BY DEF OrderRemains, Running, TurnInv, TurnsFollowInitiative
<1> QED
    BY <1>1 DEF OrderRemains, TurnInv, TurnsFollowInitiative, ActedIsPassed

\* a new order puts everyone active where the call lists it
Placed(c, e) ==
    /\ entry'[e].status = entry[e].status /\ entry'[e].total = entry[e].total
    /\ e \in Active => entry'[e].order \in DOMAIN c.seq /\ c.seq[entry'[e].order] = e

LEMMA NewOrderKeeps ==
    ASSUME TypeOK, CallsName, OrdersReady, Fighting, NEW c \in calls, Ordering(c), Whole(c.seq),
           \A e \in Entries : Placed(c, e)
    PROVE  /\ Ordered' = Active
           /\ \A a, b \in Ordered' :
                 /\ entry'[a].total # None
                 /\ a # b => entry'[a].order # entry'[b].order
                 /\ entry'[a].order < entry'[b].order => entry'[a].total >= entry'[b].total
<1>1. /\ DOMAIN c.seq \subseteq Nat /\ \A e \in Active : entry[e].total # None
      /\ \A i \in DOMAIN c.seq : c.seq[i] \in Active
    BY WholeIs
<1>2. \A e \in Active : e \in Entries
    BY DEF Active
<1>3. Ordered' = Active
  <2>1. Active' = Active
      BY DEF Active, Placed
  <2>2. ASSUME NEW e \in Active PROVE entry'[e].order # None
    <3>1. entry'[e].order \in Nat
        BY <1>1, <1>2 DEF Placed
    <3> QED
        BY <3>1, EntriesFinite
  <2> QED
      BY <2>1, <2>2 DEF Ordered
<1>4. \A i, j \in DOMAIN c.seq : i < j => entry[c.seq[i]].total >= entry[c.seq[j]].total
    BY DEF OrdersReady, Descending
<1>5. ASSUME NEW a \in Active, NEW b \in Active
      PROVE  /\ a # b => entry'[a].order # entry'[b].order
             /\ entry'[a].order < entry'[b].order => entry'[a].total >= entry'[b].total
  <2>1. /\ entry'[a].order \in DOMAIN c.seq /\ c.seq[entry'[a].order] = a /\ entry'[a].total = entry[a].total
        /\ entry'[b].order \in DOMAIN c.seq /\ c.seq[entry'[b].order] = b /\ entry'[b].total = entry[b].total
      BY <1>2 DEF Placed
  <2> QED
      BY <1>4, <2>1
<1> QED
    BY <1>1, <1>2, <1>3, <1>5 DEF Placed

LEMMA FinalizeKeeps ==
    ASSUME TypeOK, CallsName, OrdersReady, NEW c \in calls, CommitFinalize(c)
    PROVE  TurnInv'
<1>1. Ordering(c) /\ Whole(c.seq) /\ Fighting
    BY DEF CommitFinalize, Ordering, Fighting
<1>2. \A e \in Entries : Placed(c, e)
    BY <1>1, WholeIs, CommitFinalizeDoes DEF Placed
<1>3. /\ Ordered' = Active
      /\ \A a, b \in Ordered' :
            /\ entry'[a].total # None
            /\ a # b => entry'[a].order # entry'[b].order
            /\ entry'[a].order < entry'[b].order => entry'[a].total >= entry'[b].total
    BY <1>1, <1>2, NewOrderKeeps
<1>4. /\ 1 \in DOMAIN c.seq /\ DOMAIN c.seq \subseteq Nat /\ \A i \in DOMAIN c.seq : c.seq[i] \in Active /\ 1 <= i
    BY <1>1, WholeIs
<1>5. \A i, j \in DOMAIN c.seq : c.seq[i] = c.seq[j] => i = j
    BY <1>1 DEF CallsName
<1> PICK first : first = c.seq[1]
    OBVIOUS
<1>6. combat' = [combat EXCEPT !.status = "running", !.round = 1, !.turn = first] /\ acted' = {first}
    BY DEF CommitFinalize
<1>7. combat'.turn = first /\ first \in Active
    BY <1>4, <1>6 DEF TypeOK, Combats
<1>8. \A e \in Active : e \in Entries
    BY DEF Active
<1>9. entry'[first].order = 1
  <2>1. entry'[first].order \in DOMAIN c.seq /\ c.seq[entry'[first].order] = first
      BY <1>2, <1>7, <1>8 DEF Placed
  <2> QED
      BY <1>4, <1>5, <2>1
<1>10. \A e \in Active : e \in acted' <=> entry'[e].order <= 1
  <2> TAKE e \in Active
  <2>1. entry'[e].order \in DOMAIN c.seq /\ c.seq[entry'[e].order] = e
      BY <1>2, <1>8 DEF Placed
  <2>2. entry'[e].order <= 1 <=> entry'[e].order = 1
      BY <1>4, <2>1
  <2> QED
      BY <1>5, <1>6, <1>9, <2>1, <2>2
<1> QED
    BY <1>3, <1>7, <1>9, <1>10 DEF TurnInv, TurnsFollowInitiative, ActedIsPassed

LEMMA ReorderKeeps ==
    ASSUME TypeOK, CallsName, OrdersReady, NEW c \in calls, CommitReorder(c)
    PROVE  TurnInv'
<1>1. Ordering(c) /\ Whole(c.seq) /\ Fighting
    BY DEF CommitReorder, Ordering, Fighting, Running
<1>2. \A e \in Entries : Placed(c, e)
    BY <1>1, WholeIs, CommitReorderDoes DEF Placed
<1>3. /\ Ordered' = Active
      /\ \A a, b \in Ordered' :
            /\ entry'[a].total # None
            /\ a # b => entry'[a].order # entry'[b].order
            /\ entry'[a].order < entry'[b].order => entry'[a].total >= entry'[b].total
    BY <1>1, <1>2, NewOrderKeeps
<1>4. combat' = combat /\ combat.turn \in Active /\ acted' = {e \in Active : entry'[e].order <= entry'[combat.turn].order}
    BY DEF CommitReorder
<1>5. \A e \in Ordered' : e \in acted' <=> entry'[e].order <= entry'[combat'.turn].order
    BY <1>3, <1>4
<1> QED
    BY <1>3, <1>4, <1>5 DEF TurnInv, TurnsFollowInitiative, ActedIsPassed

\* the turn passes to the next of the order, and the round with it
LEMMA AdvanceKeeps ==
    ASSUME TypeOK, TurnInv, AdvanceTurn
    PROVE  /\ TurnInv' /\ combat'.turn \in Ordered
           /\ IF After(combat.turn) = {} THEN combat'.round = combat.round + 1 /\ Ordered \subseteq acted
              ELSE combat'.round = combat.round /\ combat'.turn \notin acted
<1> DEFINE now == combat.turn
           next == NextInOrder(combat.turn)
<1>1. now \in Ordered /\ Running
    BY DEF AdvanceTurn, CanAdvance
<1>2. Ordered \in SUBSET Entries /\ \A o \in Ordered : entry[o].order \in Nat
    BY DEF Ordered, Active, TypeOK, EntryRows
<1>3. next \in Ordered
    BY <1>1, NextIs
<1>4. \A e \in Entries : SameRoll(entry'[e], entry[e])
    BY <1>1, <1>2, <1>3, AdvanceTurnDoes
<1>5. Ordered' = Ordered /\ \A e \in Ordered : entry'[e].order = entry[e].order /\ entry'[e].total = entry[e].total
    BY <1>2, <1>4 DEF Ordered, Active, SameRoll
<1>6. combat'.turn = next /\ combat'.round = RoundAfter(next)
    BY AdvanceTurnTypes
<1>7. acted' = IF RoundAfter(next) = combat.round THEN acted \cup {next} ELSE {next}
    BY DEF AdvanceTurn
<1>8. /\ \A a, b \in Ordered : a # b => entry[a].order # entry[b].order
      /\ \A e \in Ordered : e \in acted <=> entry[e].order <= entry[now].order
    BY <1>1 DEF TurnInv, TurnsFollowInitiative, ActedIsPassed
<1>9. /\ \A e \in Ordered : e \in acted' <=> entry[e].order <= entry[next].order
      /\ IF After(now) = {} THEN combat'.round = combat.round + 1 /\ Ordered \subseteq acted
         ELSE combat'.round = combat.round /\ next \notin acted
  <2>1. CASE After(now) = {}
    <3>1. next = First(Ordered) /\ \A o \in Ordered : entry[next].order <= entry[o].order
        BY <1>1, <2>1, NextIs
    <3>2. RoundAfter(next) = combat.round + 1 /\ combat.round \in Nat
        BY <3>1 DEF RoundAfter, TypeOK, Combats
    <3>3. acted' = {next}
        BY <1>7, <3>2
    <3>4. \A e \in Ordered : entry[e].order <= entry[now].order
      <4>1. \A e \in Ordered : ~(entry[e].order > entry[now].order)
          BY <2>1 DEF After
      <4> QED
          BY <1>1, <1>2, <4>1
    <3>5. ASSUME NEW e \in Ordered PROVE e \in acted' <=> entry[e].order <= entry[next].order
      <4>1. entry[e].order <= entry[next].order => entry[e].order = entry[next].order
          BY <1>2, <1>3, <3>1
      <4> HIDE DEF next
      <4> QED
          BY <1>2, <1>3, <1>8, <3>3, <4>1
    <3> QED
        BY <1>6, <1>8, <2>1, <3>2, <3>4, <3>5
  <2>2. CASE After(now) # {}
    <3>1. /\ next \in After(now) /\ next # First(Ordered)
          /\ \A o \in After(now) : entry[next].order <= entry[o].order
        BY <1>1, <2>2, NextIs
    <3>2. RoundAfter(next) = combat.round
        BY <3>1 DEF RoundAfter
    <3>3. acted' = acted \cup {next}
        BY <1>7, <3>2
    <3>4. entry[next].order > entry[now].order
        BY <3>1 DEF After
    <3>5. next \notin acted
        BY <1>1, <1>2, <1>3, <1>8, <3>4
    <3>6. ASSUME NEW e \in Ordered PROVE e \in acted' <=> entry[e].order <= entry[next].order
      <4>1. entry[e].order > entry[now].order => entry[next].order <= entry[e].order
          BY <3>1 DEF After
      <4> HIDE DEF next, now
      <4>2. entry[e].order \in Nat /\ entry[next].order \in Nat /\ entry[now].order \in Nat
          BY <1>1, <1>2, <1>3
      <4>3. e # next => entry[e].order # entry[next].order
          BY <1>3, <1>8
      <4>4. e \in acted <=> entry[e].order <= entry[now].order
          BY <1>8
      <4> QED
          BY <3>3, <3>4, <4>1, <4>2, <4>3, <4>4
    <3> QED
        BY <1>6, <2>2, <3>2, <3>5, <3>6
  <2> QED
      BY <2>1, <2>2
<1> HIDE DEF next
<1>10. TurnInv'
    BY <1>1, <1>3, <1>5, <1>6, <1>9 DEF TurnInv, TurnsFollowInitiative, ActedIsPassed
<1> QED
    BY <1>3, <1>6, <1>9, <1>10

LEMMA TurnInvStep ==
    ASSUME TypeOK, NothingBefore, AbsentIsBlank, CallsName, RollsBound, OrdersReady, TurnInv, RollKinds
    PROVE  TurnInv'
<1>1. CASE RollsStay
  <2>1. OrderRemains
      BY <1>1 DEF RollsStay, SameRoll, OrderRemains, Ordered, Active
  <2> QED
      BY <2>1, OrderRemainsKeeps
<1>2. CASE Checking
  <2>1. OrderRemains
      BY <1>2 DEF Checking, OrderRemains, Ordered, Active
  <2> QED
      BY <2>1, OrderRemainsKeeps
<1>3. ASSUME NEW mode \in {"quick", "tactical"}, NEW monsters, NEW place, StartCombat(mode, monsters, place) PROVE TurnInv'
  <2>1. ~Running'
      BY <1>3 DEF StartCombat, Running, TypeOK, Combats
  <2> QED
      BY <2>1 DEF TurnInv, TurnsFollowInitiative, ActedIsPassed
<1>4. ASSUME NEW o \in Entries, NEW surprised \in BOOLEAN, AddEntry(o, surprised) PROVE TurnInv'
  <2>1. o \notin Ordered
      BY <1>4 DEF AddEntry, Ordered, Active
  <2>2. \A e \in Entries : /\ e = o => entry'[e].order = None
                           /\ e # o => entry'[e] = entry[e]
      BY <1>4, NewcomerIs
  <2>4. UNCHANGED <<combat, acted>>
      BY <1>4 DEF AddEntry, turnVars
  <2>5. ASSUME NEW e \in Ordered' PROVE e \in Entries /\ e # o /\ entry'[e] = entry[e] /\ e \in Ordered
    <3>1. e \in Entries /\ entry'[e].status = "active" /\ entry'[e].order # None
        BY <2>5 DEF Ordered, Active
    <3>2. e # o /\ entry'[e] = entry[e]
        BY <2>2, <3>1
    <3> QED
        BY <3>1, <3>2 DEF Ordered, Active
  <2>6. \A e \in Ordered : e \in Entries /\ e # o /\ entry'[e] = entry[e] /\ e \in Ordered'
      BY <2>1, <2>2 DEF Ordered, Active
  <2>3. OrderRemains
      BY <2>4, <2>5, <2>6 DEF OrderRemains
  <2> QED
      BY <2>3, OrderRemainsKeeps
<1>5. ASSUME NEW S \in SUBSET Active, RequestInitiative(S) PROVE TurnInv'
  <2>1. \A e \in Entries : /\ entry'[e].status = entry[e].status /\ entry'[e].order = entry[e].order
                          /\ entry'[e].total = entry[e].total
      BY <1>5, RequestInitiativeDoes
  <2>2. OrderRemains
      BY <1>5, <2>1 DEF RequestInitiative, OrderRemains, Ordered, Active
  <2> QED
      BY <2>2, OrderRemainsKeeps
<1>6. ASSUME NEW r \in requests, NEW total \in Totals, CompleteInitiative(r, total) PROVE TurnInv'
  <2>1. CASE Running
    <3>1. \A e \in Ordered : e \in Entries /\ entry[e].total # None
        BY <2>1 DEF TurnInv, TurnsFollowInitiative, Ordered, Active
    <3>2. Fighting'
        BY <1>6, <2>1 DEF CompleteInitiative, Fighting, Running
    <3>3. RollKinds
        BY <1>6 DEF RollKinds
    <3>4. \A e \in Ordered : entry'[e].total = entry[e].total
        BY <3>1, <3>2, <3>3, TotalsStay
    <3>5. \A e \in Entries : entry'[e].status = entry[e].status /\ entry'[e].order = entry[e].order
        BY <1>6, CompleteInitiativeDoes
    <3>6. OrderRemains
        BY <1>6, <3>4, <3>5 DEF CompleteInitiative, OrderRemains, Ordered, Active
    <3> QED
        BY <3>6, OrderRemainsKeeps
  <2>2. CASE ~Running
      BY <1>6, <2>2 DEF CompleteInitiative, Running, TurnInv, TurnsFollowInitiative, ActedIsPassed
  <2> QED
      BY <2>1, <2>2
<1>7. ASSUME NEW c \in calls, CommitFinalize(c) \/ CommitReorder(c) PROVE TurnInv'
    BY <1>7, FinalizeKeeps, ReorderKeeps
<1>8. CASE AdvanceTurn
    BY <1>8, AdvanceKeeps
<1>9. CASE EndCombat
  <2>1. ~Running'
      BY <1>9 DEF EndCombat, Running, TypeOK, Combats
  <2> QED
      BY <2>1 DEF TurnInv, TurnsFollowInitiative, ActedIsPassed
<1>10. ASSUME NEW o \in Entries, NEW status \in Outcomes(o), SetEntryStatus(o, status) PROVE TurnInv'
  <2>1. /\ \A e \in Entries \ {o} : entry'[e] = entry[e]
        /\ entry'[o].status = status /\ status # "active"
      BY <1>10, SetEntryStatusDoes DEF Only, Outcomes
  <2>2. Running => combat.turn # o
      BY <1>10 DEF SetEntryStatus, HasTheTurn
  <2>3. OrderRemains
      BY <1>10, <2>1, <2>2 DEF SetEntryStatus, turnVars, OrderRemains, Ordered, Active
  <2> QED
      BY <2>3, OrderRemainsKeeps
<1> QED
    BY <1>1, <1>2, <1>3, <1>4, <1>5, <1>6, <1>7, <1>8, <1>9, <1>10 DEF RollKinds

\* the turn moves only when it is ended
LEMMA TurnMoves ==
    ASSUME TypeOK, StepKinds, Running, Running', combat'.turn # combat.turn
    PROVE  AdvanceTurn
<1>1. ASSUME NEW mode, NEW monsters, NEW place, StartCombat(mode, monsters, place) PROVE FALSE
    BY <1>1 DEF StartCombat, Running
<1>2. ASSUME NEW c \in calls, CommitFinalize(c) PROVE FALSE
    BY <1>2 DEF CommitFinalize, Running
<1>3. ~EndCombat
    BY DEF EndCombat, Running, TypeOK, Combats
<1>4. ~(Quiet \/ Spending \/ Planning \/ Checking)
    BY DEF Quiet, Spending, Planning, Checking, tableVars, turnVars
<1>5. ASSUME NEW e, (\E surprised : AddEntry(e, surprised)) \/ (\E status : SetEntryStatus(e, status))
             \/ RequestInitiative(e) \/ CancelPause(e) \/ SetDoor(e)
      PROVE  FALSE
    BY <1>5 DEF AddEntry, SetEntryStatus, RequestInitiative, CancelPause, SetDoor, turnVars
<1>6. ASSUME NEW r, NEW total, CompleteInitiative(r, total) PROVE FALSE
    BY <1>6 DEF CompleteInitiative
<1>7. ASSUME NEW c \in calls, CommitReorder(c) \/ CommitMove(c) \/ CommitPlace(c) \/ CommitReposition(c) PROVE FALSE
    BY <1>7 DEF CommitReorder, CommitMove, CommitPlace, CommitReposition, turnVars
<1>8. ASSUME NEW owner, NEW e, NEW accept, AnswerWindow(owner, e, accept) PROVE FALSE
    BY <1>8 DEF AnswerWindow, turnVars
<1> QED
    BY <1>1, <1>2, <1>3, <1>4, <1>5, <1>6, <1>7, <1>8 DEF StepKinds

LEMMA RoundStep ==
    ASSUME TypeOK, TurnInv, StepKinds, Running, Running', combat'.turn # combat.turn
    PROVE  IF combat'.round = combat.round THEN combat'.turn \notin acted
           ELSE combat'.round = combat.round + 1 /\ Ordered \subseteq acted
<1>1. AdvanceTurn
    BY TurnMoves
<1>2. combat.round \in Nat
    BY DEF TypeOK, Combats
<1> QED
    BY <1>1, <1>2, AdvanceKeeps

-----------------------------------------------------------------------------
(* Hit points and death saves. *)

Lives == [up : BOOLEAN, out : BOOLEAN, ok : Nat, bad : Nat, end : {"open", "stable", "dead"}]
Sound(l) == IF l.up THEN Fresh(l) ELSE l.out \/ l.end = "dead"

LEMMA StandingIs == Standing \in Lives /\ Sound(Standing) /\ Standing.up
BY DEF Standing, Lives, Sound, Fresh

LEMMA FallenIs == LET l == [Standing EXCEPT !.up = FALSE, !.out = TRUE] IN l \in Lives /\ Sound(l)
BY DEF Standing, Lives, Sound, Fresh

LEMMA DeadIs ==
    ASSUME NEW l \in Lives
    PROVE  Dead(l) \in Lives /\ ~Dead(l).up /\ Dead(l).end = "dead"
BY DEF Dead, Lives

LEMMA FailedIs ==
    ASSUME NEW l \in Lives, NEW n \in Nat, ~l.up
    PROVE  /\ Failed(l, n) \in Lives /\ ~Failed(l, n).up
           /\ l.out => Sound(Failed(l, n))
<1>1. CASE l.bad + n >= 3
  <2>1. Failed(l, n) = Dead(l)
      BY <1>1 DEF Failed
  <2> QED
      BY <2>1, DeadIs DEF Sound
<1>2. CASE ~(l.bad + n >= 3)
  <2> PICK m \in Nat : m = l.bad + n
      BY DEF Lives
  <2>1. Failed(l, n) = [l EXCEPT !.bad = m, !.end = "open"]
      BY <1>2 DEF Failed, Lives
  <2> QED
      BY <2>1 DEF Lives, Sound
<1> QED
    BY <1>1, <1>2

\* a sound record stays sound, and any becomes sound when its owner goes up or down
Mends(l, new) == new \in Lives /\ (Sound(l) \/ new.up # l.up => Sound(new))

LEMMA WoundedIs ==
    ASSUME NEW l \in Lives, NEW wound \in Wounds, NEW critical \in BOOLEAN
    PROVE  Mends(l, Wounded(l, wound, critical))
<1>1. CASE wound = "none" \/ (wound = "hurt" /\ (l.up \/ l.end = "dead"))
  <2>1. Wounded(l, wound, critical) = l
      BY <1>1 DEF Wounded
  <2> QED
      BY <2>1 DEF Mends
<1>2. CASE wound \in {"felled", "killed"} /\ l.end = "dead"
  <2>1. Wounded(l, wound, critical) = [l EXCEPT !.up = FALSE]
      BY <1>2 DEF Wounded
  <2> QED
      BY <1>2, <2>1 DEF Mends, Lives, Sound
<1>3. CASE wound = "hurt" /\ ~l.up /\ l.end # "dead"
  <2>1. Wounded(l, wound, critical) = [l EXCEPT !.out = TRUE]
      BY <1>3 DEF Wounded
  <2> QED
      BY <1>3, <2>1 DEF Mends, Lives, Sound
<1>4. CASE wound = "killed" /\ l.end # "dead"
  <2>1. Wounded(l, wound, critical) = Dead(l)
      BY <1>4 DEF Wounded
  <2> QED
      BY <2>1, DeadIs DEF Sound, Mends
<1>5. CASE wound = "felled" /\ l.end # "dead"
  <2> PICK n \in Nat : n = IF critical THEN 2 ELSE 1
      OBVIOUS
  <2>1. Wounded(l, wound, critical) = IF l.up THEN [Standing EXCEPT !.up = FALSE, !.out = TRUE]
                                      ELSE [Failed(l, n) EXCEPT !.out = TRUE]
      BY <1>5 DEF Wounded
  <2>2. CASE l.up
      BY <2>1, <2>2, FallenIs DEF Mends
  <2>3. CASE ~l.up
    <3>1. Failed(l, n) \in Lives /\ ~Failed(l, n).up
        BY <2>3, FailedIs
    <3> PICK f : f = Failed(l, n)
        OBVIOUS
    <3>2. Wounded(l, wound, critical) = [f EXCEPT !.out = TRUE]
        BY <2>1, <2>3
    <3> QED
        BY <3>1, <3>2 DEF Lives, Sound, Mends
  <2> QED
      BY <2>2, <2>3
<1> QED
    BY <1>1, <1>2, <1>3, <1>4, <1>5 DEF Wounds

LEMMA HealedIs ==
    ASSUME NEW l \in Lives
    PROVE  Mends(l, Healed(l)) /\ Mends(l, HealedBySpell(l))
<1> PICK r : r = Raised(l)
    OBVIOUS
<1>1. r \in Lives /\ Sound(r) /\ r.up
    BY DEF Raised, Standing, Lives, Sound, Fresh
<1>2. [r EXCEPT !.out = FALSE] \in Lives /\ Sound([r EXCEPT !.out = FALSE])
    BY <1>1 DEF Lives, Sound, Fresh
<1> QED
    BY <1>1, <1>2 DEF Healed, HealedBySpell, Mends

LEMMA AfterDeathSaveIs ==
    ASSUME NEW l \in Lives, ~l.up, l.end = "open", NEW roll \in Rolls
    PROVE  Mends(l, AfterDeathSave(l, roll))
<1>1. Sound(l) => l.out
    BY DEF Sound
<1>2. CASE roll = "natural 20"
    BY <1>2, StandingIs DEF AfterDeathSave, Mends
<1>3. CASE roll = "natural 1" \/ roll = "failure"
  <2> PICK n \in Nat : n = IF roll = "natural 1" THEN 2 ELSE 1
      OBVIOUS
  <2> PICK f : f = Failed(l, n)
      OBVIOUS
  <2>1. AfterDeathSave(l, roll) = f
      BY <1>3 DEF AfterDeathSave
  <2>2. f \in Lives /\ ~f.up /\ (l.out => Sound(f))
      BY FailedIs
  <2>3. Sound(l) => Sound(f)
      BY <1>1, <2>2
  <2>4. f.up = l.up
      BY <2>2 DEF Lives
  <2> QED
      BY <2>1, <2>2, <2>3, <2>4 DEF Mends
<1>4. CASE roll = "success"
  <2> PICK m \in Nat : m = l.ok + 1
      BY DEF Lives
  <2>1. AfterDeathSave(l, roll) = IF l.ok = 2 THEN [l EXCEPT !.ok = 0, !.bad = 0, !.end = "stable"] ELSE [l EXCEPT !.ok = m]
      BY <1>4 DEF AfterDeathSave, Lives
  <2>2. CASE l.ok = 2
    <3> DEFINE k == [l EXCEPT !.ok = 0, !.bad = 0, !.end = "stable"]
    <3>1. k \in Lives /\ k.out = l.out /\ k.up = l.up
        BY DEF Lives
    <3>2. AfterDeathSave(l, roll) = k
        BY <2>1, <2>2
    <3> HIDE DEF k
    <3> QED
        BY <1>1, <3>1, <3>2 DEF Sound, Mends
  <2>3. CASE l.ok # 2
      BY <1>1, <2>1, <2>3 DEF Lives, Sound, Mends
  <2> QED
      BY <2>2, <2>3
<1> QED
    BY <1>2, <1>3, <1>4 DEF Rolls

LivesSound ==
    /\ life \in [Characters -> Lives] /\ corrected \in SUBSET Characters
    /\ \A c \in Characters \ corrected : Sound(life[c])

LivesMend == life' \in [Characters -> Lives] /\ \A c \in Characters : Mends(life[c], life'[c])

LEMMA LifeStays ==
    ASSUME LivesSound, UNCHANGED life
    PROVE  LivesMend
BY DEF LivesSound, LivesMend, Mends

\* one Character's record changes, or several as damage changes them
LEMMA OneLife ==
    ASSUME LivesSound, NEW c, NEW l, life' = [life EXCEPT ![c] = l], c \in Characters => Mends(life[c], l)
    PROVE  LivesMend
<1>1. CASE c \in Characters
    BY <1>1 DEF LivesSound, LivesMend, Mends
<1>2. CASE c \notin Characters
  <2>1. life' = life
      BY <1>2 DEF LivesSound
  <2> QED
      BY <2>1, LifeStays
<1> QED
    BY <1>1, <1>2

LEMMA SomeWounded ==
    ASSUME LivesSound, NEW S, NEW wound, \A c \in S : wound[c] \in Wounds, NEW critical \in BOOLEAN,
           life' = [c \in Characters |-> IF c \in S THEN Wounded(life[c], wound[c], critical) ELSE life[c]]
    PROVE  LivesMend
<1>1. ASSUME NEW c \in Characters PROVE Mends(life[c], life'[c])
  <2>1. life[c] \in Lives
      BY DEF LivesSound
  <2>2. CASE c \in S
      BY <2>1, <2>2, WoundedIs
  <2>3. CASE c \notin S
      BY <2>1, <2>3 DEF Mends
  <2> QED
      BY <2>2, <2>3
<1> QED
    BY <1>1 DEF LivesMend, Mends

LEMMA MendedAreSound ==
    ASSUME LivesSound, LivesMend, HandsOff
    PROVE  LivesSound'
<1>1. corrected' = {c \in corrected : life'[c].up = life[c].up}
    BY DEF HandsOff
<1>2. ASSUME NEW c \in Characters \ corrected' PROVE Sound(life'[c])
  <2>1. c \notin corrected \/ life'[c].up # life[c].up
      BY <1>1, <1>2
  <2>2. Sound(life[c]) \/ life'[c].up # life[c].up
      BY <2>1 DEF LivesSound
  <2> QED
      BY <2>2 DEF LivesMend, Mends
<1> QED
    BY <1>1, <1>2 DEF LivesSound, LivesMend

\* who is written by hand is left out until then
LEMMA WrittenLives ==
    ASSUME LivesSound, HandWrite
    PROVE  LivesSound'
<1> PICK c \in Characters, up \in BOOLEAN, out \in BOOLEAN, pointer \in Holds \cup {None}, marks \in SUBSET Nat :
         WriteState(c, up, out, pointer, marks)
    BY DEF HandWrite
<1> DEFINE l == [life[c] EXCEPT !.up = up, !.out = out]
<1>1. life[c] \in Lives /\ life \in [Characters -> Lives] /\ corrected \in SUBSET Characters
    BY DEF LivesSound
<1>2. l \in Lives
    BY <1>1 DEF Lives
<1>3. life' = [life EXCEPT ![c] = l]
    BY <1>1 DEF WriteState
<1>4. life'[c] = life[c] \/ c \in corrected'
    BY DEF WriteState
<1>5. corrected \subseteq corrected' /\ corrected' \in SUBSET Characters
    BY <1>1 DEF WriteState
<1> HIDE DEF l
<1>6. ASSUME NEW x \in Characters \ corrected' PROVE Sound(life'[x])
  <2>1. life'[x] = life[x]
      BY <1>1, <1>3, <1>4, <1>6
  <2> QED
      BY <1>5, <2>1 DEF LivesSound
<1> QED
    BY <1>1, <1>2, <1>3, <1>5, <1>6 DEF LivesSound

LEMMA LivesStep ==
    ASSUME BodiesTypeOK, LivesSound, [Next]_<<vars, healthVars, rows>>
    PROVE  LivesSound'
<1>0. \A c \in Characters : life[c] \in Lives
    BY DEF LivesSound
<1>1. CASE UNCHANGED healthVars
    BY <1>1 DEF LivesSound, healthVars
<1>2. ASSUME NEW e, NEW t, NEW spell, NEW lands \in BOOLEAN, NEW mends \in BOOLEAN, NEW wound \in Wounds, Cast(e, t, spell, lands, wound, mends)
      PROVE  LivesSound'
  <2>0. HandsOff
      BY <1>2 DEF Cast
  <2>1. CASE t \notin Characters
    <3>1. UNCHANGED life
        BY <1>2, <2>1 DEF Cast
    <3> QED
        BY <2>0, <3>1, LifeStays, MendedAreSound
  <2>2. CASE t \in Characters
    <3>1. life' = [life EXCEPT ![t] = IF mends THEN HealedBySpell(life[t]) ELSE Wounded(life[t], wound, FALSE)]
        BY <1>2, <2>2 DEF Cast, LivesSound
    <3>2. Mends(life[t], HealedBySpell(life[t])) /\ Mends(life[t], Wounded(life[t], wound, FALSE))
        BY <1>0, <2>2, HealedIs, WoundedIs
    <3>3. LivesMend
        BY <2>2, <3>1, <3>2, OneLife
    <3> QED
        BY <2>0, <3>3, MendedAreSound
  <2> QED
      BY <2>1, <2>2
<1>3. ASSUME NEW t \in Active, NEW wound \in Wounds, NEW critical \in BOOLEAN, ApplyDamage(t, wound, critical) PROVE LivesSound'
  <2>0. HandsOff
      BY <1>3 DEF ApplyDamage
  <2>1. CASE t \notin Characters
    <3>1. UNCHANGED life
        BY <1>3, <2>1 DEF ApplyDamage
    <3> QED
        BY <2>0, <3>1, LifeStays, MendedAreSound
  <2>2. CASE t \in Characters
    <3>1. life' = [life EXCEPT ![t] = Wounded(life[t], wound, critical)]
        BY <1>3, <2>2 DEF ApplyDamage, LivesSound
    <3>2. LivesMend
        BY <1>0, <2>2, <3>1, WoundedIs, OneLife
    <3> QED
        BY <2>0, <3>2, MendedAreSound
  <2> QED
      BY <2>1, <2>2
<1>4. ASSUME NEW c \in Characters, ApplyHealing(c) PROVE LivesSound'
  <2>1. life' = [life EXCEPT ![c] = Healed(life[c])] /\ HandsOff
      BY <1>4 DEF ApplyHealing, LivesSound
  <2>2. LivesMend
      BY <1>0, <2>1, HealedIs, OneLife
  <2> QED
      BY <2>1, <2>2, MendedAreSound
<1>5. ASSUME NEW r \in rows, NEW wound \in Wounds, NEW critical \in BOOLEAN, CompleteAttack(r, wound, critical) PROVE LivesSound'
  <2>1. life' = [c \in Characters |-> IF c \in r.at THEN Wounded(life[c], wound, critical) ELSE life[c]] /\ HandsOff
      BY <1>5 DEF CompleteAttack
  <2> PICK wounds : wounds = [c \in r.at |-> wound]
      OBVIOUS
  <2>2. \A c \in r.at : wounds[c] = wound
      OBVIOUS
  <2>3. life' = [c \in Characters |-> IF c \in r.at THEN Wounded(life[c], wounds[c], critical) ELSE life[c]]
      BY <2>1, <2>2
  <2>4. LivesMend
      BY <2>2, <2>3, SomeWounded
  <2> QED
      BY <2>1, <2>4, MendedAreSound
<1>6. ASSUME NEW r \in rows, NEW confirmed \in SUBSET r.at, NEW wound \in [confirmed -> Wounds], ResolveArea(r, confirmed, wound)
      PROVE  LivesSound'
  <2>1. life' = [c \in Characters |-> IF c \in confirmed THEN Wounded(life[c], wound[c], FALSE) ELSE life[c]] /\ HandsOff
      BY <1>6 DEF ResolveArea
  <2>2. LivesMend
      BY <2>1, SomeWounded
  <2> QED
      BY <2>1, <2>2, MendedAreSound
<1>7. ASSUME NEW r \in rows, NEW roll \in Rolls, CompleteDeathSave(r, roll) PROVE LivesSound'
  <2>1. /\ life' = [life EXCEPT ![r.by] = AfterDeathSave(life[r.by], roll)] /\ ~life[r.by].up /\ life[r.by].end = "open"
        /\ HandsOff
      BY <1>7 DEF CompleteDeathSave, Dying, LivesSound
  <2>2. LivesMend
      BY <1>0, <2>1, AfterDeathSaveIs, OneLife
  <2> QED
      BY <2>1, <2>2, MendedAreSound
<1>8. CASE HealthNext
  <2>1. ASSUME NEW k, NEW success, JudgeCheck(k, success) \/ DropConcentration(k) PROVE LivesSound'
    <3>1. UNCHANGED life /\ HandsOff
        BY <2>1 DEF JudgeCheck, DropConcentration
    <3> QED
        BY <3>1, LifeStays, MendedAreSound
  <2>2. CASE HandWrite
      BY <2>2, WrittenLives
  <2>3. CASE Resolving
      BY <1>2, <1>3, <1>4, <2>1, <2>3 DEF Resolving
  <2> QED
      BY <1>8, <2>2, <2>3, HealthIs
<1>9. CASE ActionsNext
  <2>1. ASSUME NEW e, NEW t, DeclareAttack(e, t) \/ RequestEscape(e, t) \/ (\E kind : AskReach(kind, e, t) \/ AskRuling(kind, e, t))
               \/ ProposeArea(e, t) \/ RequestDeathSave(e) \/ RuleReach(e, t) \/ Rule(e, t) \/ CompleteOpposed(e)
        PROVE  LivesSound'
      BY <1>1, <2>1 DEF DeclareAttack, RequestEscape, AskReach, AskRuling, ProposeArea, RequestDeathSave,
                        RuleReach, Rule, CompleteOpposed
  <2> QED
      BY <1>5, <1>6, <1>7, <1>9, <2>1 DEF ActionsNext
<1>10. CASE Bodies \/ UNCHANGED <<vars, healthVars, rows>>
    BY <1>1, <1>10 DEF Bodies
<1> QED
    BY <1>8, <1>9, <1>10 DEF Next

-----------------------------------------------------------------------------
(* Concentration, effects and the checks they ask for. *)

\* e concentrates on something new or on nothing: what its last pointer kept
\* alive is gone from the active combatants, and only the new one may appear
HeldAnew ==
    \E e \in Active, new \in Holds \cup {None} :
       /\ concentration' = [concentration EXCEPT ![e] = new]
       /\ effects' \in [Entries -> SUBSET Nat]
       /\ \A x \in Entries \ Active : effects'[x] \subseteq effects[x]
       /\ \A x \in Active : \A n \in effects'[x] :
             (n \in effects[x] /\ n \notin Replaced(e)) \/ (new # None /\ n \in new.ids)

\* a stray effect stays one as long as it is there
StraysStay ==
    /\ strays' \in [Entries -> SUBSET Nat]
    /\ \A x \in Entries : strays[x] \cap effects'[x] \subseteq strays'[x]

LEMMA OffStays ==
    ASSUME BodiesTypeOK, HandsOff
    PROVE  StraysStay
BY DEF BodiesTypeOK, HandsOff, StraysStay

LEMMA WithoutIs ==
    ASSUME effects \in [Entries -> SUBSET Nat], NEW ids, NEW own
    PROVE  /\ Without(ids, own) \in [Entries -> SUBSET Nat]
           /\ \A x \in Entries : Without(ids, own)[x] \subseteq effects[x]
           /\ \A x \in Active : Without(ids, own)[x] = effects[x] \ ids
<1>1. Active \subseteq Entries
    BY DEF Active
<1> QED
    BY <1>1 DEF Without, Reached

LEMMA ReleaseIs ==
    ASSUME BodiesTypeOK, NEW e \in Active, Release(e)
    PROVE  HeldAnew
<1> PICK new : new = None
    OBVIOUS
<1> PICK kept : kept = Without(Replaced(e), {e})
    OBVIOUS
<1>1. concentration' = [concentration EXCEPT ![e] = new] /\ effects' = kept
    BY DEF Release
<1>2. /\ kept \in [Entries -> SUBSET Nat] /\ \A x \in Entries : kept[x] \subseteq effects[x]
      /\ \A x \in Active : kept[x] = effects[x] \ Replaced(e)
    BY WithoutIs DEF BodiesTypeOK
<1>3. new \in Holds \cup {None}
    OBVIOUS
<1>4. \A x \in Active : \A n \in effects'[x] : n \in effects[x] /\ n \notin Replaced(e)
    BY <1>1, <1>2
<1>5. \A x \in Entries \ Active : effects'[x] \subseteq effects[x]
    BY <1>1, <1>2
<1> QED
    BY <1>1, <1>2, <1>3, <1>4, <1>5 DEF HeldAnew

LEMMA CastIs ==
    ASSUME BodiesTypeOK, NEW e \in Active, NEW t \in Active \cup {None}, NEW spell \in Spells, NEW lands \in BOOLEAN,
           NEW mends \in BOOLEAN, NEW wound \in Wounds, Cast(e, t, spell, lands, wound, mends), spell # None
    PROVE  HeldAnew /\ casts' \in Nat
<1> PICK n \in Nat : n = casts + 1
    BY DEF BodiesTypeOK
<1>1. casts' = n
    BY DEF Cast
<1> PICK ids \in SUBSET Nat : ids = IF lands THEN {n} ELSE {}
    OBVIOUS
<1> PICK new \in Holds : new = [spell |-> spell, ids |-> ids]
    BY DEF Holds
<1>2. new.ids = ids /\ new # None
    BY HoldsAssumption
<1>3. concentration' = [concentration EXCEPT ![e] = new]
    BY <1>1 DEF Cast
<1> PICK own : own = {e, t}
    OBVIOUS
<1> PICK kept : kept = Without(Replaced(e), own)
    OBVIOUS
<1> PICK holder \in Active : holder = IF t = None THEN e ELSE t
    OBVIOUS
<1>4. effects' = IF lands THEN [kept EXCEPT ![holder] = kept[holder] \cup {n}] ELSE kept
    BY <1>1 DEF Cast
<1>5. /\ kept \in [Entries -> SUBSET Nat] /\ \A x \in Entries : kept[x] \subseteq effects[x]
      /\ \A x \in Active : kept[x] = effects[x] \ Replaced(e)
    BY WithoutIs DEF BodiesTypeOK
<1>6. holder \in Entries
    BY DEF Active
<1>7. effects' \in [Entries -> SUBSET Nat]
  <2>1. kept[holder] \cup {n} \in SUBSET Nat
      BY <1>5, <1>6
  <2> QED
      BY <1>4, <1>5, <1>6, <2>1
<1>8. \A x \in Entries \ Active : effects'[x] \subseteq effects[x]
    BY <1>4, <1>5
<1>9. ASSUME NEW x \in Active, NEW m \in effects'[x] PROVE (m \in effects[x] /\ m \notin Replaced(e)) \/ m \in ids
  <2>1. x \in Entries
      BY DEF Active
  <2>2. m \in kept[x] \/ (lands /\ m = n)
      BY <1>4, <1>5, <2>1
  <2> QED
      BY <1>5, <2>2
<1> QED
    BY <1>1, <1>2, <1>3, <1>7, <1>8, <1>9 DEF HeldAnew

HeldOrAnew ==
    /\ casts' \in Nat
    /\ HandWrite \/ (StraysStay /\ (UNCHANGED <<concentration, effects>> \/ HeldAnew))

LEMMA EffectKinds ==
    ASSUME BodiesTypeOK, [Next]_<<vars, healthVars, rows>>
    PROVE  HeldOrAnew
<1>0. casts \in Nat
    BY DEF BodiesTypeOK
<1> DEFINE Kept == UNCHANGED <<concentration, effects, casts>> /\ StraysStay
<1>1. Kept => HeldOrAnew
    BY <1>0 DEF HeldOrAnew
<1>2. ASSUME NEW e \in Active, NEW t \in Active \cup {None}, NEW spell \in Spells \cup {None}, NEW lands \in BOOLEAN,
             NEW mends \in BOOLEAN, NEW wound \in Wounds, Cast(e, t, spell, lands, wound, mends)
      PROVE  HeldOrAnew
  <2>1. StraysStay
      BY <1>2, OffStays DEF Cast
  <2>2. CASE spell = None
      BY <1>1, <1>2, <2>1, <2>2 DEF Cast
  <2>3. CASE spell # None
      BY <1>2, <2>1, <2>3, CastIs DEF HeldOrAnew
  <2> QED
      BY <2>2, <2>3
<1>3. ASSUME NEW k, NEW success \in BOOLEAN, JudgeCheck(k, success) PROVE HeldOrAnew
  <2>1. StraysStay
      BY <1>3, OffStays DEF JudgeCheck
  <2>2. CASE success
      BY <1>1, <1>3, <2>1, <2>2 DEF JudgeCheck
  <2>3. CASE ~success
    <3>1. k.of \in Active /\ Release(k.of) /\ casts' = casts
        BY <1>3, <2>3 DEF JudgeCheck
    <3> QED
        BY <1>0, <2>1, <3>1, ReleaseIs DEF HeldOrAnew
  <2> QED
      BY <2>2, <2>3
<1>4. ASSUME NEW e \in Active, DropConcentration(e) PROVE HeldOrAnew
  <2>1. StraysStay
      BY <1>4, OffStays DEF DropConcentration
  <2> QED
      BY <1>0, <1>4, <2>1, ReleaseIs DEF DropConcentration, HeldOrAnew
<1>5. ASSUME NEW t, NEW wound, NEW critical, ApplyDamage(t, wound, critical) \/ ApplyHealing(t) PROVE HeldOrAnew
  <2>1. UNCHANGED <<concentration, effects, casts>> /\ HandsOff
      BY <1>5 DEF ApplyDamage, ApplyHealing
  <2> QED
      BY <1>1, <2>1, OffStays
<1>6. CASE HealthNext
  <2>1. CASE HandWrite
      BY <1>0, <2>1, WriteLeaves DEF HeldOrAnew
  <2>2. CASE Resolving
      BY <1>2, <1>3, <1>4, <1>5, <2>2 DEF Resolving
  <2> QED
      BY <1>6, <2>1, <2>2, HealthIs
<1>7. UNCHANGED healthVars => HeldOrAnew
  <2>1. UNCHANGED healthVars => Kept
      BY DEF healthVars, StraysStay, BodiesTypeOK
  <2> QED
      BY <1>1, <2>1
<1>8. ASSUME NEW e, NEW t, NEW w,
             \/ DeclareAttack(e, t) \/ RequestEscape(e, t) \/ (\E kind : AskReach(kind, e, t) \/ AskRuling(kind, e, t))
             \/ ProposeArea(e, t) \/ RequestDeathSave(e) \/ RuleReach(e, t) \/ Rule(e, t) \/ CompleteOpposed(e)
      PROVE  HeldOrAnew
    BY <1>7, <1>8 DEF DeclareAttack, RequestEscape, AskReach, AskRuling, ProposeArea, RequestDeathSave,
                      RuleReach, Rule, CompleteOpposed
<1>9. ASSUME NEW e, NEW t, NEW w, CompleteAttack(e, t, w) \/ ResolveArea(e, t, w) \/ CompleteDeathSave(e, t)
      PROVE  HeldOrAnew
  <2>1. UNCHANGED <<concentration, effects, casts>> /\ HandsOff
      BY <1>9 DEF CompleteAttack, ResolveArea, CompleteDeathSave
  <2> QED
      BY <1>1, <2>1, OffStays
<1>10. CASE ActionsNext
    BY <1>8, <1>9, <1>10 DEF ActionsNext
<1>11. CASE Bodies \/ UNCHANGED <<vars, healthVars, rows>>
    BY <1>7, <1>11 DEF Bodies
<1> QED
    BY <1>6, <1>10, <1>11 DEF Next

LEMMA WriteTypes ==
    ASSUME BodiesTypeOK, HandWrite
    PROVE  /\ concentration' \in [Entries -> Holds \cup {None}] /\ effects' \in [Entries -> SUBSET Nat]
           /\ strays' \in [Entries -> SUBSET Nat]
<1> PICK c \in Characters, up \in BOOLEAN, out \in BOOLEAN, pointer \in Holds \cup {None}, marks \in SUBSET Nat : WriteState(c, up, out, pointer, marks)
    BY DEF HandWrite
<1>1. c \in Entries
    BY DEF Entries
<1>2. concentration' = [concentration EXCEPT ![c] = pointer] /\ effects' = [effects EXCEPT ![c] = marks]
    BY DEF WriteState
<1>3. concentration' \in [Entries -> Holds \cup {None}] /\ effects' \in [Entries -> SUBSET Nat]
    BY <1>1, <1>2 DEF BodiesTypeOK
<1>4. strays' \in [Entries -> SUBSET Nat]
    BY <1>3 DEF WriteState, Unheld
<1> QED
    BY <1>3, <1>4

\* a write by hand marks the effects it leaves without a holder
LEMMA WriteMarks ==
    ASSUME HandWrite, NEW x \in Entries, NEW n \in effects'[x]
    PROVE  n \in strays'[x] \/ (entry'[x].status = "active" /\ Held(n)')
BY DEF HandWrite, WriteState, Unheld, Active

\* whose effects end are active combatants; nobody joins in the same step
LEMMA HeldAnewStays ==
    ASSUME TypeOK, BodiesTypeOK, [Next]_<<vars, healthVars, rows>>, ~UNCHANGED <<concentration, effects>>
    PROVE  \A e \in Entries : entry'[e].status = entry[e].status
<1>1. ~(Bodies \/ UNCHANGED <<vars, healthVars, rows>>)
    BY DEF Bodies, healthVars
<1>2. HealthNext \/ ActionsNext
    BY <1>1 DEF Next
<1>3. Quiet \/ Spending
    BY <1>2, HealthKinds, ActionKinds
<1> QED
    BY <1>3 DEF Quiet, Spending, tableVars, Only, SameRoll

LEMMA AbsentIsUnaffectedStep ==
    ASSUME TypeOK, BodiesTypeOK, NothingBefore, CallsName, PausesPlanned, AbsentIsUnaffected, StepKinds,
           [Next]_<<vars, healthVars, rows>>
    PROVE  AbsentIsUnaffected'
<1> SUFFICES ASSUME NEW e \in Entries, ~Present(e)', NEW n \in effects'[e]
             PROVE  n \in strays'[e]
    BY DEF AbsentIsUnaffected
<1>1. ~Present(e) /\ effects[e] \subseteq strays[e]
    BY PresenceStep DEF AbsentIsUnaffected
<1>2. CASE HandWrite
    BY <1>2, WriteMarks DEF Present
<1>3. CASE StraysStay /\ (UNCHANGED <<concentration, effects>> \/ HeldAnew)
  <2>1. e \notin Active
      BY <1>1 DEF Active, Present
  <2>2. n \in effects[e]
      BY <1>3, <2>1 DEF HeldAnew
  <2> QED
      BY <1>1, <1>3, <2>2 DEF StraysStay
<1> QED
    BY <1>2, <1>3, EffectKinds DEF HeldOrAnew

LEMMA EffectsAreHeldStep ==
    ASSUME TypeOK, BodiesTypeOK, NothingBefore, CallsName, PausesPlanned, AbsentIsUnaffected, EffectsAreHeld, StepKinds,
           [Next]_<<vars, healthVars, rows>>
    PROVE  EffectsAreHeld'
<1> SUFFICES ASSUME NEW x \in Entries, entry'[x].status = "active", NEW n \in effects'[x]
             PROVE  Held(n)' \/ n \in strays'[x]
    BY DEF EffectsAreHeld, Active
<1>1. CASE HandWrite
    BY <1>1, WriteMarks
<1>2. CASE StraysStay /\ UNCHANGED <<concentration, effects>>
  <2>1. n \in effects[x] /\ concentration' = concentration
      BY <1>2
  <2>2. CASE n \in strays[x]
      BY <1>2, <2>2 DEF StraysStay
  <2>3. CASE n \notin strays[x]
    <3>1. Present(x)
        BY <2>1, <2>3 DEF AbsentIsUnaffected
    <3>2. x \in Active
        BY <3>1, PresenceStep DEF Active
    <3>3. Held(n)
        BY <2>1, <2>3, <3>2 DEF EffectsAreHeld
    <3> QED
        BY <2>1, <3>3 DEF Held
  <2> QED
      BY <2>2, <2>3
<1>3. CASE StraysStay /\ HeldAnew /\ ~UNCHANGED <<concentration, effects>>
  <2>1. x \in Active
      BY <1>3, HeldAnewStays DEF Active
  <2> PICK e \in Active, new \in Holds \cup {None} :
         /\ concentration' = [concentration EXCEPT ![e] = new]
         /\ \A m \in effects'[x] : (m \in effects[x] /\ m \notin Replaced(e)) \/ (new # None /\ m \in new.ids)
      BY <1>3, <2>1 DEF HeldAnew
  <2>2. e \in Entries /\ concentration \in [Entries -> Holds \cup {None}]
      BY DEF Active, BodiesTypeOK
  <2>3. CASE new # None /\ n \in new.ids
      BY <2>2, <2>3 DEF Held
  <2>4. CASE n \in strays[x]
      BY <1>3, <2>4 DEF StraysStay
  <2>5. CASE n \in effects[x] /\ n \notin Replaced(e) /\ n \notin strays[x]
    <3>1. Held(n)
        BY <2>1, <2>5 DEF EffectsAreHeld
    <3> PICK h \in Entries : concentration[h] # None /\ n \in concentration[h].ids
        BY <3>1 DEF Held
    <3>2. h # e
        BY <2>5 DEF Replaced
    <3> QED
        BY <2>2, <3>2 DEF Held
  <2> QED
      BY <2>3, <2>4, <2>5
<1> QED
    BY <1>1, <1>2, <1>3, EffectKinds DEF HeldOrAnew

ChecksOf == [of : Entries, spell : Spells, session : Nat, no : Nat]
ChecksTyped == checks \in SUBSET ChecksOf

LEMMA AskSavesIs ==
    ASSUME TypeOK, checks \in SUBSET ChecksOf, concentration' \in [Entries -> Holds \cup {None}],
           NEW S \in SUBSET Entries, AskSaves(S), \A e \in S : concentration'[e] # None
    PROVE  checks' \in SUBSET ChecksOf
<1>1. ASSUME NEW e \in S
      PROVE  [of |-> e, spell |-> concentration'[e].spell, session |-> session.no,
              no |-> CHOOSE n \in 1..MaxChecks : \A k \in checks : k.of = e => k.no # n] \in ChecksOf
  <2>1. \E n \in 1..MaxChecks : \A k \in checks : k.of = e => k.no # n
      BY DEF AskSaves
  <2> PICK m \in Nat : m = CHOOSE n \in 1..MaxChecks : \A k \in checks : k.of = e => k.no # n
      BY <2>1
  <2>2. concentration'[e] \in Holds
      OBVIOUS
  <2> PICK spell \in Spells : spell = concentration'[e].spell
      BY <2>2 DEF Holds
  <2> PICK no \in Nat : no = session.no
      BY DEF TypeOK, Sessions
  <2>3. [of |-> e, spell |-> spell, session |-> no, no |-> m] \in ChecksOf
      BY DEF ChecksOf
  <2> QED
      BY <2>3
<1> QED
    BY <1>1 DEF AskSaves

LEMMA HoldingIs ==
    ASSUME NEW T
    PROVE  \A e \in Holding(T) : e \in T /\ concentration'[e] # None
BY DEF Holding

LEMMA ChecksStep ==
    ASSUME TypeOK, BodiesTypeOK, ChecksTyped, concentration' \in [Entries -> Holds \cup {None}], [Next]_<<vars, healthVars, rows>>
    PROVE  ChecksTyped'
<1>1. checks' \subseteq checks => ChecksTyped'
    BY DEF ChecksTyped
<1>2. ASSUME NEW T \in SUBSET Entries, AskSaves(Holding(T)) PROVE ChecksTyped'
  <2> PICK S : S = Holding(T)
      OBVIOUS
  <2>1. S \in SUBSET Entries /\ \A e \in S : concentration'[e] # None
      BY HoldingIs
  <2>2. AskSaves(S)
      BY <1>2
  <2> QED
      BY <2>1, <2>2, AskSavesIs DEF ChecksTyped
<1>3. ASSUME AskSaves({}) PROVE ChecksTyped'
    BY <1>3 DEF AskSaves, ChecksTyped
<1>4. ASSUME NEW e, NEW t \in Active \cup {None}, NEW spell, NEW lands, NEW mends, NEW wound, Cast(e, t, spell, lands, wound, mends)
      PROVE  ChecksTyped'
  <2>1. CASE wound = "none"
      BY <1>3, <1>4, <2>1 DEF Cast
  <2>2. CASE wound # "none"
    <3>1. AskSaves(Holding({t})) /\ t # None
        BY <1>4, <2>2 DEF Cast
    <3>2. {t} \in SUBSET Entries
        BY <3>1 DEF Active
    <3> QED
        BY <1>2, <3>1, <3>2
  <2> QED
      BY <2>1, <2>2
<1>5. ASSUME NEW t \in Active, NEW wound, NEW critical, ApplyDamage(t, wound, critical) PROVE ChecksTyped'
  <2>1. AskSaves(Holding({t})) /\ {t} \in SUBSET Entries
      BY <1>5 DEF ApplyDamage, Active
  <2> QED
      BY <1>2, <2>1
<1>6. ASSUME NEW c, NEW k, NEW success, ApplyHealing(c) \/ JudgeCheck(k, success) \/ DropConcentration(c) PROVE ChecksTyped'
    BY <1>1, <1>6 DEF ApplyHealing, JudgeCheck, DropConcentration
<1>7. ASSUME NEW r, NEW confirmed, NEW wound, ResolveArea(r, confirmed, wound) PROVE ChecksTyped'
  <2> PICK T : T = {c \in confirmed \cap Characters : wound[c] # "none"}
      OBVIOUS
  <2>1. AskSaves(Holding(T)) /\ T \in SUBSET Entries
      BY <1>7 DEF ResolveArea, Entries
  <2> QED
      BY <1>2, <2>1
<1>8. ASSUME NEW e, NEW t, NEW w,
             \/ DeclareAttack(e, t) \/ RequestEscape(e, t) \/ (\E kind : AskReach(kind, e, t) \/ AskRuling(kind, e, t))
             \/ ProposeArea(e, t) \/ RequestDeathSave(e) \/ RuleReach(e, t) \/ Rule(e, t) \/ CompleteOpposed(e)
             \/ CompleteAttack(e, t, w) \/ CompleteDeathSave(e, t)
      PROVE  ChecksTyped'
  <2>1. UNCHANGED checks
      BY <1>8 DEF DeclareAttack, RequestEscape, AskReach, AskRuling, ProposeArea, RequestDeathSave,
                  RuleReach, Rule, CompleteOpposed, CompleteAttack, CompleteDeathSave, healthVars
  <2> QED
      BY <1>1, <2>1
<1>9. CASE Bodies \/ UNCHANGED <<vars, healthVars, rows>>
    BY <1>1, <1>9 DEF Bodies, healthVars
<1>10. CASE HealthNext
  <2>1. CASE HandWrite
      BY <1>1, <2>1, WriteLeaves
  <2>2. CASE Resolving
      BY <1>4, <1>5, <1>6, <2>2 DEF Resolving
  <2> QED
      BY <1>10, <2>1, <2>2, HealthIs
<1>11. CASE ActionsNext
    BY <1>7, <1>8, <1>11 DEF ActionsNext
<1> QED
    BY <1>9, <1>10, <1>11 DEF Next

-----------------------------------------------------------------------------
(* The action rows and what is paid for. *)

\* a row is added, or the one of a step is written again
Added(row) == row \in ActionRows /\ rows' = rows \cup {row}
Rewritten(r, row) ==
    /\ r \in rows /\ row \in ActionRows /\ row.by = r.by /\ row.kind = r.kind
    /\ rows' = (rows \ {r}) \cup {row}

LEMMA ResolvedRow ==
    ASSUME BodiesTypeOK, NEW r \in rows, Turn(r, Resolved(r))
    PROVE  Rewritten(r, Resolved(r)) /\ Resolved(r).paid = r.paid
<1>1. r \in ActionRows
    BY DEF BodiesTypeOK
<1>2. /\ Resolved(r) \in ActionRows /\ Resolved(r).by = r.by /\ Resolved(r).kind = r.kind /\ Resolved(r).paid = r.paid
  <2> PICK none \in Int : none = 0
      OBVIOUS
  <2>1. Resolved(r) = [r EXCEPT !.status = "resolved", !.due = none]
      BY DEF Resolved
  <2> QED
      BY <1>1, <2>1 DEF ActionRows
<1> QED
    BY <1>2 DEF Rewritten, Turn

Strikes == {"attack", "special"}
Others == {"area", "escape"}

PaidIn(R, e, kinds) == {r \in R : r.by = e /\ r.paid /\ r.kind \in kinds}
Count(R, e, kinds) == Cardinality(PaidIn(R, e, kinds))

Within(s, o, n, action) ==
    /\ s <= n /\ n <= AttacksAllowed
    /\ o + (IF n > 0 THEN 1 ELSE 0) <= 1
    /\ s > 0 \/ o > 0 \/ n > 0 => ~action

LEMMA CountIs ==
    ASSUME NEW R, IsFiniteSet(R), NEW e, NEW kinds
    PROVE  /\ IsFiniteSet(PaidIn(R, e, kinds)) /\ Count(R, e, kinds) \in Nat
           /\ PaidIn(R, e, kinds) # {} <=> Count(R, e, kinds) > 0
<1>1. PaidIn(R, e, kinds) \subseteq R
    BY DEF PaidIn
<1>2. IsFiniteSet(PaidIn(R, e, kinds))
    BY <1>1, FS_Subset
<1> QED
    BY <1>2, FS_CardinalityType, FS_EmptySet DEF Count

LEMMA CountMore ==
    ASSUME NEW R, IsFiniteSet(R), NEW row, NEW e, NEW kinds
    PROVE  /\ IsFiniteSet(R \cup {row})
           /\ Count(R \cup {row}, e, kinds) <= Count(R, e, kinds) + 1
           /\ ~(row.by = e /\ row.paid /\ row.kind \in kinds) => Count(R \cup {row}, e, kinds) = Count(R, e, kinds)
<1> DEFINE P == PaidIn(R, e, kinds)
           Q == PaidIn(R \cup {row}, e, kinds)
<1>1. IsFiniteSet(R \cup {row})
    BY FS_AddElement
<1>2. Q = P \/ Q = P \cup {row}
    BY DEF PaidIn
<1>3. ~(row.by = e /\ row.paid /\ row.kind \in kinds) => Q = P
    BY DEF PaidIn
<1>4. IsFiniteSet(P) /\ Cardinality(P) \in Nat
    BY CountIs DEF Count
<1> HIDE DEF P, Q
<1>5. Cardinality(Q) <= Cardinality(P) + 1
  <2>1. Cardinality(P \cup {row}) <= Cardinality(P) + 1
      BY <1>4, FS_AddElement
  <2>2. CASE Q = P
      BY <1>4, <2>2
  <2>3. CASE Q = P \cup {row}
      BY <2>1, <2>3
  <2> QED
      BY <1>2, <2>2, <2>3
<1> QED
    BY <1>1, <1>3, <1>5 DEF Count, P, Q

LEMMA CountRewritten ==
    ASSUME NEW R, IsFiniteSet(R), NEW r \in R, NEW row, row.by = r.by, row.kind = r.kind, NEW e, NEW kinds
    PROVE  /\ IsFiniteSet((R \ {r}) \cup {row})
           /\ Count((R \ {r}) \cup {row}, e, kinds) <= Count(R, e, kinds) + 1
           /\ (row.paid => r.paid) \/ ~(r.by = e /\ r.kind \in kinds)
                 => Count((R \ {r}) \cup {row}, e, kinds) <= Count(R, e, kinds)
<1> DEFINE W == R \ {r}
<1>1. IsFiniteSet(W)
    BY FS_RemoveElement
<1>2. /\ IsFiniteSet(W \cup {row}) /\ Count(W \cup {row}, e, kinds) <= Count(W, e, kinds) + 1
      /\ ~(row.by = e /\ row.paid /\ row.kind \in kinds) => Count(W \cup {row}, e, kinds) = Count(W, e, kinds)
    BY <1>1, CountMore
<1> PICK P : P = PaidIn(R, e, kinds)
    OBVIOUS
<1> PICK n \in Nat : n = Count(R, e, kinds)
    BY CountIs
<1> PICK m \in Nat : m = Count(W, e, kinds)
    BY <1>1, CountIs
<1>3. IsFiniteSet(P) /\ Cardinality(P) = n
    BY CountIs DEF Count
<1>4. PaidIn(W, e, kinds) = P \ {r}
    BY DEF PaidIn
<1>5. r \in P <=> r.by = e /\ r.paid /\ r.kind \in kinds
    BY DEF PaidIn
<1>6. Cardinality(P \ {r}) = IF r \in P THEN n - 1 ELSE n
  <2>1. Cardinality(P \ {r}) = IF r \in P THEN Cardinality(P) - 1 ELSE Cardinality(P)
      BY <1>3, FS_RemoveElement
  <2> QED
      BY <1>3, <2>1
<1>7. m = IF r \in P THEN n - 1 ELSE n
    BY <1>4, <1>6 DEF Count
<1> PICK k : k = Count(W \cup {row}, e, kinds)
    OBVIOUS
<1>8. k <= m + 1 /\ (~(row.by = e /\ row.paid /\ row.kind \in kinds) => k = m)
    BY <1>2
<1>9. k <= n + 1
    BY <1>7, <1>8
<1>10. ASSUME (row.paid => r.paid) \/ ~(r.by = e /\ r.kind \in kinds) PROVE k <= n
  <2>1. CASE r \in P
      BY <1>7, <1>8, <2>1
  <2>2. CASE r \notin P
    <3>1. k = m
        BY <1>5, <1>8, <1>10, <2>2
    <3> QED
        BY <1>7, <2>2, <3>1
  <2> QED
      BY <2>1, <2>2
<1>11. IsFiniteSet(W \cup {row})
    BY <1>2
<1> QED
    BY <1>9, <1>10, <1>11 DEF W

LEMMA CountUnpaid ==
    ASSUME BodiesTypeOK, NEW e, NEW kinds
    PROVE  Unpaid \in SUBSET ActionRows /\ IsFiniteSet(Unpaid) /\ Count(Unpaid, e, kinds) = 0
<1>1. rows \in SUBSET ActionRows /\ IsFiniteSet(rows)
    BY DEF BodiesTypeOK
<1> DEFINE un == [r \in rows |-> [r EXCEPT !.paid = FALSE]]
<1>2. \A r \in ActionRows : [r EXCEPT !.paid = FALSE] \in ActionRows /\ ~[r EXCEPT !.paid = FALSE].paid
    BY DEF ActionRows
<1>3. un \in Surjection(rows, Unpaid)
    BY DEF Surjection, Unpaid
<1> HIDE DEF un
<1>4. IsFiniteSet(Unpaid)
    BY <1>1, <1>3, FS_Surjection
<1>5. Unpaid \in SUBSET ActionRows /\ \A q \in Unpaid : ~q.paid
    BY <1>1, <1>2 DEF Unpaid
<1>6. PaidIn(Unpaid, e, kinds) = {}
    BY <1>5 DEF PaidIn
<1> QED
    BY <1>4, <1>5, <1>6, FS_EmptySet DEF Count

-----------------------------------------------------------------------------
(* The budget of a turn. *)

Strike(e) == Count(rows, e, Strikes)
Other(e) == Count(rows, e, Others)

\* what a step does to the budget of e
Kept(e) == entry'[e].attacks = entry[e].attacks /\ (entry'[e].action => entry[e].action)
Struck(e) ==
    /\ entry[e].attacks < AttacksAllowed /\ (entry[e].attacks = 0 => entry[e].action)
    /\ entry'[e].attacks = entry[e].attacks + 1
    /\ entry'[e].action = (entry[e].action /\ entry[e].attacks > 0)
Took(e) == entry[e].action /\ ~entry'[e].action /\ entry'[e].attacks = entry[e].attacks

Settled(e) ==
    \/ Kept(e) /\ Strike(e)' <= Strike(e) /\ Other(e)' <= Other(e)
    \/ entry'[e].attacks = 0 /\ Strike(e)' = 0 /\ Other(e)' = 0
    \/ Struck(e) /\ Strike(e)' <= Strike(e) + 1 /\ Other(e)' <= Other(e)
    \/ Took(e) /\ Strike(e)' <= Strike(e) /\ Other(e)' <= Other(e) + 1

LEMMA WithinIs ==
    ASSUME NEW R, IsFiniteSet(R), NEW e, NEW row
    PROVE  LET S == {r \in R : r.by = e /\ r.paid /\ r.kind \in {"attack", "special"}}
               O == {r \in R : r.by = e /\ r.paid /\ r.kind \in {"area", "escape"}} IN
           /\ Count(R, e, Strikes) \in Nat /\ Count(R, e, Others) \in Nat
           /\ (/\ Cardinality(S) <= row.attacks /\ row.attacks <= AttacksAllowed
               /\ Cardinality(O) + (IF row.attacks > 0 THEN 1 ELSE 0) <= 1
               /\ S \cup O # {} \/ row.attacks > 0 => ~row.action)
              <=> Within(Count(R, e, Strikes), Count(R, e, Others), row.attacks, row.action)
<1> DEFINE S == {r \in R : r.by = e /\ r.paid /\ r.kind \in {"attack", "special"}}
           O == {r \in R : r.by = e /\ r.paid /\ r.kind \in {"area", "escape"}}
<1>1. S = PaidIn(R, e, Strikes) /\ O = PaidIn(R, e, Others)
    BY DEF PaidIn, Strikes, Others
<1>2. /\ Count(R, e, Strikes) \in Nat /\ (PaidIn(R, e, Strikes) # {} <=> Count(R, e, Strikes) > 0)
      /\ Count(R, e, Others) \in Nat /\ (PaidIn(R, e, Others) # {} <=> Count(R, e, Others) > 0)
    BY CountIs
<1> HIDE DEF S, O
<1>3. /\ Cardinality(S) = Count(R, e, Strikes) /\ (S # {} <=> Count(R, e, Strikes) > 0)
      /\ Cardinality(O) = Count(R, e, Others) /\ (O # {} <=> Count(R, e, Others) > 0)
    BY <1>1, <1>2 DEF Count
<1>4. S \cup O # {} <=> (S # {} \/ O # {})
    OBVIOUS
<1>5. (/\ Cardinality(S) <= row.attacks /\ row.attacks <= AttacksAllowed
       /\ Cardinality(O) + (IF row.attacks > 0 THEN 1 ELSE 0) <= 1
       /\ S \cup O # {} \/ row.attacks > 0 => ~row.action)
      <=> Within(Count(R, e, Strikes), Count(R, e, Others), row.attacks, row.action)
    BY <1>3, <1>4 DEF Within
<1> QED
    BY <1>2, <1>5 DEF S, O

BudgetMoves(s, o, n, a, s2, o2, n2, a2) ==
    \/ n2 = n /\ (a2 => a) /\ s2 <= s /\ o2 <= o
    \/ n2 = 0 /\ s2 = 0 /\ o2 = 0
    \/ /\ n < AttacksAllowed /\ (n = 0 => a) /\ n2 = n + 1 /\ a2 = (a /\ n > 0)
       /\ s2 <= s + 1 /\ o2 <= o
    \/ a /\ ~a2 /\ n2 = n /\ s2 <= s /\ o2 <= o + 1

LEMMA WithinStays ==
    ASSUME NEW s \in Nat, NEW o \in Nat, NEW n \in Nat, NEW a \in BOOLEAN, Within(s, o, n, a),
           NEW s2 \in Nat, NEW o2 \in Nat, NEW n2 \in Nat, NEW a2 \in BOOLEAN, BudgetMoves(s, o, n, a, s2, o2, n2, a2)
    PROVE  Within(s2, o2, n2, a2)
<1>1. AttacksAllowed \in Nat
    BY CombatAssumption
<1>2. CASE n2 = n /\ (a2 => a) /\ s2 <= s /\ o2 <= o
    BY <1>1, <1>2, SMT DEF Within
<1>3. CASE n2 = 0 /\ s2 = 0 /\ o2 = 0
    BY <1>1, <1>3, SMT DEF Within
<1>4. CASE n < AttacksAllowed /\ (n = 0 => a) /\ n2 = n + 1 /\ a2 = (a /\ n > 0) /\ s2 <= s + 1 /\ o2 <= o
  <2>1. CASE n = 0
    <3>1. a /\ s = 0 /\ o = 0
        BY <1>4, <2>1 DEF Within
    <3>2. n2 = 1 /\ s2 <= 1 /\ o2 = 0 /\ 1 <= AttacksAllowed
        BY <1>1, <1>4, <2>1, <3>1
    <3>3. ~(n > 0)
        BY <2>1
    <3>4. a2 = (a /\ n > 0)
        BY <1>4
    <3>5. ~a2
        BY <3>3, <3>4
    <3> QED
        BY <3>2, <3>5 DEF Within
  <2>2. CASE n > 0
      BY <1>1, <1>4, <2>2, SMT DEF Within
  <2> QED
      BY <2>1, <2>2
<1>5. CASE a /\ ~a2 /\ n2 = n /\ s2 <= s /\ o2 <= o + 1
    BY <1>1, <1>5, SMT DEF Within
<1> QED
    BY <1>2, <1>3, <1>4, <1>5 DEF BudgetMoves

LEMMA SpentStays ==
    ASSUME TypeOK, TypeOK', IsFiniteSet(rows), IsFiniteSet(rows'), NEW e \in Entries, Spent(e), Settled(e)
    PROVE  Spent(e)'
<1>1. /\ Within(Strike(e), Other(e), entry[e].attacks, entry[e].action)
      /\ Strike(e) \in Nat /\ Other(e) \in Nat
    BY WithinIs DEF Spent, Paid, Strike, Other
<1>2. /\ Within(Strike(e)', Other(e)', entry'[e].attacks, entry'[e].action) => Spent(e)'
      /\ Strike(e)' \in Nat /\ Other(e)' \in Nat
    BY WithinIs DEF Spent, Paid, Strike, Other
<1>3. /\ entry[e].attacks \in Nat /\ entry[e].action \in BOOLEAN
      /\ entry'[e].attacks \in Nat /\ entry'[e].action \in BOOLEAN
    BY DEF TypeOK, EntryRows
<1>4. BudgetMoves(Strike(e), Other(e), entry[e].attacks, entry[e].action,
                  Strike(e)', Other(e)', entry'[e].attacks, entry'[e].action)
    BY DEF Settled, Kept, Struck, Took, BudgetMoves
<1>5. Within(Strike(e)', Other(e)', entry'[e].attacks, entry'[e].action)
    BY <1>1, <1>2, <1>3, <1>4, WithinStays
<1> QED
    BY <1>2, <1>5

-----------------------------------------------------------------------------
(* What the table's own steps do to a budget. *)

Budgeted(e) ==
    \/ Kept(e)
    \/ entry'[e].attacks = 0 /\ combat' # combat
    \/ Struck(e) /\ combat' = combat

LEMMA AttackBudget ==
    ASSUME TypeOK, NEW e \in Entries, UseAttack(e)
    PROVE  /\ Struck(e) /\ \A o \in Entries \ {e} : Kept(o)
           /\ UNCHANGED combat
<1>1. /\ entry[e].attacks < AttacksAllowed /\ (entry[e].attacks = 0 => entry[e].action)
      /\ UNCHANGED combat
    BY DEF UseAttack, turnVars
<1> QED
    BY <1>1, UseAttackDoes DEF Struck, Kept, Only

LEMMA SameBudgetKept ==
    ASSUME NEW e, SameBudget(entry'[e], entry[e])
    PROVE  Budgeted(e)
BY DEF SameBudget, Budgeted, Kept

LEMMA AdvanceChanges ==
    ASSUME TypeOK, AdvanceTurn
    PROVE  combat' # combat
<1>1. combat.turn \in Ordered /\ Running
    BY DEF AdvanceTurn, CanAdvance
<1>2. combat'.turn = NextInOrder(combat.turn) /\ combat'.round = RoundAfter(NextInOrder(combat.turn)) /\ combat.round \in Nat
    BY AdvanceTurnTypes DEF TypeOK, Combats
<1>3. CASE After(combat.turn) = {}
  <2>1. combat'.round = combat.round + 1
      BY <1>1, <1>2, <1>3, NextIs DEF RoundAfter
  <2> QED
      BY <1>2, <2>1
<1>4. CASE After(combat.turn) # {}
  <2>1. NextInOrder(combat.turn) \in After(combat.turn)
      BY <1>1, <1>4, NextIs
  <2>2. entry[combat.turn].order \in Nat
      BY <1>1 DEF Ordered, Active, TypeOK, EntryRows
  <2>3. NextInOrder(combat.turn) # combat.turn
      BY <2>1, <2>2 DEF After
  <2> QED
      BY <1>2, <2>3
<1> QED
    BY <1>3, <1>4

LEMMA TableBudget ==
    ASSUME TypeOK, NothingBefore, AbsentIsBlank, CallsName, PausesPlanned, Starting \/ OrderNext \/ TurnsNext \/ MovesNext,
           NEW x \in Entries
    PROVE  Budgeted(x)
<1>1. entry'[x] = entry[x] => Budgeted(x)
    BY DEF Budgeted, Kept
<1>2. CASE Quiet \/ Planning \/ Checking
    BY <1>1, <1>2 DEF Quiet, Planning, Checking, tableVars
<1>3. CASE Starting
  <2> PICK mode \in {"quick", "tactical"}, monsters \in SUBSET Monsters :
         \E place \in [monsters -> Cells] : StartCombat(mode, monsters, place)
      BY <1>3 DEF Starting
  <2> PICK place \in [monsters -> Cells] : StartCombat(mode, monsters, place)
      OBVIOUS
  <2>1. entry[x].attacks = 0 /\ entry[x].action
      BY DEF StartCombat, NothingBefore, AbsentIsBlank
  <2> QED
      BY <1>1, <2>1, StartCombatDoes, NewEntryIs DEF Budgeted, Kept
<1>4. ASSUME NEW c \in calls, CommitReorder(c) PROVE Budgeted(x)
  <2>1. Ordering(c) /\ Whole(c.seq)
      BY <1>4 DEF CommitReorder, Ordering
  <2> QED
      BY <1>4, <2>1, WholeIs, CommitReorderDoes, SameBudgetKept
<1>5. ASSUME NEW c \in calls, CommitFinalize(c) PROVE Budgeted(x)
  <2>1. Ordering(c) /\ Whole(c.seq) /\ combat.status = "initiative_pending" /\ combat \in Combats
      BY <1>5 DEF CommitFinalize, Ordering, TypeOK
  <2>2. combat' # combat
      BY <1>5, <2>1 DEF CommitFinalize, Combats
  <2> QED
      BY <1>1, <1>5, <2>1, <2>2, WholeIs, CommitFinalizeDoes DEF Budgeted
<1>6. ASSUME NEW S \in SUBSET Active, RequestInitiative(S) PROVE Budgeted(x)
    BY <1>6, RequestInitiativeDoes, SameBudgetKept
<1>7. ASSUME NEW r \in requests, NEW total \in Totals, CompleteInitiative(r, total) PROVE Budgeted(x)
    BY <1>7, CompleteInitiativeDoes, SameBudgetKept
<1>8. CASE OrderNext
    BY <1>2, <1>4, <1>5, <1>6, <1>7, <1>8, SessionKinds, CheckKinds, OrderKinds DEF OrderNext
<1>9. CASE AdvanceTurn
  <2>1. combat.turn \in Ordered
      BY <1>9 DEF AdvanceTurn, CanAdvance
  <2>2. combat.turn \in Entries /\ NextInOrder(combat.turn) \in Entries
      BY <2>1, NextIs DEF Ordered, Active
  <2>3. CASE x # NextInOrder(combat.turn)
      BY <1>9, <2>2, <2>3, AdvanceTurnDoes, SameBudgetKept
  <2>4. CASE x = NextInOrder(combat.turn)
    <3>1. entry'[x].attacks = 0
        BY <1>9, <2>2, <2>4, AdvanceTurnDoes
    <3>2. combat' # combat
        BY <1>9, <2>1, AdvanceChanges
    <3> QED
        BY <3>1, <3>2 DEF Budgeted
  <2> QED
      BY <2>3, <2>4
<1>10. CASE EndCombat
  <2>1. entry'[x].attacks = 0
      BY <1>10, EndCombatDoes, EndedIs DEF TypeOK
  <2>2. combat' # combat
      BY <1>10 DEF EndCombat, Fighting, TypeOK, Combats
  <2> QED
      BY <2>1, <2>2 DEF Budgeted
<1>11. ASSUME NEW e \in Entries, UseAttack(e) PROVE Budgeted(x)
    BY <1>11, AttackBudget DEF Budgeted
<1>12. ASSUME NEW e \in Entries, NEW kind, UseAction(e, kind) PROVE Budgeted(x)
    BY <1>12, UseActionDoes DEF Only, Budgeted, Kept
<1>13. ASSUME NEW e \in Entries, UseBonus(e) PROVE Budgeted(x)
    BY <1>1, <1>13, UseBonusDoes, SameBudgetKept DEF Only
<1>14. ASSUME NEW e \in Entries, UseReaction(e) PROVE Budgeted(x)
    BY <1>1, <1>14, UseReactionDoes, SameBudgetKept DEF Only
<1>15. ASSUME NEW e \in Entries, NEW surprised \in BOOLEAN, AddEntry(e, surprised) PROVE Budgeted(x)
  <2>1. entry[e].attacks = 0 /\ entry[e].action
      BY <1>15 DEF AddEntry, AbsentIsBlank, Present
  <2> QED
      BY <1>1, <1>15, <2>1, AddEntryDoes, NewEntryIs DEF Only, Budgeted, Kept
<1>16. ASSUME NEW e \in Entries, NEW status \in Outcomes(e), SetEntryStatus(e, status) PROVE Budgeted(x)
    BY <1>1, <1>16, SetEntryStatusDoes, SameBudgetKept DEF Only
<1>17. CASE TurnsNext
    BY <1>9, <1>10, <1>11, <1>12, <1>13, <1>14, <1>15, <1>16, <1>17 DEF TurnsNext
<1>18. ASSUME NEW e \in Active, CancelPause(e) PROVE Budgeted(x)
  <2>1. e \in Entries
      BY DEF Active
  <2> QED
      BY <1>1, <1>18, <2>1, CancelPauseDoes, SameBudgetKept DEF Only
<1>19. ASSUME NEW e \in Active, NEW other \in Active, OpenWindow(e, {e, other}) PROVE Budgeted(x)
  <2>1. e \in Entries /\ {e, other} \in SUBSET Entries
      BY DEF Active
  <2> QED
      BY <1>1, <1>19, <2>1, OpenWindowDoes, SameBudgetKept DEF Only
<1>20. ASSUME NEW e \in Active, NEW open \in BOOLEAN, SetWindow(e, open) PROVE Budgeted(x)
  <2>1. e \in Entries
      BY DEF Active
  <2> QED
      BY <1>1, <1>20, <2>1, SetWindowDoes, SameBudgetKept DEF Only
<1>21. ASSUME NEW owner \in Active, NEW e \in Active, NEW accept \in BOOLEAN, AnswerWindow(owner, e, accept) PROVE Budgeted(x)
  <2>1. owner \in Entries /\ e \in Entries
      BY DEF Active
  <2> QED
      BY <1>21, <2>1, AnswerWindowDoes, SameBudgetKept
<1>22. ASSUME NEW c \in calls, CommitMove(c) PROVE Budgeted(x)
  <2>1. c \in MoveCalls /\ Moving(c)
      BY <1>22, CommitMovePuts
  <2> QED
      BY <1>22, <2>1, PlannedReactors, CommitMoveDoes, SameBudgetKept
<1>23. ASSUME NEW c, CommitPlace(c) \/ CommitReposition(c) \/ SetDoor(c) PROVE Budgeted(x)
    BY <1>1, <1>23 DEF CommitPlace, CommitReposition, SetDoor
<1>24. CASE MovesNext
    BY <1>2, <1>18, <1>19, <1>20, <1>21, <1>22, <1>23, <1>24, MoveKinds DEF MovesNext
<1> QED
    BY <1>3, <1>8, <1>17, <1>24

RowsTyped == rows \in SUBSET ActionRows /\ IsFiniteSet(rows)
BudgetStays == RowsTyped' /\ \A x \in Entries : Settled(x)

LEMMA BodiesBudget ==
    ASSUME TypeOK, BodiesTypeOK, NothingBefore, AbsentIsBlank, CallsName, PausesPlanned,
           Starting \/ OrderNext \/ TurnsNext \/ MovesNext, Bodies
    PROVE  BudgetStays
<1>1. rows \in SUBSET ActionRows /\ IsFiniteSet(rows)
    BY DEF BodiesTypeOK
<1>2. \A x \in Entries : Budgeted(x)
    BY TableBudget
<1>3. CASE combat' = combat
  <2>1. rows' = rows
      BY <1>3 DEF Bodies
  <2>2. ASSUME NEW x \in Entries PROVE Settled(x)
    <3>1. Strike(x)' = Strike(x) /\ Other(x)' = Other(x)
        BY <2>1 DEF Strike, Other, Count, PaidIn
    <3>2. Strike(x) \in Nat /\ Other(x) \in Nat
        BY <1>1, CountIs DEF Strike, Other
    <3> QED
        BY <1>2, <1>3, <3>1, <3>2 DEF Settled, Budgeted
  <2> QED
      BY <1>1, <2>1, <2>2 DEF BudgetStays, RowsTyped
<1>4. CASE combat' # combat
  <2>1. rows' = Unpaid
      BY <1>4 DEF Bodies
  <2>2. ASSUME NEW x \in Entries PROVE Settled(x)
    <3>1. Strike(x)' = 0 /\ Other(x)' = 0
        BY <2>1, CountUnpaid DEF Strike, Other
    <3>2. Strike(x) \in Nat /\ Other(x) \in Nat
        BY <1>1, CountIs DEF Strike, Other
    <3> QED
        BY <1>2, <1>4, <3>1, <3>2 DEF Settled, Budgeted
  <2> QED
      BY <2>1, <2>2, CountUnpaid DEF BudgetStays, RowsTyped
<1> QED
    BY <1>3, <1>4

\* a step that leaves the counts alone, or lowers them
LEMMA NothingPaid ==
    ASSUME BodiesTypeOK, \A x \in Entries : Kept(x),
           rows' = rows \/ (\E row : Added(row) /\ ~row.paid) \/ (\E r, row : Rewritten(r, row) /\ (row.paid => r.paid))
    PROVE  BudgetStays
<1>1. rows \in SUBSET ActionRows /\ IsFiniteSet(rows)
    BY DEF BodiesTypeOK
<1> DEFINE Lower == RowsTyped' /\ \A x \in Entries : Strike(x)' <= Strike(x) /\ Other(x)' <= Other(x)
<1>0. \A x \in Entries : Strike(x) \in Nat /\ Other(x) \in Nat
    BY <1>1, CountIs DEF Strike, Other
<1>2. ASSUME rows' = rows PROVE Lower
  <2>1. \A x \in Entries : Strike(x)' = Strike(x) /\ Other(x)' = Other(x)
      BY <1>2 DEF Strike, Other
  <2> QED
      BY <1>0, <1>1, <1>2, <2>1 DEF RowsTyped
<1>3. ASSUME NEW row, Added(row), ~row.paid PROVE Lower
  <2>1. rows' = rows \cup {row} /\ row \in ActionRows
      BY <1>3 DEF Added
  <2>2. \A x \in Entries : Strike(x)' = Strike(x) /\ Other(x)' = Other(x)
      BY <1>1, <1>3, <2>1, CountMore DEF Strike, Other
  <2>3. RowsTyped'
      BY <1>1, <2>1, FS_AddElement DEF RowsTyped
  <2> QED
      BY <1>0, <2>2, <2>3
<1>4. ASSUME NEW r, NEW row, Rewritten(r, row), row.paid => r.paid PROVE Lower
  <2>1. r \in rows /\ rows' = (rows \ {r}) \cup {row} /\ row \in ActionRows /\ row.by = r.by /\ row.kind = r.kind
      BY <1>4 DEF Rewritten
  <2>2. \A x \in Entries : Strike(x)' <= Strike(x) /\ Other(x)' <= Other(x)
      BY <1>1, <1>4, <2>1, CountRewritten DEF Strike, Other
  <2>3. RowsTyped'
      BY <1>1, <2>1, CountRewritten DEF RowsTyped
  <2> QED
      BY <2>2, <2>3
<1>5. Lower
    BY <1>2, <1>3, <1>4
<1> QED
    BY <1>5 DEF BudgetStays, Settled

LEMMA CountSame ==
    ASSUME NEW R, IsFiniteSet(R), NEW row, NEW e, NEW kinds, ~(row.by = e /\ row.paid /\ row.kind \in kinds)
    PROVE  Count(R \cup {row}, e, kinds) = Count(R, e, kinds)
<1>1. PaidIn(R \cup {row}, e, kinds) = PaidIn(R, e, kinds)
    BY DEF PaidIn
<1> QED
    BY <1>1 DEF Count

LEMMA OnePaid ==
    ASSUME BodiesTypeOK, NEW e \in Entries, \A x \in Entries \ {e} : Kept(x), NEW kind,
           (\E row : Added(row) /\ row.by = e /\ row.kind = kind)
              \/ (\E r, row : Rewritten(r, row) /\ r.by = e /\ r.kind = kind),
           \/ Struck(e) /\ kind \in {"attack", "special"}
           \/ Took(e) /\ kind \in {"area", "escape"}
    PROVE  BudgetStays
<1>1. rows \in SUBSET ActionRows /\ IsFiniteSet(rows)
    BY DEF BodiesTypeOK
<1>0. \A x \in Entries : Strike(x) \in Nat /\ Other(x) \in Nat
    BY <1>1, CountIs DEF Strike, Other
<1> DEFINE Paid1 ==
       /\ RowsTyped'
       /\ \A x \in Entries \ {e} : Strike(x)' <= Strike(x) /\ Other(x)' <= Other(x)
       /\ Strike(e)' <= Strike(e) + 1 /\ Other(e)' <= Other(e) + 1
       /\ kind \notin Strikes => Strike(e)' <= Strike(e)
       /\ kind \notin Others => Other(e)' <= Other(e)
<1>2. ASSUME NEW row, Added(row), row.by = e, row.kind = kind PROVE Paid1
  <2>1. rows' = rows \cup {row} /\ row \in ActionRows
      BY <1>2 DEF Added
  <2>2. \A x \in Entries \ {e} : Strike(x)' = Strike(x) /\ Other(x)' = Other(x)
      BY <1>1, <1>2, <2>1, CountMore DEF Strike, Other
  <2>3. /\ Strike(e)' <= Strike(e) + 1 /\ Other(e)' <= Other(e) + 1
        /\ kind \notin Strikes => Strike(e)' = Strike(e)
        /\ kind \notin Others => Other(e)' = Other(e)
    <3>1. Strike(e)' <= Strike(e) + 1 /\ Other(e)' <= Other(e) + 1
        BY <1>1, <2>1, CountMore DEF Strike, Other
    <3>2. ASSUME kind \notin Strikes PROVE Strike(e)' = Strike(e)
      <4>1. ~(row.by = e /\ row.paid /\ row.kind \in Strikes)
          BY <1>2, <3>2
      <4>2. Count(rows \cup {row}, e, Strikes) = Count(rows, e, Strikes)
          BY <1>1, <4>1, CountSame
      <4> QED
          BY <2>1, <4>2 DEF Strike
    <3>3. ASSUME kind \notin Others PROVE Other(e)' = Other(e)
      <4>1. ~(row.by = e /\ row.paid /\ row.kind \in Others)
          BY <1>2, <3>3
      <4>2. Count(rows \cup {row}, e, Others) = Count(rows, e, Others)
          BY <1>1, <4>1, CountSame
      <4> QED
          BY <2>1, <4>2 DEF Other
    <3> QED
        BY <3>1, <3>2, <3>3
  <2>4. RowsTyped'
      BY <1>1, <2>1, FS_AddElement DEF RowsTyped
  <2> QED
      BY <1>0, <2>2, <2>3, <2>4
<1>3. ASSUME NEW r, NEW row, Rewritten(r, row), r.by = e, r.kind = kind PROVE Paid1
  <2>1. r \in rows /\ rows' = (rows \ {r}) \cup {row} /\ row \in ActionRows /\ row.by = r.by /\ row.kind = r.kind
      BY <1>3 DEF Rewritten
  <2>2. \A x \in Entries \ {e} : Strike(x)' <= Strike(x) /\ Other(x)' <= Other(x)
      BY <1>1, <1>3, <2>1, CountRewritten DEF Strike, Other
  <2>3. /\ Strike(e)' <= Strike(e) + 1 /\ Other(e)' <= Other(e) + 1
        /\ kind \notin Strikes => Strike(e)' <= Strike(e)
        /\ kind \notin Others => Other(e)' <= Other(e)
      BY <1>1, <1>3, <2>1, CountRewritten DEF Strike, Other
  <2>4. RowsTyped'
      BY <1>1, <2>1, CountRewritten DEF RowsTyped
  <2> QED
      BY <2>2, <2>3, <2>4
<1>4. Paid1
    BY <1>2, <1>3
<1>5. Settled(e)
    BY <1>4 DEF Settled, Strikes, Others
<1>6. \A x \in Entries \ {e} : Settled(x)
    BY <1>4 DEF Settled
<1> QED
    BY <1>4, <1>5, <1>6 DEF BudgetStays

\* an action is taken with nothing else of the turn
LEMMA TakesAction ==
    ASSUME TypeOK, NEW e \in Entries, entry[e].action, entry' = [entry EXCEPT ![e].action = FALSE]
    PROVE  Took(e) /\ \A x \in Entries : Kept(x)
BY SpendActionDoes DEF Only, Took, Kept

LEMMA HealthBudget ==
    ASSUME TypeOK, BodiesTypeOK, HealthNext, UNCHANGED rows
    PROVE  BudgetStays
<1>1. (\A x \in Entries : Kept(x)) => BudgetStays
    BY NothingPaid
<1>2. ASSUME NEW e \in Active, NEW t, NEW spell, NEW lands, NEW mends, NEW wound, Cast(e, t, spell, lands, wound, mends)
      PROVE  BudgetStays
  <2>1. e \in Entries
      BY DEF Active
  <2> QED
      BY <1>1, <1>2, <2>1, TakesAction DEF Cast
<1>3. CASE entry' = entry
    BY <1>1, <1>3 DEF Kept
<1>4. ASSUME NEW e, NEW t, NEW w,
             ApplyDamage(e, t, w) \/ ApplyHealing(e) \/ JudgeCheck(e, t) \/ DropConcentration(e)
      PROVE  BudgetStays
    BY <1>3, <1>4 DEF ApplyDamage, ApplyHealing, JudgeCheck, DropConcentration
<1>5. CASE HandWrite
    BY <1>3, <1>5, WriteLeaves
<1>6. CASE Resolving
    BY <1>2, <1>4, <1>6 DEF Resolving
<1> QED
    BY <1>5, <1>6, HealthIs

AnyRow(kind, by, paid) == \E row : Added(row) /\ row.kind = kind /\ row.by = by /\ row.paid = paid

LEMMA AddsRow ==
    ASSUME TypeOK, BodiesTypeOK, NEW kind \in RowKinds, NEW by \in Entries, NEW at, at \in SUBSET Entries, at # {},
           NEW status, status \in {"dm_adjudication_required", "waiting_for_roll"}, NEW due, due \in Nat,
           NEW paid, paid \in BOOLEAN, Post(kind, by, at, status, due, paid)
    PROVE  AnyRow(kind, by, paid)
<1> PICK n \in Nat : n = Cardinality(rows) + 1
    BY FS_CardinalityType DEF BodiesTypeOK
<1> PICK no \in Nat : no = session.no
    BY DEF TypeOK, Sessions
<1> DEFINE row == [no |-> n, kind |-> kind, by |-> by, at |-> at, session |-> no,
                   status |-> status, due |-> due, paid |-> paid]
<1>1. rows' = rows \cup {row}
    BY DEF Post
<1>2. row \in ActionRows /\ row.kind = kind /\ row.by = by /\ row.paid = paid
    BY DEF ActionRows
<1> HIDE DEF row
<1> QED
    BY <1>1, <1>2 DEF Added, AnyRow

\* nothing of the turn is spent, and the row says so
LEMMA UnpaidAdded ==
    ASSUME TypeOK, BodiesTypeOK, NEW kind, NEW by, entry' = entry, AnyRow(kind, by, FALSE)
    PROVE  BudgetStays
<1>1. \A x \in Entries : Kept(x)
    BY DEF Kept
<1>2. \E row : Added(row) /\ ~row.paid
    BY DEF AnyRow
<1> QED
    BY <1>1, <1>2, NothingPaid

LEMMA UnpaidRewritten ==
    ASSUME TypeOK, BodiesTypeOK, \A x \in Entries : Kept(x), NEW r \in rows, Turn(r, Resolved(r))
    PROVE  BudgetStays
<1>1. Rewritten(r, Resolved(r)) /\ Resolved(r).paid = r.paid
    BY ResolvedRow
<1> QED
    BY <1>1, NothingPaid

LEMMA AskedBudget ==
    ASSUME TypeOK, BodiesTypeOK, NEW e \in Active, NEW t \in Active, NEW kind,
           \/ AskReach(kind, e, t) /\ kind \in {"attack", "special"}
           \/ AskRuling(kind, e, t) /\ kind \in {"opportunity_attack", "special_adjudication"}
    PROVE  BudgetStays
<1>1. e \in Entries /\ {t} \in SUBSET Entries /\ {t} # {} /\ kind \in RowKinds
    BY DEF Active, RowKinds
<1>2. entry' = entry /\ Post(kind, e, {t}, "dm_adjudication_required", 0, FALSE)
    BY DEF AskReach, AskRuling
<1> PICK at : at = {t}
    OBVIOUS
<1> PICK status : status = "dm_adjudication_required"
    OBVIOUS
<1> PICK due \in Nat : due = 0
    OBVIOUS
<1> PICK paid \in BOOLEAN : paid = FALSE
    OBVIOUS
<1>3. Post(kind, e, at, status, due, paid)
    BY <1>2
<1>4. AnyRow(kind, e, paid)
    BY <1>1, <1>3, AddsRow
<1> QED
    BY <1>2, <1>4, UnpaidAdded

LEMMA AreaBudget ==
    ASSUME TypeOK, BodiesTypeOK, NEW e \in Active, NEW targets \in SUBSET Active, ProposeArea(e, targets)
    PROVE  BudgetStays
<1> PICK kind : kind = "area"
    OBVIOUS
<1> PICK status : status = "dm_adjudication_required"
    OBVIOUS
<1> PICK due \in Nat : due = 0
    OBVIOUS
<1> PICK paid \in BOOLEAN : paid = FALSE
    OBVIOUS
<1>1. e \in Entries /\ targets \in SUBSET Entries /\ targets # {} /\ kind \in RowKinds
    BY DEF Active, RowKinds, ProposeArea
<1>2. entry' = entry /\ Post(kind, e, targets, status, due, paid)
    BY DEF ProposeArea
<1>3. AnyRow(kind, e, paid)
    BY <1>1, <1>2, AddsRow
<1> QED
    BY <1>2, <1>3, UnpaidAdded

LEMMA DeathSaveBudget ==
    ASSUME TypeOK, BodiesTypeOK, NEW c \in Characters, RequestDeathSave(c)
    PROVE  BudgetStays
<1> PICK kind : kind = "death_save"
    OBVIOUS
<1> PICK at : at = {c}
    OBVIOUS
<1> PICK status : status = "waiting_for_roll"
    OBVIOUS
<1> PICK due \in Nat : due = 1
    OBVIOUS
<1> PICK paid \in BOOLEAN : paid = FALSE
    OBVIOUS
<1>1. c \in Entries /\ at \in SUBSET Entries /\ at # {} /\ kind \in RowKinds
    BY DEF Entries, RowKinds
<1>2. entry' = entry /\ Post(kind, c, at, status, due, paid)
    BY DEF RequestDeathSave
<1>3. AnyRow(kind, c, paid)
    BY <1>1, <1>2, AddsRow
<1> QED
    BY <1>2, <1>3, UnpaidAdded

LEMMA DeclareBudget ==
    ASSUME TypeOK, BodiesTypeOK, NEW e \in Active, NEW t \in Active, DeclareAttack(e, t)
    PROVE  BudgetStays
<1> PICK kind : kind = "attack"
    OBVIOUS
<1> PICK at : at = {t}
    OBVIOUS
<1> PICK status : status = "waiting_for_roll"
    OBVIOUS
<1> PICK due \in Nat : due = 1
    OBVIOUS
<1> PICK paid \in BOOLEAN : paid = TRUE
    OBVIOUS
<1>1. e \in Entries /\ at \in SUBSET Entries /\ at # {} /\ kind \in RowKinds
    BY DEF Active, RowKinds
<1>2. UseAttack(e) /\ Post(kind, e, at, status, due, paid)
    BY DEF DeclareAttack
<1>3. AnyRow(kind, e, paid)
    BY <1>1, <1>2, AddsRow
<1>4. Struck(e) /\ \A o \in Entries \ {e} : Kept(o)
    BY <1>1, <1>2, AttackBudget
<1>5. \E row : Added(row) /\ row.by = e /\ row.kind = kind
    BY <1>3 DEF AnyRow
<1> QED
    BY <1>1, <1>4, <1>5, OnePaid

LEMMA EscapeBudget ==
    ASSUME TypeOK, BodiesTypeOK, NEW e \in Active, NEW t \in Active, RequestEscape(e, t)
    PROVE  BudgetStays
<1> PICK kind : kind = "escape"
    OBVIOUS
<1> PICK at : at = {t}
    OBVIOUS
<1> PICK status : status = "waiting_for_roll"
    OBVIOUS
<1> PICK due \in Nat : due = 2
    OBVIOUS
<1> PICK paid \in BOOLEAN : paid = TRUE
    OBVIOUS
<1>1. e \in Entries /\ at \in SUBSET Entries /\ at # {} /\ kind \in RowKinds
    BY DEF Active, RowKinds
<1>2. entry[e].action /\ entry' = [entry EXCEPT ![e].action = FALSE] /\ Post(kind, e, at, status, due, paid)
    BY DEF RequestEscape
<1>3. AnyRow(kind, e, paid)
    BY <1>1, <1>2, AddsRow
<1>4. Took(e) /\ \A o \in Entries : Kept(o)
    BY <1>1, <1>2, TakesAction
<1>5. \E row : Added(row) /\ row.by = e /\ row.kind = kind
    BY <1>3 DEF AnyRow
<1> QED
    BY <1>1, <1>4, <1>5, OnePaid

LEMMA ReachBudget ==
    ASSUME TypeOK, BodiesTypeOK, NEW r \in rows, NEW inReach \in BOOLEAN, RuleReach(r, inReach)
    PROVE  BudgetStays
<1>1. r \in ActionRows /\ r.by \in Entries /\ r.kind \in {"attack", "special"}
    BY DEF BodiesTypeOK, ActionRows, RuleReach
<1>2. CASE inReach
  <2> PICK due \in Int : due = IF r.kind = "attack" THEN 1 ELSE 2
      OBVIOUS
  <2> DEFINE row == [r EXCEPT !.status = "waiting_for_roll", !.due = due, !.paid = TRUE]
  <2>1. UseAttack(r.by) /\ rows' = (rows \ {r}) \cup {row}
      BY <1>2 DEF RuleReach, BudgetNow, Turn
  <2>2. row \in ActionRows /\ row.by = r.by /\ row.kind = r.kind
      BY <1>1 DEF ActionRows
  <2> HIDE DEF row
  <2>3. Rewritten(r, row)
      BY <2>1, <2>2 DEF Rewritten
  <2>4. Struck(r.by) /\ \A o \in Entries \ {r.by} : Kept(o)
      BY <1>1, <2>1, AttackBudget
  <2> PICK e \in Entries : e = r.by
      BY <1>1
  <2> PICK kind : kind = r.kind
      OBVIOUS
  <2>5. /\ \E q, new : Rewritten(q, new) /\ q.by = e /\ q.kind = kind
        /\ Struck(e) /\ kind \in {"attack", "special"} /\ \A o \in Entries \ {e} : Kept(o)
      BY <1>1, <2>3, <2>4
  <2> QED
      BY <2>5, OnePaid
<1>3. CASE ~inReach
  <2>1. Turn(r, Resolved(r)) /\ entry' = entry
      BY <1>3 DEF RuleReach
  <2>2. \A x \in Entries : Kept(x)
      BY <2>1 DEF Kept
  <2> QED
      BY <2>1, <2>2, UnpaidRewritten
<1> QED
    BY <1>2, <1>3

LEMMA ResolveAreaBudget ==
    ASSUME TypeOK, BodiesTypeOK, NEW r \in rows, NEW confirmed, NEW wound, ResolveArea(r, confirmed, wound)
    PROVE  BudgetStays
<1>1. r \in ActionRows /\ r.by \in Entries
    BY DEF BodiesTypeOK, ActionRows
<1> PICK done : done = Resolved(r)
    OBVIOUS
<1>2. done \in ActionRows /\ done.by = r.by /\ done.kind = r.kind
  <2> PICK none \in Int : none = 0
      OBVIOUS
  <2>1. done = [r EXCEPT !.status = "resolved", !.due = none]
      BY DEF Resolved
  <2> QED
      BY <1>1, <2>1 DEF ActionRows
<1> DEFINE row == [done EXCEPT !.paid = TRUE]
<1>3. /\ entry[r.by].action /\ entry' = [entry EXCEPT ![r.by].action = FALSE] /\ r.kind = "area"
      /\ rows' = (rows \ {r}) \cup {row}
    BY DEF ResolveArea, Turn
<1>4. row \in ActionRows /\ row.by = r.by /\ row.kind = r.kind
    BY <1>2 DEF ActionRows
<1> HIDE DEF row
<1>5. Rewritten(r, row)
    BY <1>3, <1>4 DEF Rewritten
<1>6. Took(r.by) /\ \A o \in Entries : Kept(o)
    BY <1>1, <1>3, TakesAction
<1> PICK e \in Entries : e = r.by
    BY <1>1
<1> PICK kind : kind = r.kind
    OBVIOUS
<1>7. /\ \E q, new : Rewritten(q, new) /\ q.by = e /\ q.kind = kind
      /\ Took(e) /\ kind \in {"area", "escape"} /\ \A o \in Entries \ {e} : Kept(o)
    BY <1>3, <1>5, <1>6
<1> QED
    BY <1>7, OnePaid

LEMMA OpposedBudget ==
    ASSUME TypeOK, BodiesTypeOK, NEW r \in rows, CompleteOpposed(r)
    PROVE  BudgetStays
<1>1. r \in ActionRows /\ entry' = entry
    BY DEF BodiesTypeOK, CompleteOpposed
<1>2. \A x \in Entries : Kept(x)
    BY <1>1 DEF Kept
<1>3. CASE r.due = 1
    BY <1>2, <1>3, UnpaidRewritten DEF CompleteOpposed
<1>4. CASE r.due # 1
  <2> PICK due \in Int : due = r.due - 1
      BY <1>1 DEF ActionRows
  <2> DEFINE row == [r EXCEPT !.due = due]
  <2>3. rows' = (rows \ {r}) \cup {row}
      BY <1>1, <1>4 DEF CompleteOpposed, Turn, ActionRows
  <2>4. row \in ActionRows /\ row.by = r.by /\ row.kind = r.kind /\ row.paid = r.paid
      BY <1>1 DEF ActionRows
  <2> HIDE DEF row
  <2>5. Rewritten(r, row) /\ (row.paid => r.paid)
      BY <2>3, <2>4 DEF Rewritten
  <2> QED
      BY <1>2, <2>5, NothingPaid
<1> QED
    BY <1>3, <1>4

LEMMA OtherRowsBudget ==
    ASSUME TypeOK, BodiesTypeOK, NEW r \in rows,
           (\E trigger \in BOOLEAN : Rule(r, trigger)) \/ (\E wound, critical : CompleteAttack(r, wound, critical))
              \/ \E roll : CompleteDeathSave(r, roll)
    PROVE  BudgetStays
<1>1. Turn(r, Resolved(r))
    BY DEF Rule, CompleteAttack, CompleteDeathSave
<1>2. \A x \in Entries : Kept(x)
  <2>1. CASE entry' = entry
      BY <2>1 DEF Kept
  <2>2. ASSUME NEW trigger \in BOOLEAN, Rule(r, trigger), entry' # entry PROVE \A x \in Entries : Kept(x)
      BY <2>2, RuleDoes DEF Only, SameBudget, Kept
  <2>3. ASSUME NEW wound, NEW critical, CompleteAttack(r, wound, critical) PROVE entry' = entry
      BY <2>3 DEF CompleteAttack
  <2>4. ASSUME NEW roll, CompleteDeathSave(r, roll) PROVE entry' = entry
      BY <2>4 DEF CompleteDeathSave
  <2> QED
      BY <2>1, <2>2, <2>3, <2>4
<1> QED
    BY <1>1, <1>2, UnpaidRewritten

LEMMA ActionsBudget ==
    ASSUME TypeOK, BodiesTypeOK, ActionsNext
    PROVE  BudgetStays
<1>1. ASSUME NEW e \in Active, NEW t \in Active,
             \/ DeclareAttack(e, t) \/ RequestEscape(e, t)
             \/ \E kind \in {"attack", "special"} : AskReach(kind, e, t)
             \/ \E kind \in {"opportunity_attack", "special_adjudication"} : AskRuling(kind, e, t)
      PROVE  BudgetStays
    BY <1>1, DeclareBudget, EscapeBudget, AskedBudget
<1>2. ASSUME NEW r \in rows,
             \/ \E answer \in BOOLEAN : RuleReach(r, answer) \/ Rule(r, answer)
             \/ \E wound \in Wounds, critical \in BOOLEAN : CompleteAttack(r, wound, critical)
             \/ CompleteOpposed(r)
             \/ \E confirmed \in SUBSET r.at : \E wound \in [confirmed -> Wounds] : ResolveArea(r, confirmed, wound)
             \/ \E roll \in Rolls : CompleteDeathSave(r, roll)
      PROVE  BudgetStays
    BY <1>2, ReachBudget, OtherRowsBudget, OpposedBudget, ResolveAreaBudget
<1> QED
    BY <1>1, <1>2, AreaBudget, DeathSaveBudget DEF ActionsNext

LEMMA BudgetStep ==
    ASSUME TypeOK, BodiesTypeOK, NothingBefore, AbsentIsBlank, CallsName, PausesPlanned, BudgetInv, TypeOK',
           [Next]_<<vars, healthVars, rows>>
    PROVE  RowsTyped' /\ BudgetInv'
<1>1. BudgetStays
  <2>1. CASE (Starting \/ OrderNext \/ TurnsNext \/ MovesNext) /\ Bodies
      BY <2>1, BodiesBudget
  <2>2. CASE HealthNext /\ UNCHANGED rows
      BY <2>2, HealthBudget
  <2>3. CASE ActionsNext
      BY <2>3, ActionsBudget
  <2>4. CASE UNCHANGED <<vars, healthVars, rows>>
    <3>1. rows' = rows /\ \A x \in Entries : Kept(x)
        BY <2>4 DEF vars, Kept
    <3> QED
        BY <3>1, NothingPaid
  <2> QED
      BY <2>1, <2>2, <2>3, <2>4 DEF Next
<1>2. IsFiniteSet(rows) /\ IsFiniteSet(rows')
    BY <1>1 DEF BudgetStays, RowsTyped, BodiesTypeOK
<1> QED
    BY <1>1, <1>2, SpentStays DEF BudgetStays, BudgetInv

LEMMA BodiesTypeStep ==
    ASSUME TypeOK, BodiesTypeOK, RowsTyped', LivesSound', [Next]_<<vars, healthVars, rows>>
    PROVE  BodiesTypeOK'
<1>1. HeldOrAnew
    BY EffectKinds
<1>2. concentration' \in [Entries -> Holds \cup {None}] /\ effects' \in [Entries -> SUBSET Nat]
    BY <1>1, WriteTypes DEF HeldOrAnew, HeldAnew, BodiesTypeOK
<1>3. strays' \in [Entries -> SUBSET Nat]
    BY <1>1, WriteTypes DEF HeldOrAnew, StraysStay
<1>4. ChecksTyped'
  <2>1. ChecksTyped
      BY DEF BodiesTypeOK, ChecksTyped, ChecksOf
  <2> QED
      BY <1>2, <2>1, ChecksStep
<1> QED
    BY <1>1, <1>2, <1>3, <1>4 DEF BodiesTypeOK, HeldOrAnew, ChecksTyped, ChecksOf, RowsTyped, LivesSound, Lives

-----------------------------------------------------------------------------
(* Movement: what a step does to the pauses, the windows and the tokens. *)

\* nothing is newly asked: a pause stays or goes, a window stays, goes or is one opened by hand
Eased(e) ==
    /\ entry'[e].pending = entry[e].pending \/ entry'[e].pending = None
    /\ entry'[e].window = entry[e].window \/ (entry'[e].window # None => entry'[e].window.pause = 0)
AllEased == (\A e \in Entries : Eased(e)) /\ accepted' = accepted

LEMMA SameEases ==
    ASSUME NEW e \in Entries, SamePausing(entry'[e], entry[e])
    PROVE  Eased(e)
BY DEF SamePausing, Eased

LEMMA GoneEases ==
    ASSUME NEW e \in Entries, entry'[e].window = None, entry'[e].pending = None
    PROVE  Eased(e)
BY DEF Eased

LEMMA OtherEases ==
    ASSUME NEW o \in Entries, NEW row, Only(o, row), NEW e \in Entries, e # o \/ Eased(o)
    PROVE  Eased(e)
BY DEF Only, Eased

LEMMA EasedStep ==
    ASSUME TypeOK, CallsName, PausesPlanned, StepKinds
    PROVE  \/ AllEased
           \/ \E c \in calls : CommitMove(c)
           \/ \E owner, e \in Active, accept \in BOOLEAN : AnswerWindow(owner, e, accept)
<1>1. CASE Quiet \/ Planning \/ Checking
    BY <1>1 DEF Quiet, Planning, Checking, tableVars, boardVars, AllEased, Eased
<1>2. CASE Spending
  <2>1. PICK o \in Active, row \in EntryRows :
           /\ Only(o, row) /\ row.pending = entry[o].pending
           /\ row.window = entry[o].window \/ (row.window # None => row.window.pause = 0)
      BY <1>2 DEF Spending
  <2>2. Eased(o) /\ o \in Entries
      BY <2>1 DEF Only, Eased, Active
  <2> QED
      BY <1>2, <2>1, <2>2, OtherEases DEF Spending, boardVars, AllEased
<1>3. ASSUME NEW mode \in {"quick", "tactical"}, NEW monsters \in SUBSET Monsters, NEW place \in [monsters -> Cells],
             StartCombat(mode, monsters, place)
      PROVE  AllEased
    BY <1>3, StartCombatDoes, NewEntryIs DEF StartCombat, AllEased, Eased
<1>4. ASSUME NEW o \in Entries, NEW surprised \in BOOLEAN, AddEntry(o, surprised) PROVE AllEased
  <2>1. Only(o, NewEntry(surprised)) /\ accepted' = accepted
      BY <1>4, AddEntryDoes DEF AddEntry, boardVars
  <2>2. Eased(o)
      BY <2>1, NewEntryIs, GoneEases DEF Only
  <2> QED
      BY <2>1, <2>2, OtherEases DEF AllEased
<1>5. ASSUME NEW S \in SUBSET Active, RequestInitiative(S) PROVE AllEased
  <2>1. accepted' = accepted
      BY <1>5 DEF RequestInitiative, boardVars
  <2> QED
      BY <1>5, <2>1, RequestInitiativeDoes, SameEases DEF AllEased
<1>6. ASSUME NEW r \in requests, NEW total \in Totals, CompleteInitiative(r, total) PROVE AllEased
  <2>1. accepted' = accepted
      BY <1>6 DEF CompleteInitiative, boardVars
  <2> QED
      BY <1>6, <2>1, CompleteInitiativeDoes, SameEases DEF AllEased
<1>7. ASSUME NEW c \in calls, CommitFinalize(c) \/ CommitReorder(c) PROVE AllEased
  <2>1. Ordering(c) /\ Whole(c.seq) /\ accepted' = accepted
      BY <1>7 DEF CommitFinalize, CommitReorder, Ordering, boardVars
  <2>2. (\A e \in Active : \E i \in DOMAIN c.seq : c.seq[i] = e) /\ DOMAIN c.seq \subseteq Nat
      BY <2>1, WholeIs
  <2>3. CASE CommitFinalize(c)
      BY <2>1, <2>2, <2>3, CommitFinalizeDoes, GoneEases DEF AllEased, Eased
  <2>4. CASE CommitReorder(c)
      BY <2>1, <2>2, <2>4, CommitReorderDoes, SameEases DEF AllEased
  <2> QED
      BY <1>7, <2>3, <2>4
<1>8. CASE AdvanceTurn
  <2>1. combat.turn \in Ordered /\ accepted' = accepted
      BY <1>8 DEF AdvanceTurn, CanAdvance, boardVars
  <2>2. combat.turn \in Entries /\ NextInOrder(combat.turn) \in Entries
      BY <2>1, NextIs DEF Ordered, Active
  <2>3. ASSUME NEW e \in Entries PROVE Eased(e)
    <3>1. CASE e = NextInOrder(combat.turn)
        BY <1>8, <2>2, <3>1, AdvanceTurnDoes, GoneEases
    <3>2. CASE e # NextInOrder(combat.turn)
        BY <1>8, <2>2, <3>2, AdvanceTurnDoes, SameEases
    <3> QED
        BY <3>1, <3>2
  <2> QED
      BY <2>1, <2>3 DEF AllEased
<1>9. CASE EndCombat
  <2>1. accepted' = accepted
      BY <1>9 DEF EndCombat, boardVars
  <2>2. ASSUME NEW e \in Entries PROVE Eased(e)
    <3>1. entry[e] \in EntryRows /\ entry'[e] = Ended(entry[e])
        BY <1>9, EndCombatDoes DEF TypeOK
    <3> QED
        BY <3>1, EndedIs, GoneEases
  <2> QED
      BY <2>1, <2>2 DEF AllEased
<1>10. ASSUME NEW o \in Entries, NEW status \in Outcomes(o), SetEntryStatus(o, status) PROVE AllEased
  <2>1. accepted' = accepted
      BY <1>10 DEF SetEntryStatus
  <2>2. PICK row \in EntryRows : Only(o, row) /\ row.window = None /\ row.pending = None
      BY <1>10, SetEntryStatusDoes
  <2>3. Eased(o)
      BY <2>2, GoneEases DEF Only
  <2> QED
      BY <2>1, <2>2, <2>3, OtherEases DEF AllEased
<1>11. ASSUME NEW c \in calls, CommitPlace(c) \/ CommitReposition(c) PROVE AllEased
    BY <1>11 DEF CommitPlace, CommitReposition, AllEased, Eased
<1>12. ASSUME NEW o \in Active, CancelPause(o) PROVE AllEased
  <2>1. o \in Entries /\ accepted' = accepted
      BY <1>12 DEF Active, CancelPause
  <2>2. PICK row \in EntryRows : Only(o, row) /\ row.window = entry[o].window /\ row.pending = None
      BY <1>12, <2>1, CancelPauseDoes
  <2>3. Eased(o)
      BY <2>2 DEF Only, Eased
  <2> QED
      BY <2>1, <2>2, <2>3, OtherEases DEF AllEased
<1>13. ASSUME NEW state \in {"open", "closed"}, SetDoor(state) PROVE AllEased
    BY <1>13 DEF SetDoor, AllEased, Eased
<1> QED
    BY <1>1, <1>2, <1>3, <1>4, <1>5, <1>6, <1>7, <1>8, <1>9, <1>10, <1>11, <1>12, <1>13 DEF StepKinds

\* a token stays, moves, or leaves with its combatant; one that moves is remembered as unseen or bumps the board
Moved(e) ==
    token'[e].at \in Cells /\ token'[e].rev = token[e].rev + 1 /\ (e \in unseen' \/ Bumped)
Left(e) == entry'[e].status # "active" /\ entry'[e].pending = None
TokenMoves(e) == token'[e] = token[e] \/ Moved(e) \/ Left(e)

LEMMA PutMoves ==
    ASSUME NEW o \in Entries, NEW x \in Cells, Put(o, x), o \in unseen' \/ Bumped, NEW e \in Entries
    PROVE  TokenMoves(e)
BY DEF Put, Moved, TokenMoves

LEMMA TokenStep ==
    ASSUME TypeOK, CallsName, StepKinds, combat.status # "none"
    PROVE  \A e \in Entries : TokenMoves(e)
<1> DEFINE Goal == \A e \in Entries : TokenMoves(e)
<1> SUFFICES Goal
    OBVIOUS
<1>1. token' = token => Goal
    BY DEF TokenMoves
<1>2. board \in Boards
    BY DEF TypeOK
<1> HIDE DEF Goal
<1>3. CASE Quiet \/ Spending \/ Planning \/ Checking \/ AdvanceTurn \/ EndCombat
  <2>1. token' = token
    <3>1. CASE Quiet
        BY <3>1 DEF Quiet, tableVars
    <3>2. CASE Spending \/ Planning \/ Checking
        BY <3>2 DEF Spending, Planning, Checking, boardVars
    <3>3. CASE AdvanceTurn \/ EndCombat
        BY <3>3 DEF AdvanceTurn, EndCombat, boardVars
    <3> QED
        BY <1>3, <3>1, <3>2, <3>3
  <2> QED
      BY <1>1, <2>1
<1>4. ASSUME NEW mode, NEW monsters, NEW place, StartCombat(mode, monsters, place) PROVE Goal
    BY <1>4 DEF StartCombat
<1>5. ASSUME NEW e, (\E surprised : AddEntry(e, surprised)) \/ RequestInitiative(e) \/ CancelPause(e) \/ SetDoor(e)
      PROVE  Goal
    BY <1>1, <1>5 DEF AddEntry, RequestInitiative, CancelPause, SetDoor, boardVars
<1>6. ASSUME NEW r, NEW total, CompleteInitiative(r, total) PROVE Goal
    BY <1>1, <1>6 DEF CompleteInitiative, boardVars
<1>7. ASSUME NEW c \in calls, CommitFinalize(c) \/ CommitReorder(c) PROVE Goal
    BY <1>1, <1>7 DEF CommitFinalize, CommitReorder, boardVars
<1>8. ASSUME NEW owner, NEW e, NEW accept, AnswerWindow(owner, e, accept) PROVE Goal
    BY <1>1, <1>8 DEF AnswerWindow
<1>9. ASSUME NEW o \in Entries, NEW status \in Outcomes(o), SetEntryStatus(o, status) PROVE Goal
  <2>1. PICK row \in EntryRows : Only(o, row) /\ row.status = status /\ row.pending = None
      BY <1>9, SetEntryStatusDoes
  <2>2. status # "active"
      BY DEF Outcomes
  <2>3. Left(o)
      BY <2>1, <2>2 DEF Only, Left
  <2>4. \A e \in Entries \ {o} : token'[e] = token[e]
      BY <1>9 DEF SetEntryStatus, TypeOK, Tokens
  <2> QED
      BY <2>3, <2>4 DEF Goal, TokenMoves
<1>10. ASSUME NEW c \in calls, CommitMove(c) PROVE Goal
  <2>1. /\ c \in MoveCalls /\ c.walk[Len(c.walk)] \in Cells
        /\ token' = token \/ Put(c.entry, c.walk[Len(c.walk)])
      BY <1>10, CommitMovePuts
  <2>2. Bumped /\ c.entry \in Entries
      BY <1>2, <1>10, <2>1, BumpIs DEF CommitMove, MoveCalls
  <2> QED
      BY <1>1, <2>1, <2>2, PutMoves DEF Goal
<1>11. ASSUME NEW c \in calls, CommitPlace(c) \/ CommitReposition(c) PROVE Goal
  <2>1. c.entry \in Entries /\ Put(c.entry, c.walk[1]) /\ c.walk[1] \in Cells
      BY <1>11, CommitPlacePuts
  <2>2. c.entry \in unseen' \/ Bumped
      BY <1>2, <1>11, BumpIs DEF CommitPlace, CommitReposition
  <2> QED
      BY <2>1, <2>2, PutMoves DEF Goal
<1> QED
    BY <1>3, <1>4, <1>5, <1>6, <1>7, <1>8, <1>9, <1>10, <1>11 DEF StepKinds

\* what is waiting, and not just planned, was waiting before
LEMMA CallIsOldOrPlanned ==
    ASSUME TypeOK, StepKinds, NEW c \in calls', Moving(c)
    PROVE  c \in calls \/ (Planning /\ JustPlanned(c))
<1>1. CASE calls' \subseteq calls
    BY <1>1
<1>2. CASE Planning
  <2>1. PICK new : (NewOrder(new) \/ JustPlanned(new) \/ NewPlace(new)) /\ calls' = calls \cup {new}
      BY <1>2 DEF Planning
  <2>2. ASSUME c = new, NewOrder(new) PROVE FALSE
      BY <2>2 DEF NewOrder, OrderCalls, Moving
  <2>3. ASSUME c = new, NewPlace(new) PROVE FALSE
      BY <2>3 DEF NewPlace, PlaceCalls, Moving
  <2> QED
      BY <1>2, <2>1, <2>2, <2>3
<1> QED
    BY <1>1, <1>2, CallsStep

LEMMA PausesPlannedStep ==
    ASSUME TypeOK, PausesPlanned, StepKinds
    PROVE  PausesPlanned'
<1>1. ASSUME NEW c \in calls', Moving(c) PROVE Planned(c)
    BY <1>1, CallIsOldOrPlanned DEF JustPlanned, PausesPlanned
<1> QED
    BY <1>1 DEF PausesPlanned

-----------------------------------------------------------------------------
(* Movement: the invariants of pauses and windows. *)

LEMMA RevsAre ==
    ASSUME TypeOK
    PROVE  /\ board.rev \in Nat /\ board.rev >= 1
           /\ \A e \in Entries : entry[e] \in EntryRows
           /\ \A e \in Entries : entry[e].pending # None => entry[e].pending \in Pauses /\ entry[e].pending.pause \in Nat
           /\ \A e \in Entries : entry[e].window # None => entry[e].window.pause \in Nat
BY DEF TypeOK, Boards, EntryRows, Pauses, Windows

\* a pause is possible in a tactical Combat only, and such a Combat stays one
LEMMA ModeStays ==
    ASSUME TypeOK, NothingBefore, AbsentIsBlank, StepKinds, NEW e \in Entries, entry[e].pending # None
    PROVE  combat.status # "none" /\ combat'.mode = combat.mode
<1>1. Present(e)
    BY DEF AbsentIsBlank
<1>2. combat.status # "none"
    BY <1>1 DEF NothingBefore
<1> QED
    BY <1>2, CombatStep

LEMMA RevGrows ==
    ASSUME TypeOK, StepKinds
    PROVE  board'.rev \in Nat /\ board.rev <= board'.rev
BY BoardStep, RevsAre DEF Bumped

\* while nothing new is asked
LEMMA EasedPauses ==
    ASSUME TypeOK, NothingBefore, AbsentIsBlank, CallsName, StepKinds, PauseInv, AllEased
    PROVE  PauseInv'
<1>1. /\ board.rev \in Nat /\ board'.rev \in Nat /\ board.rev >= 1 /\ board.rev <= board'.rev
      /\ accepted' = accepted
    BY RevsAre, RevGrows DEF AllEased
<1>2. ASSUME NEW e \in Entries, entry'[e].pending # None
      PROVE  /\ entry'[e].pending = entry[e].pending /\ entry[e].pending # None
             /\ entry[e].pending.pause \in 1..(board.rev - 1)
    BY <1>2 DEF AllEased, Eased, PauseInv, PausesStand
<1>3. ASSUME NEW e \in Entries, entry'[e].window # None
      PROVE  entry'[e].window = entry[e].window \/ entry'[e].window.pause = 0
    BY <1>3 DEF AllEased, Eased
<1>4. PausesStand'
  <2>1. ASSUME NEW e \in Entries, entry'[e].pending # None
        PROVE  /\ combat'.mode = "tactical" /\ token'[e].at # Off
               /\ entry'[e].pending.pause \in 1..(board'.rev - 1)
    <3>1. entry'[e].pending = entry[e].pending /\ entry[e].pending # None
        BY <1>2, <2>1
    <3>2. combat.status # "none" /\ combat'.mode = combat.mode
        BY <3>1, ModeStays
    <3>3. combat.mode = "tactical" /\ token[e].at # Off /\ entry[e].pending.pause \in 1..(board.rev - 1)
        BY <3>1 DEF PauseInv, PausesStand
    <3>4. token'[e].at # Off
      <4>1. TokenMoves(e)
          BY <3>2, TokenStep
      <4>2. None \notin Cells
          BY CombatAssumption
      <4> QED
          BY <2>1, <3>3, <4>1, <4>2 DEF TokenMoves, Moved, Left, Off
    <3> QED
        BY <1>1, <3>1, <3>2, <3>3, <3>4
  <2> QED
      BY <2>1 DEF PausesStand
<1>5. OnePause'
    BY <1>2 DEF PauseInv, OnePause
<1>6. PausesKnown'
  <2>1. ASSUME NEW o \in Entries, entry'[o].window # None PROVE entry'[o].window.pause < board'.rev
    <3>1. CASE entry'[o].window = entry[o].window
      <4>1. entry[o].window.pause < board.rev /\ entry[o].window.pause \in Nat
          BY <2>1, <3>1, RevsAre DEF PauseInv, PausesKnown
      <4> QED
          BY <1>1, <3>1, <4>1
    <3>2. CASE entry'[o].window.pause = 0
        BY <1>1, <3>2
    <3> QED
        BY <1>3, <2>1, <3>1, <3>2
  <2>2. ASSUME NEW id \in accepted PROVE id[2] < board'.rev
    <3>1. id[2] < board.rev /\ id[2] \in Nat
        BY DEF PauseInv, PausesKnown, TypeOK, WindowIds
    <3> QED
        BY <1>1, <3>1
  <2> QED
      BY <1>1, <2>1, <2>2 DEF PausesKnown
<1>7. WindowsAwaited'
  <2>1. ASSUME NEW e \in Entries, NEW o \in Entries, entry'[e].pending # None
        PROVE  LET was == entry'[e].pending
                   window == entry'[o].window IN
               /\ window # None /\ window.pause = was.pause =>
                     /\ window.kind = "opportunity_attack" /\ window.mover = e /\ <<o, was.pause>> \in was.windows
               /\ <<o, was.pause>> \in accepted' => <<o, was.pause>> \in was.yes
    <3>1. /\ entry'[e].pending = entry[e].pending /\ entry[e].pending # None
          /\ entry[e].pending.pause # 0
        BY <1>2, <2>1
    <3>2. entry'[o].window # None /\ entry'[o].window.pause = entry[e].pending.pause => entry'[o].window = entry[o].window
        BY <1>3, <3>1
    <3> QED
        BY <1>1, <3>1, <3>2 DEF PauseInv, WindowsAwaited
  <2> QED
      BY <2>1 DEF WindowsAwaited
<1> QED
    BY <1>4, <1>5, <1>6, <1>7 DEF PauseInv

\* a movement that pauses: its pause is the board revision it was planned on, which nothing else bears
LEMMA MovePauses ==
    ASSUME TypeOK, NothingBefore, AbsentIsBlank, CallsName, PausesPlanned, StepKinds, PauseInv,
           NEW c \in calls, CommitMove(c)
    PROVE  PauseInv'
<1>1. board.rev \in Nat /\ board.rev >= 1 /\ board'.rev = board.rev + 1 /\ accepted' = accepted
  <2>1. board \in Boards
      BY DEF TypeOK
  <2> QED
      BY <2>1, BumpIs, RevsAre DEF CommitMove, Bumped
<1>2. Moving(c) /\ c \in MoveCalls /\ c.entry \in Entries /\ Planned(c)
    BY CommitMovePuts DEF MoveCalls, PausesPlanned
<1>3. combat'.mode = combat.mode /\ combat.mode = "tactical"
    BY <1>2 DEF CommitMove, turnVars, CallsName
<1>4. c.pending # None =>
         /\ c.pending.pause = board.rev /\ c.pending.yes = {}
         /\ c.pending.windows = {<<o, board.rev>> : o \in c.reactors}
    BY <1>2 DEF Planned, CommitMove, SameBoard
<1>5. c.pending = None => c.reactors = {}
    BY <1>2, PausesAssumption DEF Planned
<1> DEFINE keeps == c.kind = "confirm" /\ c.pending = None
<1>6. /\ \A o \in Entries : entry'[o].window = IF o \in c.reactors THEN OpportunityWindow(c) ELSE entry[o].window
      /\ \A o \in Entries : o # c.entry => entry'[o].pending = entry[o].pending
      /\ entry'[c.entry].pending = IF keeps THEN entry[c.entry].pending ELSE c.pending
    BY <1>2, PlannedReactors, CommitMoveDoes
<1>7. c.reactors # {} =>
         /\ OpportunityWindow(c).kind = "opportunity_attack" /\ OpportunityWindow(c).mover = c.entry
         /\ OpportunityWindow(c).pause = board.rev
    BY <1>4, <1>5 DEF OpportunityWindow
<1>8. ASSUME NEW e \in Entries, entry'[e].pending # None
      PROVE  \/ /\ e = c.entry /\ c.pending # None /\ entry'[e].pending = c.pending
                /\ entry'[e].pending.pause = board.rev
             \/ /\ entry'[e].pending = entry[e].pending /\ entry[e].pending # None
                /\ entry[e].pending.pause \in 1..(board.rev - 1) /\ token[e].at # Off
    BY <1>4, <1>6, <1>8 DEF PauseInv, PausesStand
<1>9. \A o \in Entries : entry[o].window # None => entry[o].window.pause < board.rev /\ entry[o].window.pause \in Nat
    BY RevsAre DEF PauseInv, PausesKnown
<1>10. \A id \in accepted : id[2] < board.rev /\ id[2] \in Nat
    BY DEF PauseInv, PausesKnown, TypeOK, WindowIds
<1> HIDE DEF keeps
<1>11. PausesStand'
  <2>1. ASSUME NEW e \in Entries, entry'[e].pending # None
        PROVE  /\ combat'.mode = "tactical" /\ token'[e].at # Off
               /\ entry'[e].pending.pause \in 1..(board'.rev - 1)
    <3>1. entry'[e].pending.pause \in 1..(board'.rev - 1)
        BY <1>1, <1>8, <2>1
    <3>2. token'[e].at # Off
      <4>1. None \notin Cells
          BY CombatAssumption
      <4>2. CASE c.kind = "stop"
          BY <1>8, <2>1, <4>2, CommitMovePuts DEF CommitMove, SameToken
      <4>3. CASE c.kind # "stop"
        <5>1. Put(c.entry, c.walk[Len(c.walk)]) /\ c.walk[Len(c.walk)] \in Cells
            BY <4>3, CommitMovePuts
        <5> QED
            BY <1>2, <1>8, <2>1, <4>1, <5>1 DEF Put, Off
      <4> QED
          BY <4>2, <4>3
    <3> QED
        BY <1>3, <3>1, <3>2
  <2> QED
      BY <2>1 DEF PausesStand
<1>12. OnePause'
  <2>1. ASSUME NEW e \in Entries, NEW o \in Entries, entry'[e].pending # None, entry'[o].pending # None,
               entry'[e].pending.pause = entry'[o].pending.pause
        PROVE  e = o
      BY <1>1, <1>8, <2>1 DEF PauseInv, OnePause
  <2> QED
      BY <2>1 DEF OnePause
<1>13. PausesKnown'
  <2>1. ASSUME NEW o \in Entries, entry'[o].window # None PROVE entry'[o].window.pause < board'.rev
      BY <1>1, <1>6, <1>7, <1>9, <2>1
  <2>2. \A id \in accepted : id[2] < board'.rev
      BY <1>1, <1>10
  <2> QED
      BY <1>1, <2>1, <2>2 DEF PausesKnown
<1>14. WindowsAwaited'
  <2>1. ASSUME NEW e \in Entries, NEW o \in Entries, entry'[e].pending # None
        PROVE  LET was == entry'[e].pending
                   window == entry'[o].window IN
               /\ window # None /\ window.pause = was.pause =>
                     /\ window.kind = "opportunity_attack" /\ window.mover = e /\ <<o, was.pause>> \in was.windows
               /\ <<o, was.pause>> \in accepted' => <<o, was.pause>> \in was.yes
    <3>1. CASE e = c.entry /\ c.pending # None /\ entry'[e].pending = c.pending
      <4>1. entry'[e].pending.pause = board.rev
          BY <1>4, <3>1
      <4>2. <<o, board.rev>> \notin accepted
          BY <1>1, <1>10
      <4>3. ASSUME entry'[o].window # None, entry'[o].window.pause = board.rev
            PROVE  /\ entry'[o].window.kind = "opportunity_attack" /\ entry'[o].window.mover = e
                   /\ <<o, board.rev>> \in c.pending.windows
        <5>1. o \in c.reactors
            BY <1>1, <1>6, <1>9, <4>3
        <5> QED
            BY <1>4, <1>6, <1>7, <3>1, <5>1
      <4> QED
          BY <1>1, <3>1, <4>1, <4>2, <4>3
    <3>2. CASE entry'[e].pending = entry[e].pending /\ entry[e].pending # None /\ entry[e].pending.pause \in 1..(board.rev - 1)
      <4>1. entry'[o].window # None /\ entry'[o].window.pause = entry[e].pending.pause => entry'[o].window = entry[o].window
          BY <1>1, <1>6, <1>7, <3>2
      <4> QED
          BY <1>1, <3>2, <4>1 DEF PauseInv, WindowsAwaited
    <3> QED
        BY <1>8, <2>1, <3>1, <3>2
  <2> QED
      BY <2>1 DEF WindowsAwaited
<1> QED
    BY <1>11, <1>12, <1>13, <1>14 DEF PauseInv

\* an answer is told to the movement that waits for it, if one does
LEMMA AnswersPauses ==
    ASSUME TypeOK, PauseInv, NEW owner \in Active, NEW by \in Active, NEW accept \in BOOLEAN, AnswerWindow(owner, by, accept)
    PROVE  PauseInv'
<1> DEFINE id == <<owner, entry[owner].window.pause>>
<1>1. owner \in Entries /\ by \in Entries /\ entry[owner].window # None
    BY DEF Active, AnswerWindow
<1>2. /\ UNCHANGED <<combat, board, token>>
      /\ accepted' = IF accept /\ entry[owner].window.kind = "opportunity_attack" THEN accepted \cup {id} ELSE accepted
    BY DEF AnswerWindow, turnVars
<1>3. \A o \in Entries :
         /\ entry'[o].window = IF o = owner THEN None ELSE entry[o].window
         /\ IF Waits(o, owner) THEN AnsweredBy(entry'[o].pending, entry[o].pending, id, accept)
            ELSE entry'[o].pending = entry[o].pending
    BY <1>1, AnswerWindowDoes
<1> HIDE DEF id
<1>4. ASSUME NEW e \in Entries, entry'[e].pending # None
      PROVE  entry[e].pending # None /\ entry'[e].pending.pause = entry[e].pending.pause
    BY <1>3, <1>4 DEF Waits, AnsweredBy
<1>5. PausesStand' /\ OnePause'
    BY <1>2, <1>4 DEF PauseInv, PausesStand, OnePause
<1>6. PausesKnown'
  <2>1. id[2] = entry[owner].window.pause /\ entry[owner].window.pause < board.rev
      BY <1>1 DEF id, PauseInv, PausesKnown
  <2> QED
      BY <1>2, <1>3, <2>1 DEF PauseInv, PausesKnown
<1>7. WindowsAwaited'
  <2>1. ASSUME NEW e \in Entries, NEW o \in Entries, entry'[e].pending # None
        PROVE  LET was == entry'[e].pending
                   window == entry'[o].window IN
               /\ window # None /\ window.pause = was.pause =>
                     /\ window.kind = "opportunity_attack" /\ window.mover = e /\ <<o, was.pause>> \in was.windows
               /\ <<o, was.pause>> \in accepted' => <<o, was.pause>> \in was.yes
    <3>1. entry[e].pending # None /\ entry'[e].pending.pause = entry[e].pending.pause
        BY <1>4, <2>1
    <3>2. ASSUME entry'[o].window # None, entry'[o].window.pause = entry[e].pending.pause
          PROVE  /\ entry'[o].window.kind = "opportunity_attack" /\ entry'[o].window.mover = e
                 /\ <<o, entry[e].pending.pause>> \in entry'[e].pending.windows
      <4>1. o # owner /\ entry'[o].window = entry[o].window
          BY <1>3, <3>2
      <4>2. /\ entry[o].window.kind = "opportunity_attack" /\ entry[o].window.mover = e
            /\ <<o, entry[e].pending.pause>> \in entry[e].pending.windows
          BY <3>1, <3>2, <4>1 DEF PauseInv, WindowsAwaited
      <4>3. <<o, entry[e].pending.pause>> # id
          BY <4>1 DEF id
      <4> QED
          BY <1>3, <4>1, <4>2, <4>3 DEF AnsweredBy
    <3>3. ASSUME <<o, entry[e].pending.pause>> \in accepted'
          PROVE  <<o, entry[e].pending.pause>> \in entry'[e].pending.yes
      <4>1. CASE <<o, entry[e].pending.pause>> \in accepted
        <5>1. <<o, entry[e].pending.pause>> \in entry[e].pending.yes
            BY <3>1, <4>1 DEF PauseInv, WindowsAwaited
        <5> QED
            BY <1>3, <5>1 DEF AnsweredBy
      <4>2. CASE <<o, entry[e].pending.pause>> = id /\ accept
        <5>1. o = owner /\ entry[owner].window.pause = entry[e].pending.pause
            BY <4>2 DEF id
        <5>2. Waits(e, owner)
            BY <1>1, <3>1, <5>1 DEF PauseInv, WindowsAwaited, Waits
        <5> QED
            BY <1>3, <4>2, <5>2 DEF AnsweredBy
      <4> QED
          BY <1>2, <3>3, <4>1, <4>2
    <3> QED
        BY <3>1, <3>2, <3>3
  <2> QED
      BY <2>1 DEF WindowsAwaited
<1> QED
    BY <1>5, <1>6, <1>7 DEF PauseInv

LEMMA PauseStep ==
    ASSUME TypeOK, NothingBefore, AbsentIsBlank, CallsName, PausesPlanned, StepKinds, PauseInv
    PROVE  PauseInv'
BY EasedStep, EasedPauses, MovePauses, AnswersPauses

-----------------------------------------------------------------------------
(* Movement: what waiting movements rely on. *)

LEMMA ResumesFitStep ==
    ASSUME TypeOK, CallsName, PausesPlanned, ResumesFit, StepKinds
    PROVE  ResumesFit'
<1> DEFINE Fits(c) ==
              LET was == entry[c.entry].pending IN
              c.kind = "resume" /\ c.boardRev = board.rev /\ was # None =>
                  /\ c.pendingRev <= was.revision
                  /\ c.pendingRev = was.revision => was.windows = {} /\ (was.yes # {} => c.dm)
<1>1. ASSUME NEW c \in calls', Moving(c) PROVE Fits(c)'
  <2>1. CASE c \in calls
    <3>1. c \in MoveCalls /\ c.entry \in Entries /\ c.boardRev \in Nat /\ c.pendingRev \in Nat
        BY <1>1, <2>1, CallKinds DEF MoveCalls
    <3>2. Fits(c) /\ c.boardRev <= board.rev
        BY <1>1, <2>1 DEF ResumesFit, CallsName
    <3>3. board.rev \in Nat /\ (Bumped => board'.rev = board.rev + 1)
        BY RevsAre DEF Bumped
    <3>4. Bumped => Fits(c)'
        BY <3>1, <3>2, <3>3
    <3>5. CASE AllEased
      <4>1. entry'[c.entry].pending = entry[c.entry].pending \/ entry'[c.entry].pending = None
          BY <3>1, <3>5 DEF AllEased, Eased
      <4>2. board' = board \/ Bumped
          BY BoardStep
      <4> QED
          BY <3>2, <3>4, <4>1, <4>2
    <3>6. ASSUME NEW m \in calls, CommitMove(m) PROVE Fits(c)'
      <4>1. board \in Boards
          BY DEF TypeOK
      <4> QED
          BY <3>4, <3>6, <4>1, BumpIs DEF CommitMove
    <3>7. ASSUME NEW owner \in Active, NEW by \in Active, NEW accept \in BOOLEAN, AnswerWindow(owner, by, accept)
          PROVE  Fits(c)'
      <4>1. owner \in Entries /\ by \in Entries /\ board' = board
          BY <3>7 DEF Active, AnswerWindow
      <4> DEFINE id == <<owner, entry[owner].window.pause>>
      <4>2. IF Waits(c.entry, owner) THEN AnsweredBy(entry'[c.entry].pending, entry[c.entry].pending, id, accept)
            ELSE entry'[c.entry].pending = entry[c.entry].pending
          BY <3>1, <3>7, <4>1, AnswerWindowDoes
      <4>3. CASE ~Waits(c.entry, owner)
          BY <3>2, <4>1, <4>2, <4>3
      <4>4. CASE Waits(c.entry, owner)
        <5>1. entry[c.entry].pending \in Pauses
            BY <3>1, <4>4, RevsAre DEF Waits
        <5>2. entry[c.entry].pending # None /\ entry[c.entry].pending.revision \in Nat
            BY <4>4, <5>1 DEF Waits, Pauses
        <5>3. entry'[c.entry].pending.revision = entry[c.entry].pending.revision + 1
            BY <4>2, <4>4 DEF AnsweredBy
        <5> QED
            BY <3>1, <3>2, <4>1, <5>2, <5>3
      <4> QED
          BY <4>3, <4>4
    <3> QED
        BY <3>5, <3>6, <3>7, EasedStep
  <2>2. CASE Planning /\ JustPlanned(c)
    <3>1. entry' = entry /\ board' = board
        BY <2>2 DEF Planning, boardVars
    <3>2. c.kind = "resume" => c.pendingRev \in Nat /\ Fits(c)
        BY <2>2 DEF JustPlanned, MoveCalls
    <3> QED
        BY <3>1, <3>2
  <2> QED
      BY <1>1, <2>1, <2>2, CallIsOldOrPlanned
<1>2. ASSUME NEW c \in calls', ~Moving(c) PROVE Fits(c)'
    BY <1>2 DEF Moving
<1> QED
    BY <1>1, <1>2 DEF ResumesFit

\* a call that waits was there before the step, in a Combat that had started
LEMMA WaitingCall ==
    ASSUME TypeOK, NothingBefore, CallsName, PausesPlanned, StepKinds, NEW c \in calls, Moving(c)
    PROVE  /\ c \in MoveCalls /\ c.entry \in Entries /\ c.walk \in Seq(Cells)
           /\ combat.status # "none" /\ c.boardRev \in Nat /\ c.tokenRev \in Nat
           /\ c.entry \in Active' => c.entry \in Active
<1>1. c \in MoveCalls /\ c.entry \in Entries /\ Present(c.entry) /\ combat.status # "none"
    BY CallKinds DEF MoveCalls, CallsName, NothingBefore
<1>2. c.entry \in Active' => c.entry \in Active
    BY <1>1, PresenceStep DEF Active
<1> QED
    BY <1>1, <1>2 DEF MoveCalls

LEMMA TokensFitStep ==
    ASSUME TypeOK, NothingBefore, CallsName, PausesPlanned, TokensFit, StepKinds
    PROVE  TokensFit'
<1>1. ASSUME NEW c \in calls', Moving(c), c.entry \in Active'
      PROVE  /\ c.tokenRev <= token'[c.entry].rev
             /\ c.tokenRev = token'[c.entry].rev => token'[c.entry].at = c.walk[1]
  <2>1. CASE c \in calls
    <3>1. c.entry \in Entries /\ c.entry \in Active /\ combat.status # "none" /\ c.tokenRev \in Nat
        BY <1>1, <2>1, WaitingCall
    <3>2. /\ c.tokenRev <= token[c.entry].rev
          /\ c.tokenRev = token[c.entry].rev => token[c.entry].at = c.walk[1]
        BY <1>1, <2>1, <3>1 DEF TokensFit
    <3>3. TokenMoves(c.entry) /\ token[c.entry].rev \in Nat
        BY <3>1, TokenStep DEF TypeOK, Tokens
    <3>4. ~Left(c.entry)
        BY <1>1 DEF Active, Left
    <3>5. CASE token'[c.entry] = token[c.entry]
        BY <3>2, <3>5
    <3>6. CASE token'[c.entry].rev = token[c.entry].rev + 1
        BY <3>1, <3>2, <3>3, <3>6
    <3> QED
        BY <3>3, <3>4, <3>5, <3>6 DEF TokenMoves, Moved
  <2>2. CASE Planning /\ JustPlanned(c)
    <3>1. token' = token /\ c.entry \in Entries
        BY <2>2 DEF Planning, boardVars, JustPlanned, Active
    <3> QED
        BY <2>2, <3>1 DEF JustPlanned, TypeOK, Tokens
  <2> QED
      BY <1>1, <2>1, <2>2, CallIsOldOrPlanned
<1> QED
    BY <1>1 DEF TokensFit

\* who is new on a cell while the board's revision stays has not been seen
LEMMA NewOnCell ==
    ASSUME TypeOK, NothingBefore, AbsentIsBlank, CallsName, PausesPlanned, StepKinds, ~Bumped,
           combat.status # "none", NEW x \in Cells, NEW e \in Entries
    PROVE  On(x, e)' \subseteq On(x, e) \cup unseen'
<1> SUFFICES ASSUME NEW o \in On(x, e)', o \notin unseen'
             PROVE  o \in On(x, e)
    OBVIOUS
<1>1. o \in Entries /\ o # e /\ entry'[o].status = "active" /\ token'[o].at = x
    BY DEF On, Active
<1>2. TokenMoves(o)
    BY <1>1, TokenStep
<1>3. token[o].at = x
    BY <1>1, <1>2 DEF TokenMoves, Moved, Left
<1>4. None \notin Cells
    BY CombatAssumption
<1>5. Present(o)
    BY <1>1, <1>3, <1>4 DEF AbsentIsBlank, Off
<1>6. entry[o].status = "active"
    BY <1>1, <1>5, PresenceStep
<1> QED
    BY <1>1, <1>3, <1>6 DEF On, Active

LEMMA WaysFitStep ==
    ASSUME TypeOK, NothingBefore, AbsentIsBlank, CallsName, PausesPlanned, WaysFit, StepKinds
    PROVE  WaysFit'
<1>1. ASSUME NEW c \in calls', c.kind \in {"confirm", "resume"}, c.boardRev = board'.rev
      PROVE  WayIsFree(c)'
  <2>1. Moving(c)
      BY <1>1 DEF Moving
  <2>2. CASE c \in calls
    <3>1. /\ c.entry \in Entries /\ c.walk \in Seq(Cells) /\ c.walk # << >> /\ combat.status # "none"
          /\ c.boardRev \in Nat /\ c.boardRev <= board.rev /\ board.rev \in Nat
        BY <2>1, <2>2, WaitingCall, RevsAre DEF CallsName
    <3>2. ~Bumped
        BY <1>1, <3>1 DEF Bumped
    <3>3. board' = board /\ unseen \subseteq unseen'
        BY <3>2, BoardStep
    <3>4. WayIsFree(c)
        BY <1>1, <2>2, <3>3 DEF WaysFit
    <3>5. \A i \in 1..Len(c.walk) : c.walk[i] \in Cells
        BY <3>1
    <3>6. \A i \in 1..Len(c.walk) : On(c.walk[i], c.entry)' \subseteq On(c.walk[i], c.entry) \cup unseen'
        BY <3>1, <3>2, <3>5, NewOnCell
    <3>7. ASSUME NEW i \in 2..Len(c.walk)
          PROVE  /\ Crosses(c.walk[i-1], c.walk[i]) => board'.door = "open"
                 /\ \A o \in On(c.walk[i], c.entry)' \ unseen' : ~Hostile(c.entry, o)
      <4>1. i \in 1..Len(c.walk)
          BY <3>1
      <4> QED
          BY <3>3, <3>4, <3>6, <4>1 DEF WayIsFree
    <3>8. ASSUME c.pending = None PROVE On(c.walk[Len(c.walk)], c.entry)' \subseteq unseen'
      <4>1. Len(c.walk) \in 1..Len(c.walk)
          BY <3>1
      <4>2. On(c.walk[Len(c.walk)], c.entry) \subseteq unseen
          BY <3>4, <3>8 DEF WayIsFree
      <4> QED
          BY <3>3, <3>6, <4>1, <4>2
    <3> QED
        BY <3>7, <3>8 DEF WayIsFree
  <2>3. CASE Planning /\ JustPlanned(c)
    <3>1. UNCHANGED <<entry, board, token, unseen>>
        BY <2>3 DEF Planning, boardVars
    <3>2. WayIsFree(c)
        BY <1>1, <2>3 DEF JustPlanned
    <3> QED
        BY <3>1, <3>2 DEF WayIsFree, On, Active
  <2> QED
      BY <2>1, <2>2, <2>3, CallIsOldOrPlanned
<1> QED
    BY <1>1 DEF WaysFit

\* a movement that commits does so on the board and from the cell it was planned on
LEMMA MoveFits ==
    ASSUME TypeOK, TokensFit, WaysFit, NEW c \in calls, Moves(c)
    PROVE  /\ c.entry \in Active => token[c.entry].at = c.walk[1]
           /\ WayIsFree(c)
BY DEF Moves, CommitMove, SameToken, SameBoard, Moving, TokensFit, WaysFit

\* a movement that resumes has all its answers
LEMMA ResumeFits ==
    ASSUME TypeOK, WindowsAwaited, ResumesFit, NEW c \in calls, c.kind = "resume", CommitMove(c)
    PROVE  LET was == entry[c.entry].pending IN
           \A o \in was.asked :
              /\ entry[o].window = None \/ entry[o].window.pause # was.pause
              /\ <<o, was.pause>> \in accepted => c.dm
<1> DEFINE was == entry[c.entry].pending
<1>1. was # None /\ was.revision = c.pendingRev /\ c.boardRev = board.rev
    BY DEF CommitMove, SamePause, SameBoard
<1>2. c.entry \in Entries
    BY CallKinds DEF Moving, MoveCalls
<1>3. was.asked \subseteq Entries
    BY <1>1, <1>2, RevsAre DEF Pauses
<1>4. was.windows = {} /\ (was.yes # {} => c.dm)
    BY <1>1 DEF ResumesFit
<1> QED
    BY <1>1, <1>2, <1>3, <1>4 DEF WindowsAwaited

-----------------------------------------------------------------------------
(* The invariant holds at first and stays. *)

Init == StateInit /\ HealthInit /\ rows = {}
allVars == <<vars, healthVars, rows>>

LEMMA TypesAtFirst == Init => TypeOK /\ BodiesTypeOK
<1> SUFFICES ASSUME Init PROVE TypeOK /\ BodiesTypeOK
    OBVIOUS
<1>1. session \in Sessions /\ combat \in Combats /\ board \in Boards
    BY DEF Init, StateInit, Sessions, Combats, Boards
<1>2. entry \in [Entries -> EntryRows]
    BY NoEntryIs DEF Init, StateInit
<1>3. token \in Tokens
    BY DEF Init, StateInit, NoToken, Off, Tokens
<1>4. life \in [Characters -> [up : BOOLEAN, out : BOOLEAN, ok : Nat, bad : Nat, end : {"open", "stable", "dead"}]]
    BY DEF Init, HealthInit, Standing
<1>5. rows \in SUBSET ActionRows /\ IsFiniteSet(rows)
    BY FS_EmptySet DEF Init
<1>6. TypeOK
    BY <1>1, <1>2, <1>3 DEF Init, StateInit, TypeOK
<1>7. BodiesTypeOK
    BY <1>4, <1>5 DEF Init, HealthInit, BodiesTypeOK
<1> QED
    BY <1>6, <1>7

LEMMA NobodyAtFirst ==
    ASSUME Init
    PROVE  /\ \A e \in Entries : entry[e] = NoEntry /\ ~Present(e) /\ token[e].at = Off
           /\ ~Fighting /\ ~Running /\ Active = {}
<1>1. \A e \in Entries : entry[e] = NoEntry /\ token[e] = NoToken
    BY DEF Init, StateInit
<1>2. \A e \in Entries : entry[e].status = "absent"
    BY <1>1, NoEntryIs
<1>3. \A e \in Entries : token[e].at = Off
    BY <1>1 DEF NoToken
<1> QED
    BY <1>1, <1>2, <1>3 DEF Present, Active, Fighting, Running, Init, StateInit

LEMMA BudgetAtFirst == Init => BudgetInv
<1> SUFFICES ASSUME Init, NEW e \in Entries PROVE Spent(e)
    BY DEF BudgetInv
<1>1. entry[e].attacks = 0 /\ entry[e].action
    BY NobodyAtFirst, NoEntryIs
<1>2. Paid(e, {"attack", "special"}) = {} /\ Paid(e, {"area", "escape"}) = {}
    BY DEF Init, Paid
<1>3. Cardinality({}) = 0
    BY FS_EmptySet
<1>4. 0 <= AttacksAllowed
    BY CombatAssumption
<1> QED
    BY <1>1, <1>2, <1>3, <1>4 DEF Spent

LEMMA InvAtFirst == Init => Inv
<1> SUFFICES ASSUME Init PROVE Inv
    OBVIOUS
<1>1. TypeOK /\ BodiesTypeOK /\ BudgetInv
    BY TypesAtFirst, BudgetAtFirst
<1>2. requests = {} /\ calls = {} /\ accepted = {} /\ effects = [e \in Entries |-> {}] /\ corrected = {}
    BY DEF Init, StateInit, HealthInit
<1>3. \A e \in Entries : /\ entry[e].request = {} /\ entry[e].total = None /\ entry[e].action /\ entry[e].attacks = 0
                         /\ entry[e].pending = None /\ entry[e].window = None
    BY NobodyAtFirst, NoEntryIs
<1>4. NothingBefore /\ AbsentIsBlank /\ AbsentIsUnaffected /\ CallsName
    BY <1>2, <1>3, NobodyAtFirst DEF NothingBefore, AbsentIsBlank, AbsentIsUnaffected, CallsName
<1>5. RollsBound /\ OrdersReady
    BY <1>2, <1>3 DEF RollsBound, OrdersReady
<1>6. TurnInv /\ EffectsAreHeld
    BY NobodyAtFirst DEF TurnInv, TurnsFollowInitiative, ActedIsPassed, EffectsAreHeld
<1>7. PauseInv
    BY <1>2, <1>3 DEF PauseInv, PausesStand, OnePause, PausesKnown, WindowsAwaited
<1>8. ResumesFit /\ TokensFit /\ WaysFit /\ PausesPlanned
    BY <1>2 DEF ResumesFit, TokensFit, WaysFit, PausesPlanned
<1>9. DeathSavesOnlyWhenDown
    BY DEF DeathSavesOnlyWhenDown, Init, HealthInit, Standing, Fresh
<1> QED
    BY <1>1, <1>4, <1>5, <1>6, <1>7, <1>8, <1>9 DEF Inv, PauseInv

LEMMA SoundIs == BodiesTypeOK => (LivesSound <=> DeathSavesOnlyWhenDown)
BY DEF BodiesTypeOK, LivesSound, Lives, Sound, DeathSavesOnlyWhenDown

LEMMA InvStep == Inv /\ [Next]_allVars => Inv'
<1> SUFFICES ASSUME Inv, [Next]_<<vars, healthVars, rows>> PROVE Inv'
    BY DEF allVars
<1> USE DEF Inv
<1>1. StepKinds
    BY NextKinds
<1>2. TypeOK'
    BY <1>1, TypeStep
<1>3. RollKinds
    BY <1>1, RollStep
<1>4. NothingBefore' /\ AbsentIsBlank' /\ CallsName' /\ PausesPlanned'
    BY <1>1, NothingBeforeStep, AbsentIsBlankStep, CallsNameStep, PausesPlannedStep
<1>5. RollsBound' /\ OrdersReady' /\ TurnInv'
    BY <1>1, <1>3, RollsBoundStep, OrdersReadyStep, TurnInvStep
<1>6. AbsentIsUnaffected' /\ EffectsAreHeld'
    BY <1>1, AbsentIsUnaffectedStep, EffectsAreHeldStep
<1>7. LivesSound'
    BY SoundIs, LivesStep
<1>8. RowsTyped' /\ BudgetInv'
    BY <1>2, BudgetStep
<1>9. BodiesTypeOK'
    BY <1>7, <1>8, BodiesTypeStep
<1>10. DeathSavesOnlyWhenDown'
    BY <1>7 DEF LivesSound, Sound, DeathSavesOnlyWhenDown
<1>11. PauseInv'
    BY <1>1, PauseStep
<1>12. ResumesFit' /\ TokensFit' /\ WaysFit'
    BY <1>1, ResumesFitStep, TokensFitStep, WaysFitStep
<1> QED
    BY <1>2, <1>4, <1>5, <1>6, <1>8, <1>9, <1>10, <1>11, <1>12 DEF PauseInv

LEMMA Invariance == Spec => []Inv
<1>1. Spec => Init /\ [][Next]_allVars
    BY DEF Spec, Init, allVars
<1> QED
    BY <1>1, InvAtFirst, InvStep, PTL

-----------------------------------------------------------------------------
(* The theorems. *)

\* Types.  Whatever the rows of a Combat, of its board, of its rolls and of the
\* calls in flight are changed to, they have the form the tables declare; this
\* holds for any number of combatants, cells, paths and spells.
THEOREM CombatTypes == Spec => [](TypeOK /\ BodiesTypeOK)
BY Invariance, PTL DEF Inv

\* The turn order.  However entries join, leave, roll late or are corrected, the
\* turn of a running Combat belongs to an active entry of the order, and the
\* order follows the totals (combat/initiative.py, combat/lifecycle.py).
THEOREM TurnsAreOrdered == Spec => []TurnsFollowInitiative
BY Invariance, PTL DEF Inv, TurnInv

\* A formal roll and the entries it stands for never disagree: each has the
\* total of the request it is bound to (combat/initiative.py).
THEOREM TotalsAreRolled == Spec => []TotalIsItsRoll
<1>1. Inv => TotalIsItsRoll
  <2> SUFFICES ASSUME Inv, NEW e \in Entries, NEW r \in requests, entry[e].request # {}, r.unit = entry[e].request
               PROVE  (r.status = "resolved" <=> entry[e].total # None) /\ entry[e].total = r.total
      BY DEF TotalIsItsRoll
  <2>1. Fighting /\ e \in r.unit /\ Fulfilled(r) /\ RollPending(r)
      BY DEF Inv, RollsBound
  <2>2. entry[e].total = r.total
      BY <2>1 DEF Fulfilled
  <2>3. r.status \in {"pending", "resolved"}
      BY DEF Inv, TypeOK, Requests
  <2> QED
      BY <2>1, <2>2, <2>3 DEF RollPending
<1> QED
    BY <1>1, Invariance, PTL

\* A round is one pass over the order: advance_turn gives the turn to nobody who
\* had it this round, and begins the next round only when everybody had it.
THEOREM RoundsArePasses == Spec => RoundIsAPass
<1>1. Inv /\ [Next]_allVars =>
         [(Running /\ Running' /\ combat'.turn # combat.turn) =>
             IF combat'.round = combat.round THEN combat'.turn \notin acted
             ELSE combat'.round = combat.round + 1 /\ Ordered \subseteq acted]_vars
    BY NextKinds, RoundStep DEF Inv, allVars
<1>2. Spec => [][Next]_allVars
    BY DEF Spec, allVars
<1> QED
    BY <1>1, <1>2, Invariance, PTL DEF RoundIsAPass

\* The DM is never stuck: when a paused movement holds the turn, the DM can
\* cancel it, and when nothing holds it, can end the turn.
THEOREM TableIsNeverStuck == Spec => []DMCanGoOn
<1>1. Inv => DMCanGoOn
  <2> SUFFICES ASSUME Inv, Open, Running, ~CanAdvance PROVE CanCancel(combat.turn)
      BY DEF DMCanGoOn
  <2>1. combat.turn \in Ordered
      BY DEF Inv, TurnInv, TurnsFollowInitiative
  <2>2. combat.turn \in Active /\ combat.turn \in Entries
      BY <2>1 DEF Ordered, Active
  <2>3. entry[combat.turn].pending # None
      BY <2>1 DEF CanAdvance, Unanswered
  <2>4. combat.mode = "tactical" /\ token[combat.turn].at # Off
      BY <2>2, <2>3 DEF Inv, PauseInv, PausesStand
  <2> QED
      BY <2>2, <2>3, <2>4 DEF CanCancel, InMovement, OnBoard
<1> QED
    BY <1>1, Invariance, PTL

\* What a movement was planned against is still so when its transaction commits:
\* the revisions it compares are enough for the mover's cell, the doors, the
\* hostile tokens and the last cell (combat_boards/repository.py).
THEOREM MovementsFitTheBoard == Spec => MoveFitsBoard
<1>1. Inv => \A c \in calls : Moves(c) =>
          /\ c.entry \in Active => token[c.entry].at = c.walk[1]
          /\ \A i \in 2..Len(c.walk) :
                /\ Crosses(c.walk[i-1], c.walk[i]) => board.door = "open"
                /\ \A o \in On(c.walk[i], c.entry) \ unseen : ~Hostile(c.entry, o)
          /\ c.pending = None => On(c.walk[Len(c.walk)], c.entry) \subseteq unseen
    BY MoveFits DEF Inv, WayIsFree
<1> QED
    BY <1>1, Invariance, PTL DEF MoveFitsBoard

\* A paused movement resumes only when every reactor it asked has answered, and
\* by the DM if one of them struck: the revision of the pause, compared in the
\* transaction, rules out every answer that came in between.
THEOREM ResumesAreAnswered == Spec => ResumeWaitsForAnswers
<1>1. Inv => \A c \in calls : (c.kind = "resume" /\ CommitMove(c)) =>
          LET was == entry[c.entry].pending IN
          \A o \in was.asked :
             /\ entry[o].window = None \/ entry[o].window.pause # was.pause
             /\ <<o, was.pause>> \in accepted => c.dm
    BY ResumeFits DEF Inv, PauseInv
<1> QED
    BY <1>1, Invariance, PTL DEF ResumeWaitsForAnswers

\* One action a turn: what a combatant has paid for in its present turn never
\* exceeds one action, although rulings come later than the questions they answer.
THEOREM ActionsArePaidOnce == Spec => []OneActionPerTurn
<1>1. Inv => OneActionPerTurn
    BY DEF Inv, BudgetInv, Spent, OneActionPerTurn, Active
<1> QED
    BY <1>1, Invariance, PTL

\* Every effect of a concentration spell on an active combatant belongs to a
\* casting that somebody's pointer still names, or is one that a Character State
\* written by hand left without a holder.
THEOREM EffectsHaveHolders == Spec => []EffectsAreHeld
BY Invariance, PTL DEF Inv

\* Death saves are on record only for a Character without hit points, who is
\* Unconscious or dead; a Character whose State was written by hand comes back
\* under this as soon as damage or healing takes it across zero.
THEOREM DeathSavesNeedZero == Spec => []DeathSavesOnlyWhenDown
BY Invariance, PTL DEF Inv
=============================================================================
