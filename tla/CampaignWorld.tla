--------------------------- MODULE CampaignWorld ---------------------------
(***************************************************************************)
(* The running world of one Campaign: its entries, its overrides of the    *)
(* attached Adventures' entries, its current scene.  Owner and DM change   *)
(* it between Sessions; the Session's DM does in a Session, one change at  *)
(* a time through the event log or as a world action with a narration.     *)
(* Transactions that take two row locks are modelled lock by lock.         *)
(***************************************************************************)
EXTENDS WriteRequests, Naturals, FiniteSets

CONSTANTS
    SceneEntries, ItemEntries,     \* primary keys of campaign_world_entries, by kind
    Adventures,                    \* finalized Adventures of the Room
    AdventureEntries,              \* their entries, all of them scenes
    AdventureOf,                   \* the Adventure of each
    OverrideIds,                   \* primary keys of campaign_adventure_overrides
    Sessions                       \* primary keys of sessions

Entries == SceneEntries \cup ItemEntries
Targets == Entries \cup AdventureEntries \cup {"context"}

EntryRows == [live : BOOLEAN, holder : SceneEntries \cup {Null}, revision : Nat \ {0}]
OverrideRows == [id : OverrideIds, revision : Nat \ {0}]
MutationRows == [target : Targets, id : OverrideIds \cup {Null}, session : Sessions \cup {Null}]

\* primary keys of different tables differ, and Null is a null: no row and no key is
ASSUME WorldAssumption ==
    /\ AdventureOf \in [AdventureEntries -> Adventures]
    /\ Entries \cap AdventureEntries = {} /\ "context" \notin Entries \cup AdventureEntries
    /\ Null \notin EntryRows \cup OverrideRows \cup MutationRows
    /\ Null \notin SceneEntries \cup AdventureEntries \cup Sessions \cup Requests

VARIABLES
    session,     \* the active Session, or Null
    over,        \* the Sessions that have ended
    attached,    \* campaign_adventures
    entry,       \* Null or [live, holder, revision]
    override,    \* per Adventure entry: Null or [id, revision]
    context,     \* campaign_runtime_context: [adventure, runtime, revision], 0 without a row
    mutation,    \* campaign_world_mutations by key: Null or [target, id, session]
    events,      \* the world's session_events: <<Session, key>>
    holds,       \* who holds the campaigns row and the active sessions row
    doing        \* Null or [kind, key, change, session, step]

worldVars == <<entry, override, context, mutation, events>>
campaignVars == <<session, over, attached, worldVars, holds, doing>>

WorldInit ==
    /\ session = Null /\ over = {} /\ attached = {}
    /\ entry = [e \in Entries |-> Null]
    /\ override = [s \in AdventureEntries |-> Null]
    /\ context = [adventure |-> Null, runtime |-> Null, revision |-> 0]
    /\ mutation = [k \in Keys |-> Null] /\ events = {}
    /\ holds = [campaign |-> Null, session |-> Null]
    /\ doing = [c \in Requests |-> Null]
-----------------------------------------------------------------------------
(* Changes: what a caller asks for, with the revision it has seen *)

Change(op, target, to, expect, id) ==
    [op |-> op, target |-> target, to |-> to, expect |-> expect, id |-> id]

Seen(row) == IF row = Null THEN 1 ELSE row.revision

EntryChanges ==
    {Change("entry.create", e, Null, 0, Null) : e \in Entries}
    \cup {Change("entry.update", e, h, Seen(entry[e]), Null) : e \in ItemEntries, h \in SceneEntries}
    \cup {Change("entry.archive", e, Null, Seen(entry[e]), Null) : e \in Entries}

OverrideChanges ==
    {Change("override.create", s, Null, 0, o) : s \in AdventureEntries, o \in OverrideIds}
    \cup {Change(op, s, Null, override[s].revision, override[s].id) :
            op \in {"override.update", "override.clear"},
            s \in {x \in AdventureEntries : override[x] # Null}}

\* to a scene of an Adventure or of the world; with Null, the scene stays
ContextChanges ==
    {Change("context.update", "context", to, context.revision, Null) :
        to \in AdventureEntries \cup SceneEntries \cup {Null}}
    \cup {Change("context.clear", "context", Null, context.revision, Null)}

Changes == EntryChanges \cup OverrideChanges \cup ContextChanges
-----------------------------------------------------------------------------
(* execute_..._in_transaction: when a change is legal, and what it does *)

Live(e) == entry[e] # Null /\ entry[e].live
Attached(s) == AdventureOf[s] \in attached

LegalEntry(ch) ==
    \/ ch.op = "entry.create" /\ entry[ch.target] = Null
    \/ /\ ch.op \in {"entry.update", "entry.archive"}
       /\ Live(ch.target) /\ entry[ch.target].revision = ch.expect
       /\ ch.op = "entry.update" => Live(ch.to)

SameOverride(ch) ==
    override[ch.target] # Null /\ override[ch.target].id = ch.id /\ override[ch.target].revision = ch.expect

UnusedOverride(id) ==
    id \notin {mutation[k].id : k \in {x \in Keys : mutation[x] # Null}}

LegalOverride(ch) ==
    \/ ch.op = "override.create" /\ Attached(ch.target) /\ override[ch.target] = Null /\ UnusedOverride(ch.id)
    \/ ch.op = "override.update" /\ Attached(ch.target) /\ SameOverride(ch)
    \/ ch.op = "override.clear" /\ SameOverride(ch)

\* the context after a change; a scene that stays is validated again
NextContext(ch) ==
    [adventure |-> CASE ch.op = "context.clear" -> Null
                     [] ch.op # "context.clear" /\ ch.to \in AdventureEntries -> ch.to
                     [] ch.op # "context.clear" /\ ch.to \in SceneEntries -> Null
                     [] OTHER -> context.adventure,
     runtime   |-> CASE ch.op = "context.clear" -> Null
                     [] ch.op # "context.clear" /\ ch.to \in AdventureEntries -> Null
                     [] ch.op # "context.clear" /\ ch.to \in SceneEntries -> ch.to
                     [] OTHER -> context.runtime,
     revision  |-> context.revision + 1]

LegalContext(ch) ==
    /\ ch.op \in {"context.update", "context.clear"}
    /\ context.revision = ch.expect
    /\ NextContext(ch).adventure # Null => Attached(NextContext(ch).adventure)
    /\ NextContext(ch).runtime # Null => Live(NextContext(ch).runtime)

Legal(ch) == LegalEntry(ch) \/ LegalOverride(ch) \/ LegalContext(ch)

Apply(ch) ==
    /\ entry' = CASE ch.op = "entry.create" ->
                       [entry EXCEPT ![ch.target] = [live |-> TRUE, holder |-> Null, revision |-> 1]]
                  [] ch.op = "entry.update" ->
                       [entry EXCEPT ![ch.target].holder = ch.to, ![ch.target].revision = @ + 1]
                  [] ch.op = "entry.archive" ->
                       [entry EXCEPT ![ch.target].live = FALSE, ![ch.target].revision = @ + 1]
                  [] OTHER -> entry
    /\ override' = CASE ch.op = "override.create" ->
                          [override EXCEPT ![ch.target] = [id |-> ch.id, revision |-> 1]]
                     [] ch.op = "override.update" -> [override EXCEPT ![ch.target].revision = @ + 1]
                     [] ch.op = "override.clear" -> [override EXCEPT ![ch.target] = Null]
                     [] OTHER -> override
    /\ context' = IF ch.target = "context" THEN NextContext(ch) ELSE context

\* the mutation's record commits with the change, and the Session's event with both
Record(k, ch, n) ==
    /\ mutation' = [mutation EXCEPT ![k] = [target |-> ch.target, id |-> ch.id, session |-> n]]
    /\ events' = IF n = Null THEN events ELSE events \cup {<<n, k>>}
-----------------------------------------------------------------------------
(* Requests and their locks *)

Kinds == {"management", "active", "action", "append"}

\* a request arrives; a Session's actor is bound to the Session.  A world action
\* has no change that clears the context (WorldActionChange).
Ask(c, kind, k, ch) ==
    /\ doing[c] = Null
    /\ kind # "management" => session # Null
    /\ kind = "action" => ch.op # "context.clear"
    /\ doing' = [doing EXCEPT ![c] =
          [kind |-> kind, key |-> k, change |-> ch,
           session |-> IF kind = "management" THEN Null ELSE session, step |-> "asked"]]
    /\ UNCHANGED <<session, over, attached, worldVars, holds>>

IsKind(c, kinds, step) == doing[c] # Null /\ doing[c].kind \in kinds /\ doing[c].step = step

Released(c) == [r \in DOMAIN holds |-> IF holds[r] = c THEN Null ELSE holds[r]]

\* commit or rollback: the answer, or a refusal
Finish(c) == doing' = [doing EXCEPT ![c] = Null] /\ holds' = Released(c)

Take(c, row, step) ==
    /\ holds[row] = Null
    /\ holds' = [holds EXCEPT ![row] = c]
    /\ doing' = [doing EXCEPT ![c].step = step]
    /\ UNCHANGED <<session, over, attached, worldVars>>

\* mutant: the guard is read before the campaigns row is locked
GuardUnlocked(c) ==
    /\ doing' = [doing EXCEPT ![c].step = "locked"]
    /\ UNCHANGED <<session, over, attached, worldVars, holds>>

\* _orchestrate_management_mutation: the campaigns row, then the guard
ManagementGuard(c) == Take(c, "campaign", "locked")

LockForManagement(c) ==
    /\ IsKind(c, {"management"}, "asked")
    /\ session = Null
    /\ ManagementGuard(c)

\* _orchestrate_active_mutation looks its key up first, without a lock
LookUpKey(c) ==
    /\ IsKind(c, {"active"}, "asked")
    /\ doing[c].session = session
    /\ doing' = [doing EXCEPT ![c] = IF mutation[@.key] = Null THEN [@ EXCEPT !.step = "looked"] ELSE Null]
    /\ UNCHANGED <<session, over, attached, worldVars, holds>>

\* append: SELECT ... FOR UPDATE over sessions JOIN campaigns locks the sessions
\* row, then the campaigns row; a call of a Session that is over is refused (Abort)
LockSessionRow(c) ==
    /\ IsKind(c, {"active"}, "looked") \/ IsKind(c, {"append"}, "asked")
    /\ doing[c].session = session
    /\ Take(c, "session", "half")

LockCampaignRow(c) ==
    /\ IsKind(c, {"active", "append"}, "half")
    /\ Take(c, "campaign", "locked")

\* resolve_world_action: the campaigns row, then append's sessions row.  (It
\* records its change under a key derived from its own as well: one record here.)
LockForAction(c) ==
    /\ IsKind(c, {"action"}, "asked")
    /\ doing[c].session = session
    /\ Take(c, "campaign", "half")

LockActionSession(c) ==
    /\ IsKind(c, {"action"}, "half")
    /\ Take(c, "session", "locked")

\* mutant: the key is not looked up under the lock
ChangedAgain(c) ==
    /\ Legal(doing[c].change)
    /\ Apply(doing[c].change)
    /\ Record(doing[c].key, doing[c].change, doing[c].session)

Changed(c) ==
    /\ mutation[doing[c].key] = Null
    /\ Legal(doing[c].change)
    /\ Apply(doing[c].change)
    /\ Record(doing[c].key, doing[c].change, doing[c].session)

\* the key is known, the change is not legal, or the Session has ended: its
\* answer or a refusal, and nothing else.  An append changes no row of the world.
NothingChanged(c) ==
    /\ \/ doing[c].kind = "append"
       \/ mutation[doing[c].key] # Null
       \/ ~Legal(doing[c].change)
    /\ UNCHANGED worldVars

Write(c) ==
    /\ doing[c] # Null /\ doing[c].step = "locked"
    /\ Finish(c)
    /\ \/ /\ doing[c].kind # "append" /\ doing[c].session \notin over
          /\ Changed(c)
       \/ NothingChanged(c)
       \/ doing[c].session \in over /\ UNCHANGED worldVars
    /\ UNCHANGED <<session, over, attached>>

\* a lost client, a refusal on the way, a restart, a deadlock's victim: rolled back
Abort(c) ==
    /\ doing[c] # Null
    /\ Finish(c)
    /\ UNCHANGED <<session, over, attached, worldVars>>
-----------------------------------------------------------------------------
(* Around them *)

\* _lock_start_scope holds the campaigns row
Start(n) ==
    /\ session = Null /\ n \notin over
    /\ holds.campaign = Null
    /\ session' = n
    /\ UNCHANGED <<over, attached, worldVars, holds, doing>>

\* finalize_in_transaction locks the sessions row
EndSession ==
    /\ session # Null /\ holds.session = Null
    /\ over' = over \cup {session} /\ session' = Null
    /\ UNCHANGED <<attached, worldVars, holds, doing>>

\* CampaignAdventureService.attach reads and inserts without the campaigns row
Attach(a) ==
    /\ a \notin attached
    /\ attached' = attached \cup {a}
    /\ UNCHANGED <<session, over, worldVars, holds, doing>>

\* mutant: the current scene is forgotten
InUseByOverride(a) == \E s \in AdventureEntries : AdventureOf[s] = a /\ override[s] # Null

InUse(a) ==
    \/ \E s \in AdventureEntries : AdventureOf[s] = a /\ override[s] # Null
    \/ context.adventure # Null /\ AdventureOf[context.adventure] = a

\* detach, under the campaigns row
Detach(a) ==
    /\ a \in attached /\ holds.campaign = Null
    /\ ~InUse(a)
    /\ attached' = attached \ {a}
    /\ UNCHANGED <<session, over, worldVars, holds, doing>>

Locking(c) ==
    \/ LockForManagement(c) \/ LookUpKey(c) \/ LockSessionRow(c) \/ LockCampaignRow(c)
    \/ LockForAction(c) \/ LockActionSession(c)

WorldNext ==
    \/ EndSession \/ \E n \in Sessions : Start(n)
    \/ \E a \in Adventures : Attach(a) \/ Detach(a)
    \/ \E c \in Requests :
          \/ \E kind \in Kinds, k \in Keys, ch \in Changes : Ask(c, kind, k, ch)
          \/ Locking(c) \/ Write(c) \/ Abort(c)

WorldSpec == WorldInit /\ [][WorldNext]_campaignVars
-----------------------------------------------------------------------------
(* Properties *)

\* An override and the current scene belong to an attached Adventure: detaching
\* reads them, a change reads the attachment, and the Campaign's row orders the
\* two (tests/test_p6b_adventure_overrides.py:1409).
OverridesAreAttached ==
    /\ \A s \in AdventureEntries : override[s] # Null => Attached(s)
    /\ context.adventure # Null => Attached(context.adventure)

Effects(target) == Cardinality({k \in Keys : mutation[k] # Null /\ mutation[k].target = target})

\* A key takes effect once, in whatever Session and through whatever door it is
\* repeated: a row has had as many changes as there are keys recorded for it, and
\* a change made in a Session has its event.
OneEffectPerKey ==
    /\ \A e \in Entries : Effects(e) = IF entry[e] = Null THEN 0 ELSE entry[e].revision
    /\ Effects("context") = context.revision
    /\ \A k \in Keys : mutation[k] # Null /\ mutation[k].session # Null => <<mutation[k].session, k>> \in events
    /\ \A x \in events : mutation[x[2]] # Null /\ mutation[x[2]].session = x[1]

WorldIsWhole == OverridesAreAttached /\ OneEffectPerKey

\* Between Sessions the world is the Owner's and DM's to change, in a Session
\* the Session's DM's: nothing a manager began comes through after a Start.
ManagedBetweenSessions ==
    [][\A k \in Keys : mutation[k] = Null /\ mutation'[k] # Null => mutation'[k].session = session]_campaignVars
=============================================================================
