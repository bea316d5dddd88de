# Adventure Table in TLA+

A verification project for Adventure Table, a table-top role-playing server
(`src/apps/server/app`) and its web client (`src/apps/web`): people and AI clients share a *Room*,
take *Seats* of a *Campaign*, play *Sessions*, and follow one durable event log. Paths below are
relative to `src/apps/server/app` unless they start with `docs/` or `web/` (`src/apps/web/src`).

## 1. The system

| Component | Code | State it keeps | Operations | Talks to |
|---|---|---|---|---|
| Campaigns, roster | `domain/rooms/campaigns.py`, `persistence/rooms/campaigns.py` | `rooms.active_campaign_id`, `campaigns.status`, roster entries | create, set status, select, clear, delete draft, roster add / update / remove | revokes unbound AI DM grants; empties Seats' selections |
| Seats | `domain/rooms/seats.py`, `persistence/rooms/seats.py` | controller, `controller_epoch`, selected Character, archived | create, set controller, select Character, archive, delete | revokes grants; refuses what a running Session fixes |
| AI control | `domain/rooms/ai_controllers.py`, `persistence/rooms/ai_controllers.py` | grants: Seat, generation, Session, return identity, status, expiry | mint DM grant, hand off, take back, reassign, authenticate | binds Seats; runs inside the event append |
| Sessions | `domain/rooms/sessions.py`, `persistence/rooms/sessions.py`, `session_live.py` | Session status and fixed DM, participants, Character leases | Start (human / AI), Late Join, End, Abandon | reads lobby, writes leases, ends grants and Seats |
| Character archive | `domain/rooms/workspace.py`, `api/rooms/session_scope.py` | `characters.archived_at` | archive, unarchive (create, edit, delete) | refuses leased Characters; empties selections |
| Event log and feed | `persistence/rooms/table_runtime.py`, `domain/rooms/table_events.py`, `api/rooms/table_event_wait.py` | events with a sequence number per Session, idempotency keys; waiters in memory | append, list after / before, wait, notify | every play operation commits with its event |
| Session page of the web client | `web/features/rooms/sessionEventStream.ts`, `sessionEventPoll.ts`, `RoomSessionPage.tsx` | the merged event stream (cursor, history floor, events), the poll's own cursor, the reload generation | full Resume, long poll, older pages, and their reducers | Resume and event endpoints of the server |
| OAuth for AI clients | `persistence/mcp/oauth.py`, `domain/rooms/ai_oauth.py` | authorization families, codes, tokens | authorize, exchange, refresh, revoke | re-checks the grant on every use |
| Room access | `domain/rooms/access.py`, `service.py` | Room keys, access sessions, login throttle | create, join, authenticate, hard delete | identities of everything else |
| Characters, Builder drafts | `persistence/characters.py`, `state_mutations.py`, `builder_drafts.py`, `domain/character_builder/service.py`, `domain/rooms/table_character_state.py` | a chain of Build versions, the Current State with its revision, drafts | create, edit and confirm a draft, patch a State, write it from the table, import, archive, delete | leases of Sessions; State writes inside the append |
| Combat | `domain/combat`, `persistence/combat` | the Combat and its turn, entries, action rows, roll requests; Monsters | start, initiative, turns, actions, rulings, spells, damage, reactions, end | rolls, Character States, the event append |
| Combat board | `domain/combat/board.py`, `movement.py`, `persistence/combat_boards`, `domain/spatial` | tokens, door states, the board's revision | place, move, pause, resume, correct | reactions of the Combat |
| Play between Combats | `domain/rooms/rolls.py`, `pending_actions.py`, `exploration.py`, `persistence/rooms/p3c_*.py` | roll requests and results, pending actions, the Main Stage with its image, messages | request and complete a Check, quick roll, create and move an action, replace the Stage, send | projections inside the append |
| Campaign runtime | `domain/campaign_runtime`, `persistence/campaign_runtime` | world entries, overrides of Adventure entries, the current context, mutations by key | create, update, archive an entry; create, update, clear an override; update, clear the context; each from outside a Session, inside it, or as a world action | attached Adventures; Sessions; the event append |
| Adventures | `domain/adventures`, `persistence/adventures`, `domain/adventure_imports` | definitions, entries, links to Campaigns, import drafts | author, finalize, attach, detach, import | overrides and context block a detach |
| Maps, monsters, content, interop | `domain/battle_maps`, `domain/monster_library`, ... | their own tables | CRUD with versions, imports | used by Combat and Builder |

`PROJECT.json` lists every component, modelled or not, with the reason.

### What is hard here

Every request is a thread with its own transactions; PostgreSQL row locks (`FOR UPDATE`) are the
only mutual exclusion. Most rules relate rows of different tables that different handlers write:
a grant and the Seat it is minted for, a Session and the Seat of its DM, a Character's lease and
the participants that play it. A rule breaks when one of the many writers forgets the other row,
or when a handler acts on a row it read before somebody else's commit. `PROJECT.json` "hazards"
names each such place at its line with the properties that would catch it.

The feed adds a second kind of difficulty. A writer commits in one thread and wakes sleeping
readers afterwards; a reader lists, registers and sleeps in several steps; either may be lost on
the way. Cursors move over rows their reader may not see. The client then merges pages of three
independent requests, each as old as its own round trip.

A Character is written by several people at once - a patch of its sheet, a write from the table, a
Confirm of the Builder - and each stores whole rows. OAuth endpoints run one transaction after
another, and an answer may be lost after each. A Combat is one transaction per call, but its rows
outlive their calls: a roll is answered, a ruling given, a paused movement resumed, a save made,
long after it was asked for, perhaps in another Session and after the turn has passed. Movement
is planned before its transaction. A Check or a pending action is judged before its transaction too,
and the loser of a race must get the winner's answer. The world of a Campaign is written through
three doors that take two row locks in two orders.

What makes each component correct:

- *Campaigns / Seats*: a selected Character can start (`SelectionPlayable`); an unbound DM grant
  dies with its Campaign's eligibility (`UnboundGrantsStartEligible`, a part of `GrantsFollowScope`).
- *AI control*: one live credential per Seat (`GrantIsCurrent`), generations never reused
  (`GenerationsDistinct`), nothing revoked comes back and nothing minted is rewritten
  (`GrantScopeImmutable`), no Player Seat is lost to a dead AI (`NoStrandedPlayerSeat`).
- *Sessions*: one per Campaign (`OneSessionPerCampaign`), the DM is fixed (`DMSeatFixed`), leases
  and participants agree (`LeasesSound`), grants end with the Session
  (`BoundGrantsEndWithSession`, the other part).
- *Event log / feed*: no reader's cursor passes an event meant for it (`NothingSkipped`), no
  wake-up is lost (`NoLostWakeup`), a retry appends once, nothing follows the Session's end, and
  everything reaches a reader that keeps asking (`ImplementsFeed`, `Delivered`); the chunked scan
  finds what its definition says though the log grows under it (`ScanIsThePage`), and a reader that
  pages back and polls forward has every event once (`ReaderIsWhole`, `NothingTwice`;
  `PagesAreWhole` is the three).
- *Session page*: nothing painted is taken back (`NothingErased`), the stream has no hole
  (`StreamWhole`), every event is painted (`EventuallyPainted`).
- *OAuth*: the authorizations are abstract `CredentialChains` (`ImplementsChains`): each code and
  token is exchanged once, a family that has ended is not carried on (at most the pair for its code
  still arrives, and leads to no other), a new family ends those before it, nothing dead is honoured
  (`DeadIsRefused`), a replay ends its family (`RefusalEndsFamily`), and a client whose answers are
  lost gets back in (`Reconnects`).
- *Characters*: no write is lost (`NothingLost`), the State fits the Build (`StateFitsBuild`; `StateIsWhole` is both), the
  versions are one chain (`VersionsFormAChain`), a draft is confirmed once and as it was compiled
  (`ConfirmedOnceAsCompiled`), and writers cannot wait in a circle (`LockOrder`). Together they are
  an abstract `CharacterSheet` (`ImplementsSheet`), from which nobody who was ever played is deleted.
- *Play between Combats*: a Check has one total, the same for all who ask (`OneAnswerPerRoll`), rows
  and log agree (`RowsMatchLog`; `RollsAndRowsMatchLog` is both), and a pending action moves along
  the allowed transitions whatever it was judged by (`LegalMoves`).
- *Campaign runtime*: what refers to an Adventure finds it attached (`OverridesAreAttached`), a key
  takes effect once and with its event (`OneEffectPerKey`; `WorldIsWhole` is both), and no manager's
  change comes through in a Session (`ManagedBetweenSessions`).
- *Combat*: the turn follows initiative (`TurnsFollowInitiative`), a round gives everyone one turn
  (`RoundIsAPass`), totals are those of the formal rolls (`TotalIsItsRoll`), one action a turn
  whatever comes late (`OneActionPerTurn`), no effect outlives its concentration
  (`EffectsAreHeld`), death saves are on record only while a Character is down
  (`DeathSavesOnlyWhenDown`), the DM can always go on (`DMCanGoOn`). What a Character State written
  by hand does to effects and hit points is the exception of two of them, and it does not spread.
- *Board*: what a movement was planned against still holds when it is committed (`MoveFitsBoard`),
  nobody walks on before the reactions are in (`ResumeWaitsForAnswers`).

## 2. Modules

| Module | Models |
|---|---|
| `TableState` | The tables of one Room as variables, their domains, the initial (empty) state and the queries every handler shares |
| `CampaignLobby` | Campaigns, rosters, Character archive, Seats outside play |
| `AIControl` | Grants: mint, handoff, take back, reassignment, expiry, authentication |
| `SessionLifecycle` | Start by a human or an AI, Late Join, End / Abandon, leases |
| `RoomTable` | The composition: `Next`, `Spec`, `Crash`, all properties, the two refinement mappings |
| `SeatAuthority` | Abstract: who may act for a Seat. A holder, a term that grows with every change, AI grants used once |
| `ExclusiveLease` | Abstract: a Character is used by at most one running Session, taken when free, given back at the end |
| `MCRoomTable` | Instances for TLC: small Rooms, prepared initial states and restricted next-state relations |
| `RoomProofs` | Theorems about the Room (section 5) |
| `EventPages` | What a page of events is, forward and backward: the operators both readers' models share |
| `FeedPaging` | The backward scan as the code runs it, query by query and row by row while the log grows, and a reader that pages back from its Resume and polls forward |
| `TableFeed` | Append, notify, list and wait around one Session's log, with lost calls and crashes of the server |
| `OrderedFeed` | Abstract: one ordered log closed for good at the end, readers given what is meant for them |
| `MCTableFeed` | Drafts and restricted next-state relations for TLC |
| `SessionStream` | The web client's Session page: Resumes, poll and older pages merged into one stream |
| `FeedProofs`, `StreamProofs` | Theorems about the two |
| `OAuthFamilies`, `OAuthProofs` | Authorization families, codes and tokens, transaction by transaction; theorems about them |
| `CharacterVersions`, `CharacterProofs` | Characters, Build versions, States and drafts, statement by statement with their row locks; theorems about them |
| `CredentialChains` | Abstract: chains of credentials that belong to a grant; each is exchanged once, an ended chain is not carried on, a new one ends the others |
| `CharacterSheet` | Abstract: a life, a sheet whose fields are written one by one, Builds used once, a place at the table |
| `WriteRequests` | Who asked for what under which key: the part of a request `Exploration` and `CampaignWorld` share |
| `Exploration` | Checks, quick rolls, messages, pending actions and the Main Stage: the reads before the transaction, the append, the rows it changes |
| `CampaignWorld` | A Campaign's entries, overrides and context, its doors lock by lock, attached Adventures, Start and End around them |
| `ExplorationProofs`, `WorldProofs` | Theorems about the two |
| `MCPlayWrites` | `CharacterVersions`, `Exploration` and `CampaignWorld` in seven scenes for TLC |
| `CombatState` | The rows of one Combat and its board, and the calls under way |
| `CombatTurns` | Starting, initiative, order, turns, the action economy, leaving, ending, the Session around it |
| `CombatMoves` | Tokens, the door, movement with its pauses, reaction windows |
| `CombatHealth` | Damage, healing, the death record, spells at one target, concentration; the Character State written by hand meanwhile |
| `CombatActions` | Actions of several steps: attacks, special attacks, area spells, rulings, death saves |
| `CombatTable`, `MCCombatTable` | The composition of the five with its properties; eight scenes for TLC |
| `CombatProofs` | Theorems about a Combat: what its steps do, the inductive invariant, the theorems |

The four component modules of a Room share the variables of `TableState` instead of being
INSTANCEd with their own: the code's components share one database, and almost every handler writes
tables of several of them. `MCTableFeed` and `MCPlayWrites` extend several modules that share
nothing; a behaviour is a scene of one of them, and the variables of the others stay as they were.

### State of a Room

A variable is a column (or a small group of columns) as a function of the primary key. A row that
was never inserted is `"absent"` / `"unminted"` / `"unused"`, a deleted one `"deleted"`; keys are
UUIDs and never reused. `controller_kind` and its two foreign keys are one value: an access
session, a grant or `None`. `dmController` and `dmGeneration` are the snapshot of the Session row.
A Session's Campaign is its DM Seat's Campaign (the code inserts it so). Roster status is
`"available"` (active, inactive) or `"gone"` (retired, dead): no guard distinguishes more.

### Steps of a Room

A transaction is one step, because it locks the rows its guards read before it reads them
(Campaign, then Room, Seats, roster for Start; the Seat or the Session row elsewhere). Guards are
what the *transaction* checks. The services often check the same condition before, in a
transaction of its own; its answer may be stale when the second one runs, so it is not a guard.
Work that is not one transaction is more than one step:

- `SelectBegin` / `SelectCommit`: `select_campaign` checks the status, then moves the selection;
- `SetStatus` / `ClearArchivedSelection`: archiving is two transactions;
- `AIStartBegin` / `AIStartCommit` / `AIStartFail`: the AI Start judges expiry with a clock read
  before it waits for locks;
- `ResolveRead` / `ResolveJudge` / `ResolveRevoke`: `resolve_current_scope` reads without locks
  and then writes by id. (The reads after the first are one step; the write is judged with them.)

`Crash` forgets the calls between two transactions: the server process dies, the database does not.
`TtlRunsOut` lets the clock pass a grant's expiry at any moment.

### The feed

`log` is the Session's rows in the order of `seq`; an event is the part of its request that the
readers tell apart: its author, its idempotency key, for whom it is visible, whether its kind is
one of `OWN_ECHO_EVENT_KINDS`, whether its projection ends the Session. `registered`, `scheduled`
and `signalled` are the notifier's handles and their two hops: a writer's thread asks the event
loop to set a handle, and the loop does. `position` and `given` are the client's.

Append is one step (the Session's row is locked from its check to the commit) and `Notify` the
next one of the same writer. `wait_after` is a step per database read: `Scan`, `Register`,
`Recheck`, then asleep until `Wake` or `Timeout`, and `FinalScan`. `LoseCall` is a request whose
caller went away, or an answer that never arrived; `Crash` loses every call, handle and pending
notification, and keeps the log. A human's binding that changes under a call shows as `LoseCall`,
an AI's as the guard `Current`, because a grant ends with the Session.

Simplified: `list_after` checks the binding and reads in two transactions, which are one step here;
what is visible to whom is fixed when the event is appended (`update_event_projection` runs only
inside the appending transaction); two events appended in one transaction
(`persistence/campaign_runtime/world.py`) appear as two steps; a notifier is always there and there
is one server process, as in production.

`TableFeed` and `SessionStream` read a page in one step, by its definition in `EventPages`.
`FeedPaging` justifies that: there `_scan_before` reads the runtime row, then makes its queries one
by one (each a transaction of its own) and goes through each answer row by row, and rows are
appended between any two of these steps. `shown` is the set of rows its reader may see. `scan` is
the call at work, for a Resume, for older events or for anybody; `floor`, `head` and `merged` are
what the reader keeps (`historyFloorSeq`, `cursor`, `events`), `tail` the poll's page on its way.
Pages of both kinds may be lost. Reloads, and what a page needs then, are in `SessionStream`.

### The Session page

One active Session and one reader. Each of the up to `MaxReloads` reloads has a request of its own
(`asked`, `read` by the server, applied); only the newest generation is applied. The poll keeps a
cursor of its own, starts with the stream's and stops with the stream; 403 and 404 end it for good.
Older pages are asked for one at a time. A wait that times out brings an empty page and is no
step. Not modelled: the chain into older Sessions, `currentSeq`, the page after the Session's end.

### OAuth

Each endpoint is a call that goes through its transactions one step at a time (`at`): the checks
before, the exchanging transaction, the insertion of the tokens. `issue_token_pair` is two steps of
one transaction: `ExchangeIssue` reads that the family is in force and locks nothing, and
`ExchangeInsert` inserts the pair whatever became of the family since - a Disconnect, a new
authorization or the end of the grant may have committed. A refresh locks the rows it goes by. A
caller may be gone before the answer (`client` remembers what it holds and waits for); a restart
forgets the calls. Of a grant only its condition is kept: in force, lapsed (out of its Seat's epoch
or its time) or revoked. `dead` and `origin` are history variables of the properties. `Ledger` maps
the rows to `CredentialChains`: a family is a chain, ended when it is revoked, a pair of tokens a
credential; the first pair is `due` between its two steps (`Promise`, then `First`, or `Forget` when
the server stops); a grant is over when it is revoked, with its families or without; the other steps
of a call, unless they insert rows or revoke, are stutters. Left out: client registration, PKCE,
redirect URIs, hashing, the consent pages.

### Characters

A write is a transaction of several statements and a statement is a step: on the Web `locks` holds
the row locks (`FOR UPDATE`), and a call that meets another's lock waits; standalone (SQLite) has
none, and the writes of a transaction are one step. `web` is chosen initially. A Build is the
revision of the draft it was compiled from, a State the last writer of each field; `intended` is
the State that acknowledged writes made one by one would have left. What a patch may contain
(`CombatHealth` has what matters to a Combat) and how a payload compiles are data and left out. `Sheet` maps the rows to `CharacterSheet`: the stored
State is the sheet, a version that was ever inserted a Build that was used, and the steps of a call
up to its last one are stutters - the write takes effect when its `UPDATE` does.

### Play between Combats

A call is the reads of its service (`Ask...`, with the version or revision its client has seen) and
then one transaction: the append locks the Session's row, compares the actor's binding, looks up the
key, and runs the projection that changes the row. What the projection compares again (`StillPending`,
`Unmoved`, `StageExpected`) is all that protects from what was read before. `Replay` answers a known
key, `CompleteTooLate` the loser of a race. A message and a quick roll share `RecordLine`: rows nobody
changes again. `answers` is a history variable. A Check has one target; modifiers, visibility and the
temporary change of a Character in a Combat are left out.

### The world of a Campaign

The three doors: between Sessions `_orchestrate_management_mutation` locks the campaigns row and looks
for an active Session; in a Session `_orchestrate_active_mutation` looks up its key without a lock and
then changes the world inside an append, which locks the sessions and the campaigns row;
`resolve_world_action` locks the campaigns row and appends inside. A lock is a step, everything under
the last lock is the step `Write`, because nobody sees it before the commit. `Abort` is a refusal, a
lost client, a restart or the victim of the deadlock that the two orders of locks allow. `attach`
locks nothing. The record a world action makes under a derived key is the same record here. Recipients,
texts, knowledge and review flags are part of an update's data; an entry that is current in the
context may be archived, and then the context can only be moved or cleared.

### Combat

Every write of a Combat is one transaction under the Session's row and refuses an ended Session, so
a call is one step, except where it decides on rows read before: corrections of the order, placing,
movement and repositioning read in `Read...` and write in `Commit...` with what the code compares
there. Action rows, roll requests and windows carry the Session they were asked in and can only be
answered there. History variables: `acted` (who had a turn this round), `unseen` and `accepted`
(for the movement properties), `paid` of an action row (out of its combatant's present turn).

Hit points, Unconscious, the concentration pointer and the effects of a Character are columns of its
State, and a State is also written by hand in a running Combat. `TablePatch` is the patch from the
table: hit points, concentration and temporary effects are the DM's, who must give a reason, and the
list of conditions belongs to whoever controls the Seat, as a whole and perhaps as it was read long
ago. `SheetPatch` is the patch of the sheet, `NewVersion` what a Confirm makes of the hit points. All
write the State and nothing else: the death record is in the combatant's row and stays, no linked
effect of others is stripped, no save is asked for. (The `death_saves` of a State is read by none of
the Combat's paths.) A patch may name every casting made so far, ended ones too. Two history
variables say how far such a write reaches: `corrected`, whose hit points or Unconscious were last
written by hand, until damage, healing or a natural 20 next takes the Character across zero; and
`strays`, the effects it left without a holder, until they are gone. The docs accept both
(`docs/P4/P4-F實作紀錄.md:91`, `docs/P4/開發設計方針.md:431`), so they are exceptions of
`DeathSavesOnlyWhenDown` and `EffectsAreHeld` and no finding.

Abstracted: the board is one cell high with one door, everyone has the same size and speed, and
there is no difficult terrain, diagonal, hidden token or dragging. Hit points are up or down, and
an instance of damage does nothing, hurts, fells or kills. Monsters have no death record; effects
that need no concentration, spell slots and the results of special attacks are not tracked, nor is
a shove's push on the board. An area's targets are named by the caster (quick Combat), the geometry
of a template is left out. Dodge, ready, saving-throw requests, hidden combatants, Monster
templates and idempotency keys are left out. Conditions and temporary effects that carry an
`effect_id` are one set, `effects`. A patch is of the fields the properties see; its retries and row
locks are in `CharacterVersions`. There is one Combat per behaviour.

### What the Room's modules leave out

Names, labels, token text and hashing, presence, list and view operations, `updated_at`; the OAuth
family revoked together with a grant (`OAuthFamilies` has both ways a grant ends); functions without a
caller in production (`set_selected_character`, `add_participant`, `create_with_participants`);
the Room's hard delete. A grant whose row is deleted by a cascade counts as revoked: neither can
be found active. Access sessions are never revoked by the code, participants never leave.
SQLite, which has no row locks but serializes writers, is covered by the same steps.

## 3. Runs

`FeedWhole` and `OAuthRotation` check deadlock: there a client can always ask again. The other runs
set `CHECK_DEADLOCK FALSE`: keys are used up, bounds are reached or the log is full and read, and
nothing left to do is no error there. Symmetry is over grants, Sessions, Characters and access
sessions of a Room and over calls, drafts, fields and keys of `PlayWrites`, never in a run with a
liveness property.

| Run | Instance | Asks |
|---|---|---|
| `RoomWhole` | `Spec` from an empty database; 1 Campaign, DM and Player Seat, 1 human, 1 grant, 1 Session, 1 Character, 1 request | Types; unbound grants die with eligibility; bound grants end with the Session; the DM stays fixed; the Seats implement `SeatAuthority`. The only run of all operations with crashes |
| `RoomScenes` | Three scenes: a lobby (2 Player Seats, a Spectator, 2 Characters); a Seat passed between 2 humans and 2 grants with an old request; 2 Campaigns with the same Character | Selections, leases, credentials, one Session per Campaign; the participants implement `ExclusiveLease` |
| `RoomGrantLost` | 2 Campaigns with a DM Seat each, 1 grant, 1 Session, 1 request | **Violation**, see below |
| `RoomArchivedSelected` | 2 Campaigns, lobby operations only | **Violation**, see below |
| `PlayWrites` | 2 calls. Characters: 1 with 2 drafts and every operation, or 2 and create drafts; 3 versions, 2 revisions of a draft (which is then alone) and of a State, 2 fields, 2 attempts; Web or standalone. Play: 1 Seat, 2 humans and the DM, 1 Check, 1 action, 2 images, 1 client key, up to 3 events (5 with an action). World: 1 scene, 1 item, 1 Adventure with 1 scene, 2 keys, 1 Session | Lost updates, stale Builds, double Confirms, the order of locks; one total per Check, rows against log, legal moves of actions; the refinement of `CharacterSheet`; dangling overrides and scenes, keys that take effect twice, managers in a Session |
| `FeedWhole` | An AI and a human, 2 events out of 4 drafts (an echo, a private one, one with a key, the end), pages of 1 row, 1 failure; second scene: every log of up to 5 rows, visible or not, 2 rows a query, 2 queries a page, every position and every limit | Cursors, wake-ups, refinement of `OrderedFeed`, delivery without time-outs; the scan against its definition, pages cover everything once. 5 rows pass the budget of one page, so each exit of the scan is taken |
| `StreamMerge` | 5 events, a Resume of 1 event over at most 2 rows, a poll of 2, older pages of 1; 2 Resumes, 1 failure | The stream with one Resume; what two may not break; that everything is painted |
| `StreamOvertaken` | The same page operations, 2 Resumes | **Violation**, see below |
| `CombatTable` | Eight scenes with up to 2 Characters and 2 Monsters, `MaxRound` 2, `MaxSession` 2, `MaxBoard` 4 revisions, 2 calls at once, 3 concentration spells cast, 2 saves pending per combatant, 3 action rows | The order, movement, actions and bodies of a Combat, States written by hand included |
| `CombatBudget`, `CombatSaves` | The same scenes | **Violations**, see below |
| `OAuthRotation` | 1 grant, 2 calls, 2 faults, families and pairs enough for both | Codes and tokens under replay, lost answers, restarts, expiry; the refinement of `CredentialChains`; the client gets back in |

The scenes of `MCPlayWrites` share no rows, or only rows a scene does not change: two calls are enough
for each to overtake the other between its read and its write, one key for a retry, two for a key of
somebody else's. A scene per subject keeps their product out of the run.

The eight scenes of `MCCombatTable` are parts of one behaviour that would be too large as a whole:
the order of a quick Combat from its first roll over two Sessions; the actions of a turn with a
surprised Monster; setting up a tactical Combat; movement in the last round; spells, saves and
leaving; States written by hand among spells (a pointer taken away or written, a condition put back
from a stale list, a Character that joins with one); attacks, areas and rulings; a Character between
life and death, also raised, felled or woken by hand or by a new version. All but two start from a
running Combat that the other scenes reach. Two rounds are enough for a turn to come back and for a
round to end; 3 castings for one to be replaced by each of two others while a save for the first
is pending; 3 action rows for two proposals and what is done instead of them.

The restricted runs start from `ReadyInit`, a state the whole behaviour reaches, and leave out
operations their question does not depend on; a property proved (section 5) holds for all of them
anyway. `MaxEpoch` bounds only `SetController`, the one operation that could repeat for ever: one
voluntary change per Seat on top of the changes by handoff, take back and End. Sets of keys bound
everything else. In the feed and on the page `MaxEvents` bounds the log, `MaxFailures` lost calls
and crashes together, `MaxReloads` the Resumes. Limits of one or two rows stand for 50 to 500: what
matters is that a page can be full, that it can be short of the log, and that a page can hold
nothing but rows its reader may not see.

Fairness. `FeedWhole`: the server's threads and event loop run what is ready (weak fairness of
each step of a call, of `Notify` and of `SetHandle`) and a client asks again and takes what it is
sent. Nobody has to write and no time-out has to happen: delivery rests on the notifier alone,
which is what the long poll is for. Lost calls are bounded, as a client that never gets an answer
gets no event. `StreamMerge`: the page is mounted, its requests are served and applied, and the
reader keeps asking for older pages while there are any; no second Resume has to happen.
`OAuthRotation`: the server runs a call that was begun, the client takes its answer and, when it
has nothing that works, authorizes again or refreshes; faults are bounded. In `FeedWhole` the
fairness is asked of the scene that has clients.

### Findings

1. `RoomGrantLost`. `resolve_current_scope` decides on rows it read without a lock and revokes the
   grant by id. A request that read the grant while unbound, then was overtaken by the AI's Start
   and by a change of the Room's selection, revokes the grant of the running Session. The Session
   keeps a DM that can never authenticate. `docs/P3/實作規格.md:207` makes the grant the Session's
   fixed credential until End / Abandon. (`DMSeatFixed` still holds: the *Seat* is not taken.)
2. `RoomArchivedSelected`. `select_campaign` checks "not archived" and moves the selection in two
   transactions; archived in between, the Campaign ends selected and archived, against
   `domain/rooms/campaigns.py:151` and `docs/P2/P2-C_CLOSEOUT.md:10`.
3. `StreamOvertaken`. `applySessionEventPage` drops a poll page that ends below the stream's cursor,
   but the poll has moved its own cursor past it, and `mergeResumeStream` keeps the lower history
   floor. When a Resume, whose window is bounded, overtakes a poll page, the events of that page
   below the window are in no part of the stream, and neither the poll nor an older page asks for
   them again. The comment at `web/features/rooms/sessionEventStream.ts:63` rests on the poll having
   handed the page over, and `docs/P3/實作規格.md:126` promises a safe fallback to a full Resume.
   `StreamWhole` and `EventuallyPainted` hold until a second Resume, and say so.
4. `CombatBudget`. `_turn_budget` takes "no feet used" for "nothing granted yet". A movement that
   pauses at an opportunity attack on its first cell has used none, and its resume adds the walk
   speed to the budget once more, against the docstring at `domain/combat/movement.py:272`.
5. `CombatSaves`. `complete_attack` writes the damage of a hit itself and asks no CON save of a
   concentrating target, unlike the damage of spells and of the DM; `docs/P4/測試指南.md:306`
   expects it of all damage.

Two disagreements have no run of their own. A healing spell raises a Character and leaves
Unconscious on it (`HealedBySpell`; `docs/P4/實作規格.md:275`): `HealingWakes` in `CombatTable`
states the rule and TLC refutes it. An initiative request of a Session that has ended can be
neither answered nor made again (`docs/P4/實作規格.md:236`).

## 4. Properties and mutants

Every property of a passing run has a mutant in `PROJECT.json`: an operator next to the original
in its module, commented `mutant:`, which changes the code's step the way a plausible bug would
(a forgotten cascade, a reused generation, a lease check that looks at one Campaign only).

## 5. Proofs

TLAPS proves for a Room, for any finite or infinite sets of keys and under `SeatAssumption`,
`KeyAssumption` and `EpochAssumption` of `TableState` only; for the feed and the page, for any
actors, drafts and limits, under `PageAssumption` and `FeedAssumption`, `PagingAssumption` or
`StreamAssumption`; for
OAuth, for any number of grants, calls, families and tokens, under `OAuthAssumption`; for Characters,
for any Characters, versions, drafts and calls, on the Web and standalone, under
`CharactersAssumption`; for a Combat, for any finite set of combatants and any cells, door, paths,
totals, spells and bounds, under `CombatAssumption`, `PausesAssumption` and `HoldsAssumption`; for
play between Combats and for a Campaign's world, for any rows, keys and calls, under
`ExplorationAssumption` and `WorldAssumption`. The assumptions of the last five say that keys of
different tables differ, that `None`, the code's null, is no row and no key, and that the numbers
are numbers. TLC evaluates each of them in the runs:

| Module | Theorems |
|---|---|
| `RoomProofs` | `TypeCorrect`; `GrantsStayCurrent`, `GenerationsStayDistinct`, `GrantScopeNeverRewritten`, `BoundGrantsEnd`, `UnboundGrantsEligible`, `GrantsEndWithScope`; `DMStaysFixed`, `PlayerSeatsRecoverable`; `OneSession`, `SelectionsPlayable`, `LeasesExact`, `LeasedNeverArchived`, `LeasesStaySound`, `OnePlayer`; `LeasesImplemented`, `AuthorityImplemented` (refinements) |
| `FeedProofs` | `FeedTypes`, `WakeupsNeverLost`, `NothingEverSkipped`, `FeedImplemented` (refinement); `PagingTypes`, `PagesStayWhole` |
| `StreamProofs` | `StreamTypes`, `NothingEverErased`, `StreamStaysWhole` |
| `OAuthProofs` | `TypeCorrect`, `TokensChained`, `DeadRefused`, `RefusalEnds`, `FamilyUnique`, `ChainUnique`; `ChainsImplemented` (refinement) |
| `CharacterProofs` | `CharacterTypes`; `StatesStayWhole`, `VersionsAreAChain`, `DraftsAreConfirmedOnce`, `LocksAreOrdered`; `SheetImplemented` (refinement) |
| `CombatProofs` | `CombatTypes`; `TurnsAreOrdered`, `RoundsArePasses`, `TotalsAreRolled`, `TableIsNeverStuck`; `MovementsFitTheBoard`, `ResumesAreAnswered`; `ActionsArePaidOnce`, `EffectsHaveHolders`, `DeathSavesNeedZero` |
| `ExplorationProofs` | `ExplorationTypes`; `RowsFollowLog`, `ActionsMoveLegally` |
| `WorldProofs` | `WorldTypes`; `WorldStaysWhole`, `ManagersWaitForTheEnd` |

The argument for a Room. `TypeOK` is inductive. On top of it the safety invariants form a chain, each proved
with the earlier ones as facts instead of one conjunction:

- `GrantIsCurrent` is inductive with types, because every operation that changes a controller
  revokes the Seat's active grants in the same transaction, and `BindGrant` takes the next epoch.
- `GenerationsDistinct` follows from "no minted generation is ahead of its Seat's epoch", which
  every step that raises an epoch keeps. `GrantScopeImmutable` is a consequence of *who writes*
  the columns (`ScopeWriters`: only mint, handoff and the AI Start).
- `BoundGrantsEndWithSession` needs to know which grants can be bound at all (`GrantKind`).
- `NoStrandedPlayerSeat` is the hard one. That a Player Seat's AI is never dead needs the fact
  that a stale request cannot revoke it: `DeniedIsDead` says a request denied for a Player's grant
  holds one that is already revoked, which needs `PlayerGrantPlays` (an active Player grant is a
  live participant of its running Session) to be invariant together with `PlayerHeld`.
- `DMSeatFixed` uses `DMBinding`: nothing but End moves a DM Seat with an active Session.
- `LeaseExact`, `SelectionPlayable`, `OneSessionPerCampaign` and `LeasedNotArchived` are shown
  from *who writes* Sessions and leases (`SessionWriters`); `OnePlayerPerCharacter` from
  `LeaseExact`: a Character free to join is played by nobody.
- The refinements map initial states and steps. Leases: with `LeaseExact` the lease table
  determines who plays what, so Start and Late Join are `Acquire`, End is `Release`. Authority:
  every change of controller is a `HandOver` of a set of Seats (many at End), every deletion a
  `Close`; `ControllersMinted` says an AI in a Seat was minted for it.

For the feed. `TypeOK` is inductive; with it a handle exists exactly while a call waits, and then
`NoLostWakeup` is inductive too: `Recheck` falls asleep only when there is nothing behind its
cursor, and every append leaves an `unnotified` number that is higher than any such cursor.
`NothingSkipped` is not inductive. `Sound` says it for every place a cursor can be: the call's
(all between the client's position and the call's cursor was not to be shown, or an echo), the page
on its way (`PageSound`: it holds all of its stretch), the client's. Then `Receive` is a `Give` of
`OrderedFeed`, `AppendNew` its `Publish`, and every other step a stutter.

For the pages. `PagingInv` says of a scan at each of its statements how far it has come: between
two queries (`QueryInv`) it has looked at everything from `below` up to the first row of its first
query, `below` is as many whole queries down as it has made, and it has less than its limit; between
two rows (`RowsInv`) the same of the row it looks at next, and what is left of the answer. So a
page (`PageInv`) is full, and begins with a row that is shown, or it goes down as far as the budget;
and there is one such page (`PageIsUnique`, by the cardinality of what a stretch shows). Rows
appended meanwhile are above all of it. The reader's older page ends at its floor and its poll's page
begins at its cursor (`AskInv`, `ReaderInv`), so both join on without a gap or an overlap. TLC checked
`PagingInv` on the run's instance first.

For the Session page. `TypeOK` is inductive in a form that says more than types: every page under way is
exactly what its stretch of the log shows, the stream holds nothing outside its own, and the poll
stands between the stream's floor and its cursor. With it `NothingErased` is a fact about the three
reducers. `StreamWhole` needs `OneResume`: until a second Resume the stream starts once, and an
older page under way ends at the stream's floor or within the stream, so that it closes on it.

For OAuth. `Safe` is types plus what a call and a client name exists and belongs together; the rows
only grow (`RowsGrow`), a code is fresh until its family has a first pair (`CodesFresh`), and what
is over stays over (`OverStays`). `DeadIsRefused` follows from `Doomed`: a call that presented
something dead is at a step from which it can only be denied. `TokensFormAChain` needs `Chain`: a
code that was exchanged is consumed, a refresh token that was exchanged is spent. With it
`ChainsImplemented` goes step by step: reading that the family is in force is a `Promise`, which
nobody made before, since a code that is consumed but not yet exchanged belongs to one call; the
insertion that follows is `First`; a rotation is an `Exchange` nobody made before, since a token that
is not spent was never exchanged; the insertion of a family is an `Open`; whoever revokes a family
makes an `End` of it, the end of a grant is a `Dismiss`.

For Characters. Writers take several steps and hold row locks in between, so the invariant `IInv`
says what a call knows. `CallsNamed`: the Character and the draft it names exist. `StateInv`: a call
that is about to write saw an earlier revision of the State, or has exactly what is stored; hence
the stored State is the intended one, and it was validated against the current Build. `Chain`: the
parent of a kept version is kept and not the current one, a version has at most one child, each but
the current one has one, and what supersedes a version is its child. `Compiled` and `Once`: the
version a Confirm stores is the one it compiled while it held the draft's row, and a draft that went
to a version points to it. `LocksHeld`: which locks a call can have at which step; with it whoever
waits has come less far in the order Character, draft, State than whom it waits for, so there is no
circle. `SheetImplemented` follows step by step: by `StateInv` the State a Confirm writes back is the
one stored and the one a write changes is the last, by `NewVersion` the version is unused, and a
delete is of a Character there was (`DeletesOfSome`, an invariant of its own).

For a Combat. `Inv` is one conjunction, because its parts lean on each other:

- *Who is there.* A combatant not in the Combat has a blank row (`AbsentIsBlank`,
  `NothingBefore`), and a call under way names somebody who was there when it was planned
  (`CallsName`).
- *Order.* `RollsBound`: an entry and the roll it is bound to agree, and no two rolls are for the
  same entries. `OrdersReady`: an order on its way to the transaction lists rolled entries,
  descending. `TurnInv`: with the turn at one place, those who acted are exactly those not behind
  it. From them `TurnsFollowInitiative`, `TotalIsItsRoll` and `RoundIsAPass`.
- *Pauses.* The revision of the board at which a movement paused names the pause. `PauseInv`:
  no two movements wait under one revision, a window that carries it is one its mover still waits
  for, and an accepted one is counted. `ResumesFit` relates a planned resume to the pause as it is
  now: as long as the revision it saw is the pause's, no window is open.
- *Planned movements.* `TokensFit` and `WaysFit`: as long as the token's and the board's revision
  are those the call saw, its token is where it was and its way is free of what the board's revision
  guards. That the order of the transaction's comparisons suffices is `MovementsFitTheBoard`.
- *Actions and bodies.* `BudgetInv` is `OneActionPerTurn` for every combatant, present or not.
  `EffectsAreHeld` needs that casting numbers grow, so that nobody's pointer names the next one,
  and that whoever is absent has no effect but `strays` (`AbsentIsUnaffected`). A write by hand makes
  strays of exactly what it leaves without a holder, and every other step takes from `strays` only
  what is gone. For `DeathSavesOnlyWhenDown` a step either keeps whether a Character is up, and what
  was sound stays sound, or takes it across zero, and then the record is sound whatever it was before
  (`LivesMend`, `MendedAreSound`).

The steps are sorted once (`StepKinds`): those that leave the table alone, those that only plan,
those that only spend, and the operations one by one. Each part of `Inv` looks at its own few. `Inv`
was checked by TLC on the scenes of `MCCombatTable` before it was proved.

For play between Combats. `CallsKnow`: what a call has read and its transaction does not compare is
still so, because rolls and actions are never deleted nor given to another Seat. `ResultsFit`: a
roll is resolved exactly when it has a total, so the check of the locked row decides a race. The
rows are counted against the log (`Counted`), and no event of the Stage is ahead of it (`LogFits`).

For a Campaign's world. `LocksHeld` says for each door what its locks keep in place: a manager that
holds the Campaign's row after its guard keeps a Session from starting, a Session's call that holds
the Session's row keeps it from ending, and a world action that got there after the end is
recognised by its Session. `ManagersWaitForTheEnd` is this at the write. `WorldIsWhole` is inductive
with it: a change adds one to the revision of its row, and its record one to the keys of the row.

What the attempts showed of the code: `MoveFitsBoard` could not be proved as first stated, for the
first cell of any combatant. A placing planned before a withdrawal may write the token's row again
after it, with revision 1 (`combat_boards/repository.py:216-276`; the withdrawal deletes the row,
`combat/lifecycle.py:792-850`), and a movement planned earlier still finds the revision it saw. Only a
combatant that has left can be moved so; for active ones it is proved.

Proved but in no run, because a run checks something stronger or more telling: the types of the
feed, its pages, the Session page, OAuth, Characters, Combat, play and the world, `GenerationsDistinct`, `GrantScopeImmutable`,
`OnePlayerPerCharacter`, `LeaseExact` and `LeasedNotArchived` one by one; `OneChainPerGrant` with its
parts `TokensFormAChain` and `OneFamilyPerGrant`, which `ImplementsChains` contains.

Only model-checked: `Delivered`, `EventuallyPainted` and `Reconnects` (liveness under fairness and
ENABLED are out of the provers' reach); and the five findings, which are false.

## 6. Not modelled, and what comes next

- *Compiling and rules data* (`domain/character_builder`, `content`, `domain/rules`, feats, class
  features, most of the repository's lines): a large calculation over one payload. It has no steps
  and nothing to interleave; tests of single inputs reach it better than a model checker.
- *Campaign runtime*: search, overlays and projections for the table, AI tools, and the conversion of
  an Adventure entry into an entry of the world.
- *Writing and importing Adventures, battle maps, Monster library, Room assets*: rows changed one at a
  time under a version by one person, parsers, and file storage. The commit of an import draft would
  be next.
- *MCP server and AI tools*: an adapter; each tool calls one service. Its authentication is in
  `OAuthFamilies` and `AIControl`.
- *Room access* (keys, login throttle, hard delete), *interop, standalone launcher, migrations*.
- *Row locks of the Room* (the order in which lobby, Start and Late Join take them): a Room's
  transaction is one step. Only the Character's rows are modelled with their locks.
- *Web client*: the Session page's stream only, and of it one active Session.
- *Spatial rules*: paths with diagonals, sight, areas and sizes are pure geometry; the board's model
  keeps only whether a step is legal, what it costs and whom it provokes.

Next: the locks of the lobby, the import draft, and theorems about both.
