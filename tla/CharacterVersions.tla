-------------------------- MODULE CharacterVersions --------------------------
(***************************************************************************)
(* Characters, their Build versions and their Current State, and the       *)
(* Builder drafts that make versions: persistence/characters.py,           *)
(* state_mutations.py, builder_drafts.py and the services above them.      *)
(*                                                                         *)
(* A write is a transaction of several statements.  On the Web (PostgreSQL,*)
(* read committed) a call takes row locks and waits for those of others;   *)
(* a plain read takes none.  Standalone (SQLite) has no row locks: SELECT  *)
(* ... FOR UPDATE only reads, and the writes of a transaction are one step.*)
(*                                                                         *)
(* A Build is the revision of the draft it was compiled from, a State the  *)
(* last writer of each of its fields.                                      *)
(***************************************************************************)
EXTENDS Naturals, FiniteSets

CONSTANTS
    Characters, Drafts, Calls,
    Fields,         \* the top-level fields of a Current State
    MaxVersions,    \* bound: versions ever made
    MaxPatches,     \* bound: revision of a draft
    MaxWrites,      \* bound: revision of a State
    MaxAttempts     \* DEFAULT_STATE_MUTATION_ATTEMPTS

None == 0
Versions == 1..MaxVersions
Modes == {"create", "level_up", "correction"}

ASSUME CharactersAssumption ==
    /\ None \notin Characters \cup Drafts \cup Calls
    /\ {MaxVersions, MaxPatches, MaxWrites, MaxAttempts} \subseteq Nat \ {0}

VARIABLES
    web,        \* the deployment: Rooms on PostgreSQL, or standalone SQLite
    status,     \* characters: "none", "active", "archived", "deleted"
    played,     \* its roster entry: "no", in a Session "leased", "past"
    current,    \* current_version_id
    version,    \* character_versions
    state,      \* character_states.state_payload
    revision,   \* character_states.state_revision
    validFor,   \* history: the version the State was validated against
    draft,      \* character_build_drafts
    locks,      \* the row locks held by open transactions
    call,       \* requests under way
    intended    \* history: the State if every write had been made in one step

rows == <<status, played, current, version, state, revision, validFor, draft>>
vars == <<web, rows, locks, call, intended>>

CharRow(c) == <<"character", c>>
StateRow(c) == <<"state", c>>
DraftRow(d) == <<"draft", d>>
SessionRow == <<"session", None>>
Rows == {CharRow(c) : c \in Characters} \cup {StateRow(c) : c \in Characters}
        \cup {DraftRow(d) : d \in Drafts} \cup {SessionRow}

NoVersion == [is |-> "unused", char |-> None, parent |-> None, from |-> None, build |-> 0, kept |-> 0, super |-> None]
NoDraft == [mode |-> "none", char |-> None, base |-> None, rev |-> 0, to |-> None]
Fresh == [f \in Fields |-> None]
Idle == [op |-> "none", at |-> "idle", c |-> None, d |-> None, f |-> None,
         pin |-> None, rev |-> 0, seen |-> Fresh, build |-> 0, kept |-> 0, tries |-> 0]

InitWith(used) ==
    /\ web \in BOOLEAN
    /\ status = [c \in Characters |-> IF c \in used THEN "deleted" ELSE "none"]
    /\ played = [c \in Characters |-> "no"]
    /\ current = [c \in Characters |-> None]
    /\ version = [v \in Versions |-> NoVersion]
    /\ state = [c \in Characters |-> Fresh]
    /\ revision = [c \in Characters |-> 0]
    /\ validFor = [c \in Characters |-> None]
    /\ draft = [d \in Drafts |-> NoDraft]
    /\ locks = [r \in Rows |-> None]
    /\ call = [k \in Calls |-> Idle]
    /\ intended = [c \in Characters |-> Fresh]

Init == InitWith({})
-----------------------------------------------------------------------------
(* Calls and locks *)

At(k, op, step) == call[k].op = op /\ call[k].at = step
Goto(k, step) == call' = [call EXCEPT ![k].at = step]

Free(k, r) == locks[r] \in {None, k}
Lock(k, r) == Free(k, r) /\ locks' = IF web THEN [locks EXCEPT ![r] = k] ELSE locks

\* commit or rollback
End(k) ==
    /\ call' = [call EXCEPT ![k] = Idle]
    /\ locks' = [r \in Rows |-> IF locks[r] = k THEN None ELSE locks[r]]

Refuse(k) == End(k) /\ UNCHANGED <<rows, intended>>

Begin(k, op, step, c, d, f) ==
    /\ call[k] = Idle
    /\ call' = [call EXCEPT ![k] = [Idle EXCEPT !.op = op, !.at = step, !.c = c, !.d = d, !.f = f]]
    /\ UNCHANGED <<rows, locks, intended>>

\* the row a call's next statement locks, if any
Wants(k) ==
    CASE call[k].at = "lock" /\ call[k].op = "table" -> {SessionRow}
      [] call[k].at = "lock" /\ call[k].op # "table" -> {CharRow(call[k].c)}
      [] call[k].at = "draft" \/ (call[k].op \in {"edit", "cancel"} /\ call[k].at = "read") -> {DraftRow(call[k].d)}
      [] call[k].at = "rows" /\ call[k].op = "confirm" -> {CharRow(call[k].c), StateRow(call[k].c)}
      [] call[k].at \in {"write", "states"} -> {StateRow(call[k].c)}
      [] call[k].at = "rows" /\ call[k].op = "delete" ->
            {CharRow(call[k].c)} \cup {DraftRow(d) : d \in {e \in Drafts : draft[e].char = call[k].c}}
      [] OTHER -> {}

WaitsFor(k, j) == j # k /\ \E r \in Wants(k) : locks[r] = j

\* PostgreSQL breaks a cycle of waits by failing one of the transactions
DeadlockDetected(k) == (\E j \in Calls : WaitsFor(k, j) /\ WaitsFor(j, k)) /\ Refuse(k)
-----------------------------------------------------------------------------
(* Current State: mutate_state_against_version *)

\* live_character_write_scope; a PATCH outside a Room does not come here
PatchLock(k) ==
    /\ At(k, "patch", "lock")
    /\ Lock(k, CharRow(call[k].c))
    /\ Goto(k, "read")
    /\ UNCHANGED <<rows, intended>>

\* TableEventRepository.append_in_transaction holds the Session's row
TableLock(k) ==
    /\ At(k, "table", "lock")
    /\ IF played[call[k].c] = "leased"
       THEN Lock(k, SessionRow) /\ Goto(k, "read") /\ UNCHANGED <<rows, intended>>
       ELSE Refuse(k)

IsStateWrite(k) == call[k].op \in {"patch", "table"}

StateRead(k) ==
    LET c == call[k].c
    IN /\ IsStateWrite(k) /\ call[k].at = "read"
       /\ IF status[c] = "active" /\ call[k].pin \in {None, current[c]}
          THEN /\ call' = [call EXCEPT ![k].at = "write", ![k].pin = current[c],
                                       ![k].rev = revision[c], ![k].seen = state[c]]
               /\ UNCHANGED <<rows, locks, intended>>
          ELSE Refuse(k)

\* mutants: the UPDATE does not compare the revision; nor the version
AnyRevision(k) == status[call[k].c] = "active" /\ current[call[k].c] = call[k].pin
AnyVersion(k) == status[call[k].c] = "active"

\* the WHERE of the UPDATE
Unchanged(k) ==
    LET c == call[k].c
    IN revision[c] = call[k].rev /\ status[c] = "active" /\ current[c] = call[k].pin

Attempts == IF web THEN 1 ELSE MaxAttempts

StateWrite(k) ==
    LET c == call[k].c
        f == call[k].f
    IN /\ IsStateWrite(k) /\ call[k].at = "write"
       /\ Free(k, StateRow(c))
       /\ \/ /\ Unchanged(k)
             /\ state' = [state EXCEPT ![c] = [call[k].seen EXCEPT ![f] = k]]
             /\ revision' = [revision EXCEPT ![c] = call[k].rev + 1]
             /\ validFor' = [validFor EXCEPT ![c] = call[k].pin]
             /\ intended' = [intended EXCEPT ![c][f] = k]
             /\ End(k)
             /\ UNCHANGED <<status, played, current, version, draft>>
          \/ /\ ~Unchanged(k)
             /\ call[k].tries + 1 < Attempts
             /\ call' = [call EXCEPT ![k].at = "read", ![k].tries = @ + 1]
             /\ UNCHANGED <<rows, locks, intended>>
          \/ /\ ~Unchanged(k)
             /\ call[k].tries + 1 >= Attempts
             /\ Refuse(k)
-----------------------------------------------------------------------------
(* Builder drafts *)

CreateDraft(d) ==
    /\ draft[d] = NoDraft
    /\ draft' = [draft EXCEPT ![d] = [NoDraft EXCEPT !.mode = "create", !.rev = 1]]
    /\ UNCHANGED <<status, played, current, version, state, revision, validFor, locks, call, intended>>

\* create_version_draft: based on the current version
CreateVersionDraft(d, c, mode) ==
    /\ draft[d] = NoDraft /\ status[c] \in {"active", "archived"} /\ locks[CharRow(c)] = None
    /\ draft' = [draft EXCEPT ![d] = [mode |-> mode, char |-> c, base |-> current[c], rev |-> 1, to |-> None]]
    /\ UNCHANGED <<status, played, current, version, state, revision, validFor, locks, call, intended>>

Open(d) == draft[d].mode \in Modes /\ draft[d].to = None

\* mutant: a Confirm locks the draft before its Character
DraftFirst(k) ==
    /\ call[k].op \in {"edit", "cancel", "confirm"} /\ call[k].at = "lock"
    /\ IF call[k].op = "confirm" THEN UNCHANGED locks ELSE Lock(k, CharRow(call[k].c))
    /\ Goto(k, "read")
    /\ UNCHANGED <<rows, intended>>

\* live_draft_write_scope
DraftScope(k) ==
    /\ call[k].op \in {"edit", "cancel", "confirm"} /\ call[k].at = "lock"
    /\ Lock(k, CharRow(call[k].c))
    /\ Goto(k, "read")
    /\ UNCHANGED <<rows, intended>>

\* patch_draft, with the revision the client has seen; cancel_draft
DraftWrite(k) ==
    LET d == call[k].d
    IN /\ call[k].op \in {"edit", "cancel"} /\ call[k].at = "read"
       /\ Free(k, DraftRow(d))
       /\ \/ /\ Open(d) /\ call[k].op = "edit" /\ draft[d].rev < MaxPatches
             /\ draft' = [draft EXCEPT ![d].rev = @ + 1]
          \/ /\ Open(d) /\ call[k].op = "cancel"
             /\ draft' = [draft EXCEPT ![d] = [NoDraft EXCEPT !.mode = "gone"]]
          \/ UNCHANGED draft       \* 404, 409
       /\ End(k)
       /\ UNCHANGED <<status, played, current, version, state, revision, validFor, intended>>

\* confirm_draft: the draft as it is read is compiled
ConfirmRead(k) ==
    LET d == call[k].d
    IN /\ At(k, "confirm", "read")
       /\ IF Open(d) /\ (draft[d].mode # "create" => current[draft[d].char] = draft[d].base)
          THEN /\ call' = [call EXCEPT ![k].at = "draft", ![k].build = draft[d].rev]
               /\ UNCHANGED <<rows, locks, intended>>
          ELSE Refuse(k)

\* mutant: the payload compiled before is taken for the one stored now
AsCompiled(k) == Open(call[k].d)

\* mutant: a draft confirmed meanwhile is confirmed again
EvenIfConfirmed(k) == draft[call[k].d].mode \in Modes /\ draft[call[k].d].rev = call[k].build

\* the draft is still open, and what was compiled
StillCompiled(k) == Open(call[k].d) /\ draft[call[k].d].rev = call[k].build

ConfirmDraft(k) ==
    LET d == call[k].d
    IN /\ At(k, "confirm", "draft")
       /\ Free(k, DraftRow(d))
       /\ IF StillCompiled(k)
          THEN /\ Lock(k, DraftRow(d))
               /\ call' = [call EXCEPT ![k].at = IF draft[d].mode = "create" THEN "create" ELSE "rows",
                                       ![k].kept = draft[d].rev]
               /\ UNCHANGED <<rows, intended>>
          ELSE Refuse(k)

\* the UPDATE of the draft finds no row if the draft is gone by then
Confirmed(d, v) == IF draft[d].mode = "gone" THEN draft ELSE [draft EXCEPT ![d].to = v]

NewVersion(v) == version[v].is = "unused" /\ \A w \in 1..(v - 1) : version[w].is # "unused"

\* the bounds of the model are reached
Exhausted == (\A v \in Versions : version[v].is # "unused") \/ (\A c \in Characters : status[c] # "none")

\* the same INSERTs in create_character_from_builder_draft, create_character
\* and the import of a Character
InsertCharacter(c, v, d, build, kept) ==
    /\ status[c] = "none" /\ NewVersion(v)
    /\ status' = [status EXCEPT ![c] = "active"]
    /\ current' = [current EXCEPT ![c] = v]
    /\ version' = [version EXCEPT ![v] =
                      [NoVersion EXCEPT !.is = "kept", !.char = c, !.from = d, !.build = build, !.kept = kept]]
    /\ revision' = [revision EXCEPT ![c] = 1]
    /\ validFor' = [validFor EXCEPT ![c] = v]

ConfirmCreate(k) ==
    LET d == call[k].d
    IN /\ At(k, "confirm", "create")
       /\ \/ /\ \E c \in Characters, v \in Versions :
                   /\ InsertCharacter(c, v, d, call[k].build, call[k].kept)
                   /\ draft' = Confirmed(d, v)
             /\ End(k)
             /\ UNCHANGED <<played, state, intended>>
          \/ Exhausted /\ Refuse(k)

\* mutant: the base is compared before the locks only
AnyBase(k) == status[call[k].c] = "active"

OnItsBase(k) == status[call[k].c] = "active" /\ current[call[k].c] = draft[call[k].d].base

\* the Character's and the State's row
ConfirmRows(k) ==
    LET c == call[k].c
    IN /\ At(k, "confirm", "rows")
       /\ Free(k, CharRow(c)) /\ Free(k, StateRow(c))
       /\ IF OnItsBase(k)
          THEN /\ call' = [call EXCEPT ![k].at = "commit", ![k].pin = draft[call[k].d].base,
                                       ![k].rev = revision[c], ![k].seen = state[c]]
               /\ locks' = IF web THEN [locks EXCEPT ![CharRow(c)] = k, ![StateRow(c)] = k] ELSE locks
               /\ UNCHANGED <<rows, intended>>
          ELSE Refuse(k)

\* mutant: the reconciled State is written over whatever is there
Overwrites(k) == status[call[k].c] # "deleted"

\* the WHERE of its last UPDATE
Reconciles(k) == revision[call[k].c] = call[k].rev /\ status[call[k].c] # "deleted"

\* create_build_version_from_builder_draft: the version, and the State
\* reconciled with it, or nothing
ConfirmCommit(k) ==
    LET c == call[k].c
        d == call[k].d
    IN /\ At(k, "confirm", "commit")
       /\ \/ /\ Reconciles(k)
             /\ \E v \in Versions :
                   /\ NewVersion(v)
                   /\ version' = [w \in Versions |->
                         IF w = v THEN [is |-> "kept", char |-> c, parent |-> call[k].pin, from |-> d,
                                        build |-> call[k].build, kept |-> call[k].kept, super |-> None]
                         ELSE IF w = call[k].pin /\ draft[d].mode = "correction" THEN [version[w] EXCEPT !.super = v]
                         ELSE version[w]]
                   /\ current' = [current EXCEPT ![c] = v]
                   /\ validFor' = [validFor EXCEPT ![c] = v]
                   /\ draft' = Confirmed(d, v)
             /\ state' = [state EXCEPT ![c] = call[k].seen]
             /\ revision' = [revision EXCEPT ![c] = call[k].rev + 1]
             /\ End(k)
             /\ UNCHANGED <<status, played, intended>>
          \/ /\ ~Reconciles(k)
             /\ call[k].tries + 1 < Attempts
             /\ call' = [call EXCEPT ![k].at = "draft", ![k].tries = @ + 1]
             /\ UNCHANGED <<rows, locks, intended>>
          \/ /\ (~Reconciles(k) /\ call[k].tries + 1 >= Attempts) \/ \A v \in Versions : version[v].is # "unused"
             /\ Refuse(k)
-----------------------------------------------------------------------------
(* The Character's own life *)

\* the import's transaction, or the seed script's
Import ==
    /\ \E c \in Characters, v \in Versions : InsertCharacter(c, v, None, 0, 0)
    /\ UNCHANGED <<played, state, draft, locks, call, intended>>

\* unleased_character_write_scope; unarchive takes no lock before its UPDATE
SetArchived(c, to) ==
    /\ status[c] \in {"active", "archived"} \ {to}
    /\ locks[CharRow(c)] = None
    /\ to = "archived" => played[c] # "leased"
    /\ status' = [status EXCEPT ![c] = to]
    /\ UNCHANGED <<played, current, version, state, revision, validFor, draft, locks, call, intended>>

\* a Session takes the Character (it locks the row) and ends
Lease(c) ==
    /\ web
    /\ \/ /\ played[c] # "leased" /\ status[c] = "active"
          /\ locks[CharRow(c)] = None /\ locks[SessionRow] = None
          /\ played' = [played EXCEPT ![c] = "leased"]
       \/ /\ played[c] = "leased" /\ locks[SessionRow] = None
          /\ played' = [played EXCEPT ![c] = "past"]
    /\ UNCHANGED <<status, current, version, state, revision, validFor, draft, locks, call, intended>>

\* delete_character: archived_at is read without a lock
DeleteRead(k) ==
    /\ At(k, "delete", "read")
    /\ IF status[call[k].c] = "archived" THEN Goto(k, IF web THEN "states" ELSE "rows") /\ UNCHANGED <<rows, locks, intended>>
       ELSE Refuse(k)

DeleteState(k) ==
    /\ At(k, "delete", "states")
    /\ Lock(k, StateRow(call[k].c))
    /\ Goto(k, "rows")
    /\ UNCHANGED <<rows, intended>>

\* its foreign keys: ON DELETE CASCADE, SET NULL
WithoutCharacter(c) ==
    [d \in Drafts |->
        IF draft[d].char = c THEN [NoDraft EXCEPT !.mode = "gone"]
        ELSE IF draft[d].to # None /\ version[draft[d].to].char = c THEN [draft[d] EXCEPT !.to = None]
        ELSE draft[d]]

\* mutant: only a lease refers to its Character
Leased(c) == played[c] = "leased"

\* its foreign keys: ON DELETE RESTRICT
Referenced(c) == played[c] # "no"

DeleteRow(k) ==
    LET c == call[k].c
    IN /\ At(k, "delete", "rows")
       /\ Free(k, CharRow(c))
       /\ \A d \in Drafts : draft[d].char = c => Free(k, DraftRow(d))
       /\ IF ~Referenced(c) /\ status[c] # "deleted"
          THEN /\ status' = [status EXCEPT ![c] = "deleted"]
               /\ current' = [current EXCEPT ![c] = None]
               /\ version' = [v \in Versions |->
                                IF version[v].char = c THEN [NoVersion EXCEPT !.is = "gone"] ELSE version[v]]
               /\ draft' = WithoutCharacter(c)
               /\ validFor' = [validFor EXCEPT ![c] = None]
               /\ End(k)
               /\ UNCHANGED <<played, state, revision, intended>>
          ELSE Refuse(k)
-----------------------------------------------------------------------------
BeginOps(k) ==
    \/ \E c \in Characters :
          /\ status[c] \in {"active", "archived"}
          /\ \/ \E f \in Fields :
                   /\ revision[c] < MaxWrites
                   /\ \/ Begin(k, "patch", IF web THEN "lock" ELSE "read", c, None, f)
                      \/ web /\ Begin(k, "table", "lock", c, None, f)
             \/ Begin(k, "delete", "read", c, None, None)
    \/ \E d \in Drafts :
          /\ draft[d].mode \in Modes
          /\ \E op \in {"edit", "cancel", "confirm"} :
                Begin(k, op, IF web /\ draft[d].char # None THEN "lock" ELSE "read", draft[d].char, d, None)

Step(k) ==
    \/ PatchLock(k) \/ TableLock(k) \/ StateRead(k) \/ StateWrite(k)
    \/ DraftScope(k) \/ DraftWrite(k) \/ ConfirmRead(k) \/ ConfirmDraft(k) \/ ConfirmCreate(k) \/ ConfirmRows(k) \/ ConfirmCommit(k)
    \/ DeleteRead(k) \/ DeleteState(k) \/ DeleteRow(k)
    \/ DeadlockDetected(k)

Other ==
    \/ \E d \in Drafts :
          \/ CreateDraft(d)
          \/ \E c \in Characters : \E mode \in Modes \ {"create"} : CreateVersionDraft(d, c, mode)
    \/ Import
    \/ \E c \in Characters : Lease(c) \/ \E to \in {"active", "archived"} : SetArchived(c, to)

Next == UNCHANGED web /\ (Other \/ \E k \in Calls : BeginOps(k) \/ Step(k))

Spec == Init /\ [][Next]_vars
-----------------------------------------------------------------------------
(* Properties *)

\* No write to a field of a Current State is lost: whatever patches, table
\* writes and Confirms overlap, the stored State is what the acknowledged
\* writes, each made in one step, would have left
\* (mutate_state_against_version: "without losing concurrent top-level writes").
NothingLost == \A c \in Characters : status[c] \in {"active", "archived"} => state[c] = intended[c]

\* The stored State was validated against the Build the Character has: a State
\* computed for an older version is never stored over a newer one.
StateFitsBuild == \A c \in Characters : status[c] \in {"active", "archived"} => validFor[c] = current[c]

\* Both: a stored State is what all its writers made of it, and fits the Build.
StateIsWhole == NothingLost /\ StateFitsBuild

\* The versions of a Character are a chain that ends in its current version:
\* no two have the same parent, and one that is superseded is so by its child.
VersionsFormAChain ==
    \A v \in Versions : version[v].is = "kept" =>
        LET c == version[v].char
            Children == {w \in Versions : version[w].parent = v /\ version[w].is = "kept"}
        IN /\ Cardinality(Children) = IF v = current[c] THEN 0 ELSE 1
           /\ \A w \in Children : version[w].char = c
           /\ version[v].super # None => version[v].super \in Children

\* "A repeated Confirm returns the already-created character instead of
\* creating a duplicate": a draft has at most one version that exists.
ConfirmedOnce ==
    \A d \in Drafts : Cardinality({v \in Versions : version[v].is = "kept" /\ version[v].from = d}) <= 1

\* The Build that a Confirm stores was compiled from the payload stored beside
\* it (builder_provenance), whatever edits of the draft overlap the Confirm.
ConfirmedAsCompiled == \A v \in Versions : version[v].from # None => version[v].build = version[v].kept

\* Both: on the Web, where the draft's row can be locked, a draft is confirmed
\* once; everywhere it is confirmed as it was compiled.
ConfirmedOnceAsCompiled == (web => ConfirmedOnce) /\ ConfirmedAsCompiled

\* "Builder reconciliation owns Character -> State lock order": patches, table
\* writes, draft edits and Confirms never wait for each other in a circle.
LockOrder ==
    LET Writers == {k \in Calls : call[k].op \notin {"none", "delete"}}
    IN \A S \in SUBSET Writers : S # {} => \E k \in S : \A j \in S : ~WaitsFor(k, j)

\* Whatever patches, table writes, Confirms, deletes, archives and Sessions
\* overlap, the rows are a CharacterSheet: each write changes one field of the
\* sheet as it is when it is stored, each Confirm takes a version nobody had
\* and leaves the sheet, and neither an archive nor a delete that has read too
\* early takes a Character from the table.
Sheet == INSTANCE CharacterSheet WITH
    Builds <- Versions, Writers <- Calls, life <- status, play <- played, build <- current,
    used <- {v \in Versions : version[v].is # "unused"}, sheet <- state

ImplementsSheet == Sheet!Spec
=============================================================================
