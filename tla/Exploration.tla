---------------------------- MODULE Exploration ----------------------------
(***************************************************************************)
(* Play between Combats in one Session: formal Checks and who rolls them,  *)
(* pending actions, the Main Stage and its image, quick rolls and          *)
(* messages.  Each call authorises and reads before its transaction, which *)
(* appends one event to the Session's log and changes its rows with it.    *)
(***************************************************************************)
EXTENDS WriteRequests, Naturals, Sequences, FiniteSets

CONSTANTS
    DM,          \* the actor that holds the DM Seat, none of the Humans
    Humans,      \* actors that may hold Player Seats
    Seats,       \* the Player Seats of the Session
    Rolls,       \* primary keys of roll_requests
    Actions,     \* primary keys of pending_actions
    Images,      \* primary keys of room_stage_images
    Dice,        \* totals a formal roll can have
    MaxEvents    \* bound on the length of the log

VARIABLES
    running,     \* sessions.status
    holder,      \* the human that controls each Player Seat
    roll,        \* roll_requests: [state, seat] or Null
    result,      \* roll_results: the total, or Null
    action,      \* pending_actions: [state, seat, roll, version] or Null
    stage,       \* session_stages: [revision, image]
    images,      \* room_stage_images
    log,         \* session_events: [op, key, row, stage]
    asked,       \* the requests at work
    answers      \* what formal rolls were answered with: <<roll, total>>

rowVars == <<roll, result, action, stage, images, log>>
playVars == <<running, holder, rowVars, asked, answers>>

RollRows == [state : {"pending", "resolved"}, seat : Seats]
ActionStates == {"pending", "processing", "waiting_for_roll", "resolved", "cancelled"}
ActionRows == [state : ActionStates, seat : Seats, roll : Rolls \cup {Null}, version : Nat \ {0}]

\* Null is a null: no row, no total and no image is
ASSUME ExplorationAssumption ==
    /\ Null \notin RollRows /\ Null \notin ActionRows
    /\ Null \notin Dice /\ Null \notin Images /\ "new" \notin Images

NoStage == [revision |-> 0, image |-> Null]

PlayInit ==
    /\ running = "active"
    /\ holder \in [Seats -> Humans]
    /\ roll = [q \in Rolls |-> Null] /\ result = [q \in Rolls |-> Null]
    /\ action = [a \in Actions |-> Null]
    /\ stage = NoStage /\ images = {} /\ log = <<>>
    /\ asked = [c \in Requests |-> Null] /\ answers = {}

\* _ALLOWED_TRANSITIONS
Allowed ==
    [pending          |-> {"processing", "waiting_for_roll", "cancelled"},
     processing       |-> {"waiting_for_roll", "resolved", "cancelled"},
     waiting_for_roll |-> {"processing", "resolved", "cancelled"},
     resolved         |-> {},
     cancelled        |-> {}]

\* the Seats an actor speaks for
Binding(by) == {s \in Seats : holder[s] = by}
MayActFor(by, seat) == by = DM \/ seat \in Binding(by)
-----------------------------------------------------------------------------
(* A call up to its transaction: what its service reads and checks *)

\* op names its event, row what it is about
Call(by, op, row, key) ==
    [by |-> by, op |-> op, row |-> row, key |-> key, bound |-> Binding(by),
     to |-> Null, expect |-> 0, ref |-> Null, seen |-> Null]

Row(c) == asked[c].row

BeginRequest(c, call) ==
    /\ asked[c] = Null
    /\ asked' = [asked EXCEPT ![c] = call]
    /\ UNCHANGED <<running, holder, rowVars, answers>>

Dropped(c) == asked' = [asked EXCEPT ![c] = Null]

\* a refusal, a restart, a client that is gone
Drop(c) ==
    /\ asked[c] # Null
    /\ Dropped(c)
    /\ UNCHANGED <<running, holder, rowVars, answers>>

\* request_check
AskCheck(c, s, key) == BeginRequest(c, Call(DM, "roll.requested", s, key))

\* send, create, quick_roll
AskLine(c, by, s, key) ==
    \/ \E op \in {"exploration.message", "pending_action.created"} :
          MayActFor(by, s) /\ BeginRequest(c, Call(by, op, s, key))
    \/ s \in Binding(by) /\ BeginRequest(c, Call(by, "roll.quick", s, key))

\* complete_formal: no result is there yet
AskRoll(c, by, q, key) ==
    /\ roll[q] # Null /\ MayActFor(by, roll[q].seat)
    /\ result[q] = Null
    /\ BeginRequest(c, Call(by, "roll.resolved", q, key))

\* a result that is there already is the answer
AskKnownRoll(q) ==
    /\ result[q] # Null
    /\ answers' = answers \cup {<<q, result[q]>>}
    /\ UNCHANGED <<running, holder, rowVars, asked>>

\* validate_pending_roll_binding
RollMayBeBound(q, seat) ==
    q \in Rolls /\ roll[q] # Null /\ roll[q].seat = seat /\ roll[q].state = "pending"

\* PendingActionService.transition, by the state it reads now; the client may
\* have seen an earlier version
AskTransition(c, by, a, to, q, key) ==
    /\ action[a] # Null /\ MayActFor(by, action[a].seat)
    /\ to \in Allowed[action[a].state]
    /\ IF to = "waiting_for_roll" THEN RollMayBeBound(q, action[a].seat) ELSE q = action[a].roll
    /\ \E version \in 1..action[a].version :
          BeginRequest(c, [Call(by, "pending_action.transitioned", a, key) EXCEPT
                       !.to = to, !.ref = q, !.expect = version, !.seen = action[a].state])

\* replace_stage, with a new image, the image of the Stage, or none
AskStage(c, image, key) ==
    \E revision \in 0..stage.revision :
        /\ image \in {"new", stage.image, Null}
        /\ BeginRequest(c, [Call(DM, "stage.updated", Null, key) EXCEPT !.to = image, !.expect = revision])
-----------------------------------------------------------------------------
(* The transaction: TableEventRepository.append with its projection *)

KeyUsed(op, k) == k # Null /\ \E i \in 1..Len(log) : log[i].op = op /\ log[i].key = k
StoredEvent(op, k) == log[CHOOSE i \in 1..Len(log) : log[i].op = op /\ log[i].key = k]

AppendEvent(c, row) ==
    log' = Append(log, [op |-> asked[c].op, key |-> asked[c].key, row |-> row, stage |-> stage'])

\* the transaction is open: the actor is still the one that was checked
Serialized(c) ==
    /\ asked[c] # Null
    /\ Binding(asked[c].by) = asked[c].bound

MayAppend(c) ==
    /\ Serialized(c)
    /\ ~KeyUsed(asked[c].op, asked[c].key)
    /\ running = "active" /\ Len(log) < MaxEvents

\* a known key: the rows its event made are read again for the answer
Replay(c) ==
    /\ Serialized(c)
    /\ KeyUsed(asked[c].op, asked[c].key)
    /\ answers' = IF asked[c].op = "roll.resolved"
                  THEN LET q == StoredEvent(asked[c].op, asked[c].key).row
                       IN answers \cup {<<q, result[q]>>}
                  ELSE answers
    /\ Dropped(c)
    /\ UNCHANGED <<running, holder, rowVars>>

\* create_request_group, of one target
RequestCheck(c, q) ==
    /\ MayAppend(c) /\ asked[c].op = "roll.requested"
    /\ roll[q] = Null
    /\ roll' = [roll EXCEPT ![q] = [state |-> "pending", seat |-> Row(c)]]
    /\ UNCHANGED <<result, action, stage, images, answers>>
    /\ AppendEvent(c, q) /\ Dropped(c)
    /\ UNCHANGED <<running, holder>>

\* mutant: the roll is not looked at again
AnyRoll(q) == TRUE

StillPending(q) == roll[q].state = "pending"

\* complete_request: the dice fall after the row is locked and found pending.  (A
\* concentration save is refused here; it is JudgeCheck's of CombatHealth.)
CompleteRoll(c, d) ==
    LET q == Row(c)
    IN /\ MayAppend(c) /\ asked[c].op = "roll.resolved"
       /\ StillPending(q)
       /\ roll' = [roll EXCEPT ![q].state = "resolved"]
       /\ result' = [result EXCEPT ![q] = d]
       /\ answers' = answers \cup {<<q, d>>}
       /\ UNCHANGED <<action, stage, images>>
       /\ AppendEvent(c, q) /\ Dropped(c)
       /\ UNCHANGED <<running, holder>>

\* somebody else was first: rolled back, and answered with what is stored
CompleteTooLate(c) ==
    /\ MayAppend(c) /\ asked[c].op = "roll.resolved"
    /\ ~StillPending(Row(c))
    /\ answers' = answers \cup {<<Row(c), result[Row(c)]>>}
    /\ Dropped(c)
    /\ UNCHANGED <<running, holder, rowVars>>

CreateAction(c, a) ==
    /\ MayAppend(c) /\ asked[c].op = "pending_action.created"
    /\ action[a] = Null
    /\ action' = [action EXCEPT ![a] = [state |-> "pending", seat |-> Row(c), roll |-> Null, version |-> 1]]
    /\ UNCHANGED <<roll, result, stage, images, answers>>
    /\ AppendEvent(c, a) /\ Dropped(c)
    /\ UNCHANGED <<running, holder>>

\* mutant: the action is not looked at again
AnyAction(c) == TRUE

\* the row, locked, is as the client and the service saw it
Unmoved(c) == action[Row(c)].version = asked[c].expect /\ action[Row(c)].state = asked[c].seen

TransitionAction(c) ==
    /\ MayAppend(c) /\ asked[c].op = "pending_action.transitioned"
    /\ Unmoved(c)
    /\ action' = [action EXCEPT ![Row(c)].state = asked[c].to, ![Row(c)].roll = asked[c].ref,
                                ![Row(c)].version = @ + 1]
    /\ UNCHANGED <<roll, result, stage, images, answers>>
    /\ AppendEvent(c, Row(c)) /\ Dropped(c)
    /\ UNCHANGED <<running, holder>>

StageExpected(c) == stage.revision = asked[c].expect

\* persist_stage: a new image, the one that is there, or none; an image that is
\* left is deleted
ReplaceStage(c, image) ==
    /\ MayAppend(c) /\ asked[c].op = "stage.updated"
    /\ StageExpected(c)
    /\ \/ asked[c].to = "new" /\ image \in Images \ images
       \/ asked[c].to # "new" /\ image = asked[c].to /\ image \in {Null, stage.image}
    /\ stage' = [revision |-> stage.revision + 1, image |-> image]
    /\ images' = (images \ {stage.image}) \cup ({image} \ {Null})
    /\ UNCHANGED <<roll, result, action, answers>>
    /\ AppendEvent(c, Null) /\ Dropped(c)
    /\ UNCHANGED <<running, holder>>

\* record_quick_roll, append_message: rows nobody changes again
RecordLine(c) ==
    /\ MayAppend(c) /\ asked[c].op \in {"roll.quick", "exploration.message"}
    /\ UNCHANGED <<roll, result, action, stage, images, answers>>
    /\ AppendEvent(c, Row(c)) /\ Dropped(c)
    /\ UNCHANGED <<running, holder>>
-----------------------------------------------------------------------------
(* Around them: a Seat changes hands, the Session ends *)

Reassign(s, who) ==
    /\ holder[s] # who
    /\ holder' = [holder EXCEPT ![s] = who]
    /\ UNCHANGED <<running, rowVars, asked, answers>>

PlayEnds ==
    /\ running = "active" /\ running' = "over"
    /\ UNCHANGED <<holder, rowVars, asked, answers>>

Commit(c) ==
    \/ Replay(c) \/ CompleteTooLate(c) \/ TransitionAction(c) \/ RecordLine(c)
    \/ \E q \in Rolls : RequestCheck(c, q)
    \/ \E d \in Dice : CompleteRoll(c, d)
    \/ \E a \in Actions : CreateAction(c, a)
    \/ \E image \in Images \cup {Null} : ReplaceStage(c, image)

Asks(c, key) ==
    \/ \E s \in Seats : AskCheck(c, s, key)
    \/ \E image \in Images \cup {"new", Null} : AskStage(c, image, key)
    \/ \E by \in Humans \cup {DM} :
          \/ \E s \in Seats : AskLine(c, by, s, key)
          \/ \E q \in Rolls : AskRoll(c, by, q, key)
          \/ \E a \in Actions, to \in DOMAIN Allowed, q \in Rolls \cup {Null} :
                AskTransition(c, by, a, to, q, key)

PlayNext ==
    \/ PlayEnds
    \/ \E s \in Seats, who \in Humans : Reassign(s, who)
    \/ \E q \in Rolls : AskKnownRoll(q)
    \/ \E c \in Requests : Drop(c) \/ Commit(c) \/ \E key \in Keys \cup {Null} : Asks(c, key)

PlaySpec == PlayInit /\ [][PlayNext]_playVars
-----------------------------------------------------------------------------
(* Properties *)

\* A formal roll has one total, the stored one, whoever asks, however often and
\* at whatever time: the loser of a race never sees dice of its own.
OneAnswerPerRoll == \A x \in answers : result[x[1]] = x[2]

Events(op, row) == Cardinality({i \in 1..Len(log) : log[i].op = op /\ log[i].row = row})

\* The rows are what the log says, though they are written apart and calls are
\* repeated, overtaken and refused half way: the Stage is that of its last
\* event, with no image left behind; a roll is resolved by one event; an action
\* has moved once for each of its events.
RowsMatchLog ==
    /\ stage.revision = Events("stage.updated", Null)
    /\ \A i \in 1..Len(log) :
          log[i].op = "stage.updated" /\ log[i].stage.revision = stage.revision => log[i].stage = stage
    /\ images = {stage.image} \ {Null}
    /\ \A q \in Rolls : Events("roll.resolved", q) = IF result[q] = Null THEN 0 ELSE 1
    /\ \A a \in Actions : action[a] # Null =>
          action[a].version = 1 + Events("pending_action.transitioned", a)

RollsAndRowsMatchLog == RowsMatchLog /\ OneAnswerPerRoll

\* An action moves along _ALLOWED_TRANSITIONS only, and waits for a roll of its
\* own Seat, though both were checked before its row was locked: of two that
\* resolve and cancel it at once, one does (docs/P3/P3-C_CLOSEOUT.md:16).
LegalMoves ==
    [][\A a \in Actions : action[a] # Null /\ action'[a] # action[a] =>
          /\ action'[a].state \in Allowed[action[a].state]
          /\ action'[a].state = "waiting_for_roll" => roll[action'[a].roll].seat = action[a].seat]_playVars
=============================================================================
