-------------------------- MODULE ExplorationProofs --------------------------
(***************************************************************************)
(* Theorems about play between Combats, for any Seats, Rolls, actions,     *)
(* images, keys and calls at work, and a log of any length.                *)
(*                                                                         *)
(* IInv is inductive: what a call has read and its transaction does not    *)
(* compare is still so (CallsKnow), a roll is resolved exactly when it has *)
(* a total (ResultsFit), and the rows are what the log says (RowsMatchLog  *)
(* with LogFits).                                                          *)
(***************************************************************************)
EXTENDS Exploration, FiniteSetTheorems, SequenceTheorems, TLAPS

-----------------------------------------------------------------------------
(* Types. *)

Ops == {"roll.requested", "roll.resolved", "roll.quick", "exploration.message",
        "pending_action.created", "pending_action.transitioned", "stage.updated"}
RowIds == Seats \cup Rolls \cup Actions \cup {Null}
Stages == [revision : Nat, image : Images \cup {Null}]
EventRows == [op : Ops, key : Keys \cup {Null}, row : RowIds, stage : Stages]
CallRecords ==
    [by : Humans \cup {DM}, op : Ops, row : RowIds, key : Keys \cup {Null}, bound : SUBSET Seats,
     to : ActionStates \cup Images \cup {"new", Null}, expect : Nat, ref : Rolls \cup {Null},
     seen : ActionStates \cup {Null}]

TypeOK ==
    /\ running \in {"active", "over"}
    /\ holder \in [Seats -> Humans]
    /\ roll \in [Rolls -> RollRows \cup {Null}]
    /\ result \in [Rolls -> Dice \cup {Null}]
    /\ action \in [Actions -> ActionRows \cup {Null}]
    /\ stage \in Stages /\ images \subseteq Images
    /\ log \in Seq(EventRows)
    /\ asked \in [Requests -> CallRecords \cup {Null}]
    /\ answers \subseteq Rolls \X Dice

-----------------------------------------------------------------------------
(* What a call has read of rows that its transaction does not compare. *)

Names(call) ==
    /\ call.op \in {"roll.requested", "roll.quick", "exploration.message", "pending_action.created"} => call.row \in Seats
    /\ call.op = "roll.resolved" => call.row \in Rolls /\ roll[call.row] # Null
    /\ call.op = "pending_action.transitioned" =>
          /\ call.row \in Actions /\ action[call.row] # Null
          /\ call.seen \in ActionStates /\ call.to \in Allowed[call.seen]
          /\ call.to = "waiting_for_roll" =>
                call.ref \in Rolls /\ roll[call.ref] # Null /\ roll[call.ref].seat = action[call.row].seat

CallsKnow == \A c \in Requests : asked[c] # Null => Names(asked[c])

ResultsFit == \A q \in Rolls : result[q] # Null <=> roll[q] # Null /\ roll[q].state = "resolved"

-----------------------------------------------------------------------------
(* The rows and the log. *)

LogFits ==
    \A i \in 1..Len(log) :
        /\ log[i].op = "roll.resolved" => log[i].row \in Rolls /\ result[log[i].row] # Null
        /\ log[i].op = "stage.updated" =>
              log[i].stage.revision <= stage.revision /\ (log[i].stage.revision = stage.revision => log[i].stage = stage)

StageCounted == stage.revision = Events("stage.updated", Null)
ImageKept == images = {stage.image} \ {Null}
RollsCounted == \A q \in Rolls : Events("roll.resolved", q) = IF result[q] = Null THEN 0 ELSE 1
ActionsCounted ==
    \A a \in Actions : Events("pending_action.transitioned", a) = IF action[a] = Null THEN 0 ELSE action[a].version - 1

Counted == StageCounted /\ ImageKept /\ RollsCounted /\ ActionsCounted

IInv == TypeOK /\ CallsKnow /\ ResultsFit /\ LogFits /\ Counted /\ OneAnswerPerRoll

-----------------------------------------------------------------------------
(* The steps, sorted by what they leave alone. *)

\* a request is read and checked
Asking ==
    /\ \E c \in Requests, call \in CallRecords : Names(call) /\ asked' = [asked EXCEPT ![c] = call]
    /\ UNCHANGED <<running, holder, rowVars, answers>>

\* no row changes: an answer that is stored already, a refusal, what is around
Resting ==
    /\ asked' = asked \/ \E c \in Requests : asked' = [asked EXCEPT ![c] = Null]
    /\ answers' = answers \/ \E q \in Rolls : result[q] # Null /\ answers' = answers \cup {<<q, result[q]>>}
    /\ running' \in {"active", "over"} /\ holder' \in [Seats -> Humans]
    /\ UNCHANGED rowVars

Writing(c) ==
    \/ TransitionAction(c) \/ RecordLine(c)
    \/ \E q \in Rolls : RequestCheck(c, q)
    \/ \E d \in Dice : CompleteRoll(c, d)
    \/ \E a \in Actions : CreateAction(c, a)
    \/ \E image \in Images \cup {Null} : ReplaceStage(c, image)

StepKinds == Asking \/ Resting \/ \E c \in Requests : Writing(c)

LEMMA AllowedStates == DOMAIN Allowed = ActionStates /\ \A x \in ActionStates : Allowed[x] \subseteq ActionStates
BY DEF Allowed, ActionStates

LEMMA CallTyped ==
    ASSUME NEW by \in Humans \cup {DM}, NEW op \in Ops, NEW row \in RowIds, NEW key \in Keys \cup {Null}
    PROVE  Call(by, op, row, key) \in CallRecords
BY DEF Call, CallRecords, Binding

LEMMA AskSteps ==
    ASSUME TypeOK, NEW c \in Requests, NEW key \in Keys \cup {Null}, Asks(c, key)
    PROVE  Asking
<1>1. \A call \in CallRecords : Names(call) /\ BeginRequest(c, call) => Asking
    BY DEF BeginRequest, Asking
<1>2. CASE \E s \in Seats : AskCheck(c, s, key)
  <2>1. PICK s \in Seats : AskCheck(c, s, key)
      BY <1>2
  <2> DEFINE call == Call(DM, "roll.requested", s, key)
  <2>2. call \in CallRecords
      BY CallTyped DEF Ops, RowIds
  <2>3. Names(call)
      BY DEF Names, Call
  <2> QED
      BY <1>1, <2>1, <2>2, <2>3 DEF AskCheck
<1>3. ASSUME NEW image \in Images \cup {"new", Null}, AskStage(c, image, key) PROVE Asking
  <2>1. PICK revision \in 0..stage.revision :
           BeginRequest(c, [Call(DM, "stage.updated", Null, key) EXCEPT !.to = image, !.expect = revision])
      BY <1>3 DEF AskStage
  <2>2. revision \in Nat
      BY DEF TypeOK, Stages
  <2> DEFINE call == [Call(DM, "stage.updated", Null, key) EXCEPT !.to = image, !.expect = revision]
  <2>3. call \in CallRecords /\ call.op = "stage.updated"
      BY <2>2 DEF Call, CallRecords, Ops, RowIds, Binding
  <2>4. Names(call)
      BY <2>3 DEF Names
  <2> QED
      BY <1>1, <2>1, <2>3, <2>4
<1>4. ASSUME NEW by \in Humans \cup {DM}, NEW s \in Seats, AskLine(c, by, s, key) PROVE Asking
  <2>1. PICK op \in {"exploration.message", "pending_action.created", "roll.quick"} : BeginRequest(c, Call(by, op, s, key))
      BY <1>4 DEF AskLine
  <2>2. Call(by, op, s, key) \in CallRecords
      BY CallTyped DEF Ops, RowIds
  <2>3. Names(Call(by, op, s, key))
      BY DEF Names, Call
  <2> QED
      BY <1>1, <2>1, <2>2, <2>3
<1>5. ASSUME NEW by \in Humans \cup {DM}, NEW q \in Rolls, AskRoll(c, by, q, key) PROVE Asking
  <2>1. Call(by, "roll.resolved", q, key) \in CallRecords
      BY CallTyped DEF Ops, RowIds
  <2>2. Names(Call(by, "roll.resolved", q, key))
      BY <1>5 DEF Names, Call, AskRoll
  <2> QED
      BY <1>1, <1>5, <2>1, <2>2 DEF AskRoll
<1>6. ASSUME NEW by \in Humans \cup {DM}, NEW a \in Actions, NEW to \in DOMAIN Allowed, NEW q \in Rolls \cup {Null},
             AskTransition(c, by, a, to, q, key) PROVE Asking
  <2>1. PICK version \in 1..action[a].version :
           BeginRequest(c, [Call(by, "pending_action.transitioned", a, key) EXCEPT
                        !.to = to, !.ref = q, !.expect = version, !.seen = action[a].state])
      BY <1>6 DEF AskTransition
  <2> DEFINE call == [Call(by, "pending_action.transitioned", a, key) EXCEPT
                        !.to = to, !.ref = q, !.expect = version, !.seen = action[a].state]
  <2>2. action[a] \in ActionRows /\ action[a] # Null
      BY <1>6 DEF AskTransition, TypeOK
  <2> DEFINE plain == Call(by, "pending_action.transitioned", a, key)
  <2>6. plain \in CallRecords /\ plain.op = "pending_action.transitioned" /\ plain.row = a
      BY CallTyped DEF Ops, RowIds, Call
  <2>7. to \in ActionStates /\ version \in Nat /\ action[a].state \in ActionStates
      BY <2>2, AllowedStates DEF ActionRows
  <2>3. /\ call \in CallRecords
        /\ call.op = "pending_action.transitioned" /\ call.row = a /\ call.to = to /\ call.ref = q
        /\ call.seen = action[a].state
    <3>1. call = [plain EXCEPT !.to = to, !.ref = q, !.expect = version, !.seen = action[a].state]
        OBVIOUS
    <3> HIDE DEF plain, call
    <3> QED
        BY <2>6, <2>7, <3>1 DEF CallRecords
  <2>4. to \in Allowed[action[a].state] /\ (to = "waiting_for_roll" => RollMayBeBound(q, action[a].seat))
      BY <1>6 DEF AskTransition
  <2>5. Names(call)
      BY <2>2, <2>3, <2>4 DEF Names, RollMayBeBound, ActionRows
  <2> QED
      BY <1>1, <2>1, <2>3, <2>5
<1> QED
    BY <1>2, <1>3, <1>4, <1>5, <1>6 DEF Asks

LEMMA LogRows ==
    ASSUME log \in Seq(EventRows), NEW op, NEW key, KeyUsed(op, key)
    PROVE  \E i \in 1..Len(log) : StoredEvent(op, key) = log[i] /\ log[i].op = op
BY DEF KeyUsed, StoredEvent

LEMMA NextKinds ==
    ASSUME TypeOK, CallsKnow, ResultsFit, LogFits, [PlayNext]_playVars
    PROVE  StepKinds
<1>1. CASE UNCHANGED playVars
    BY <1>1 DEF playVars, rowVars, Resting, StepKinds, TypeOK
<1>2. CASE PlayEnds
    BY <1>2 DEF PlayEnds, rowVars, Resting, StepKinds, TypeOK
<1>3. ASSUME NEW s \in Seats, NEW who \in Humans, Reassign(s, who) PROVE StepKinds
    BY <1>3 DEF Reassign, rowVars, Resting, StepKinds, TypeOK
<1>4. ASSUME NEW q \in Rolls, AskKnownRoll(q) PROVE StepKinds
    BY <1>4 DEF AskKnownRoll, rowVars, Resting, StepKinds, TypeOK
<1>5. ASSUME NEW c \in Requests, NEW key \in Keys \cup {Null}, Asks(c, key) PROVE StepKinds
    BY <1>5, AskSteps DEF StepKinds
<1>6. ASSUME NEW c \in Requests, Drop(c) PROVE StepKinds
    BY <1>6 DEF Drop, Dropped, rowVars, Resting, StepKinds, TypeOK
<1>7. ASSUME NEW c \in Requests, Replay(c) PROVE StepKinds
  <2>1. asked' = [asked EXCEPT ![c] = Null] /\ UNCHANGED <<running, holder, rowVars>>
      BY <1>7 DEF Replay, Dropped
  <2>2. answers' = answers \/ \E q \in Rolls : result[q] # Null /\ answers' = answers \cup {<<q, result[q]>>}
    <3>1. CASE asked[c].op = "roll.resolved"
      <4>1. KeyUsed("roll.resolved", asked[c].key)
          BY <1>7, <3>1 DEF Replay
      <4>2. PICK i \in 1..Len(log) : StoredEvent("roll.resolved", asked[c].key) = log[i] /\ log[i].op = "roll.resolved"
          BY <4>1, LogRows DEF TypeOK
      <4>3. answers' = answers \cup {<<log[i].row, result[log[i].row]>>}
          BY <1>7, <3>1, <4>2 DEF Replay
      <4> QED
          BY <4>2, <4>3 DEF LogFits
    <3>2. CASE asked[c].op # "roll.resolved"
        BY <1>7, <3>2 DEF Replay
    <3> QED
        BY <3>1, <3>2
  <2> QED
      BY <2>1, <2>2 DEF Resting, StepKinds, TypeOK
<1>8. ASSUME NEW c \in Requests, CompleteTooLate(c) PROVE StepKinds
  <2> DEFINE q == asked[c].row
  <2>1. q \in Rolls /\ roll[q] # Null /\ roll[q].state # "pending"
      BY <1>8 DEF CompleteTooLate, MayAppend, Serialized, CallsKnow, Names, StillPending, Row
  <2>2. roll[q].state = "resolved"
      BY <2>1 DEF TypeOK, RollRows
  <2>3. result[q] # Null
      BY <2>1, <2>2 DEF ResultsFit
  <2> QED
      BY <1>8, <2>1, <2>3 DEF CompleteTooLate, Dropped, Row, Resting, StepKinds, TypeOK
<1>9. ASSUME NEW c \in Requests, Writing(c) PROVE StepKinds
    BY <1>9 DEF StepKinds
<1> QED
    BY <1>1, <1>2, <1>3, <1>4, <1>5, <1>6, <1>7, <1>8, <1>9 DEF PlayNext, Commit, Writing

-----------------------------------------------------------------------------
(* The log grows by the event of the step. *)

Logs(op, row) ==
    /\ log' \in Seq(EventRows) /\ Len(log') = Len(log) + 1
    /\ \A i \in 1..Len(log) : log'[i] = log[i]
    /\ log'[Len(log) + 1].op = op /\ log'[Len(log) + 1].row = row /\ log'[Len(log) + 1].stage = stage'

LEMMA AppendLogs ==
    ASSUME log \in Seq(EventRows), stage' \in Stages, NEW c \in Requests, asked[c] \in CallRecords,
           NEW row \in RowIds, AppendEvent(c, row)
    PROVE  Logs(asked[c].op, row)
<1> DEFINE e == [op |-> asked[c].op, key |-> asked[c].key, row |-> row, stage |-> stage']
<1>1. e \in EventRows /\ e.op = asked[c].op /\ e.row = row /\ e.stage = stage'
    BY DEF CallRecords, EventRows
<1>2. log' = Append(log, e)
    BY DEF AppendEvent
<1> HIDE DEF e
<1> QED
    BY <1>1, <1>2 DEF Logs

Of(op, row) == {i \in 1..Len(log) : log[i].op = op /\ log[i].row = row}

LEMMA EventsNat ==
    ASSUME log \in Seq(EventRows), NEW op, NEW row
    PROVE  Events(op, row) \in Nat /\ IsFiniteSet(Of(op, row)) /\ Events(op, row) = Cardinality(Of(op, row))
<1>1. IsFiniteSet(1..Len(log))
    BY FS_Interval
<1>2. IsFiniteSet(Of(op, row))
    BY <1>1, FS_Subset DEF Of
<1> QED
    BY <1>2, FS_CardinalityType DEF Events, Of

LEMMA EventsGrow ==
    ASSUME log \in Seq(EventRows), NEW op, NEW row, Logs(op, row), NEW op1, NEW row1
    PROVE  Events(op1, row1)' = Events(op1, row1) + (IF op1 = op /\ row1 = row THEN 1 ELSE 0)
<1> DEFINE new == Len(log) + 1
<1>1. new \notin Of(op1, row1) /\ new \in Nat
    BY DEF Of
<1>2. Events(op1, row1) \in Nat /\ IsFiniteSet(Of(op1, row1)) /\ Events(op1, row1) = Cardinality(Of(op1, row1))
    BY EventsNat
<1>3. Events(op1, row1)' = Cardinality(Of(op1, row1)')
    BY DEF Events, Of
<1>4. CASE op1 = op /\ row1 = row
  <2>1. Of(op1, row1)' = Of(op1, row1) \cup {new}
      BY <1>4 DEF Of, Logs
  <2> HIDE DEF new
  <2>2. Cardinality(Of(op1, row1) \cup {new}) = Cardinality(Of(op1, row1)) + 1
      BY <1>1, <1>2, FS_AddElement
  <2> QED
      BY <1>2, <1>3, <1>4, <2>1, <2>2
<1>5. CASE ~(op1 = op /\ row1 = row)
  <2>1. Of(op1, row1)' = Of(op1, row1)
      BY <1>5 DEF Of, Logs
  <2> QED
      BY <1>2, <1>3, <1>5, <2>1
<1> QED
    BY <1>4, <1>5

LEMMA EventsSame ==
    ASSUME log' = log, NEW op, NEW row
    PROVE  Events(op, row)' = Events(op, row)
BY DEF Events

-----------------------------------------------------------------------------
(* What each write does. *)

LEMMA WriteFresh ==
    ASSUME TypeOK, CallsKnow, NEW c \in Requests, Writing(c)
    PROVE  /\ asked[c] \in CallRecords /\ asked[c] # Null /\ Names(asked[c])
           /\ asked' = [asked EXCEPT ![c] = Null]
           /\ UNCHANGED <<running, holder>>
<1>1. Serialized(c) /\ asked' = [asked EXCEPT ![c] = Null] /\ UNCHANGED <<running, holder>>
    BY DEF Writing, TransitionAction, RecordLine, RequestCheck, CompleteRoll, CreateAction, ReplaceStage, MayAppend, Dropped
<1> QED
    BY <1>1 DEF Serialized, TypeOK, CallsKnow

RowsElse == UNCHANGED <<roll, result, action, stage, images, answers>>

LEMMA RecordDoes ==
    ASSUME TypeOK, CallsKnow, NEW c \in Requests, RecordLine(c)
    PROVE  /\ RowsElse
           /\ asked[c].op \in {"roll.quick", "exploration.message"} /\ Logs(asked[c].op, asked[c].row)
<1>1. asked[c] \in CallRecords /\ Names(asked[c])
    BY WriteFresh DEF Writing
<1>2. stage' \in Stages /\ asked[c].row \in RowIds
    BY <1>1 DEF RecordLine, TypeOK, CallRecords
<1> QED
    BY <1>1, <1>2, AppendLogs DEF RecordLine, RowsElse, Row, TypeOK

LEMMA RequestDoes ==
    ASSUME TypeOK, CallsKnow, NEW c \in Requests, NEW q \in Rolls, RequestCheck(c, q)
    PROVE  /\ roll[q] = Null
           /\ \E s \in Seats : roll' = [roll EXCEPT ![q] = [state |-> "pending", seat |-> s]]
           /\ UNCHANGED <<result, action, stage, images, answers>>
           /\ Logs("roll.requested", q)
<1>1. asked[c] \in CallRecords /\ Names(asked[c]) /\ asked[c].op = "roll.requested"
    BY WriteFresh DEF Writing, RequestCheck
<1>2. asked[c].row \in Seats /\ q \in RowIds
    BY <1>1 DEF Names, RowIds
<1> QED
    BY <1>1, <1>2, AppendLogs DEF RequestCheck, Row, TypeOK

LEMMA CompleteDoes ==
    ASSUME TypeOK, CallsKnow, NEW c \in Requests, NEW d \in Dice, CompleteRoll(c, d)
    PROVE  /\ asked[c].row \in Rolls /\ roll[asked[c].row] # Null /\ roll[asked[c].row] \in RollRows
           /\ roll[asked[c].row].state = "pending"
           /\ roll' = [roll EXCEPT ![asked[c].row].state = "resolved"]
           /\ result' = [result EXCEPT ![asked[c].row] = d]
           /\ answers' = answers \cup {<<asked[c].row, d>>}
           /\ UNCHANGED <<action, stage, images>>
           /\ Logs("roll.resolved", asked[c].row)
<1>1. asked[c] \in CallRecords /\ Names(asked[c]) /\ asked[c].op = "roll.resolved"
    BY WriteFresh DEF Writing, CompleteRoll
<1>2. asked[c].row \in Rolls /\ roll[asked[c].row] # Null /\ asked[c].row \in RowIds
    BY <1>1 DEF Names, RowIds
<1>3. roll[asked[c].row] \in RollRows /\ stage' \in Stages
    BY <1>2 DEF TypeOK, CompleteRoll
<1>4. Logs("roll.resolved", asked[c].row)
    BY <1>1, <1>2, <1>3, AppendLogs DEF CompleteRoll, Row, TypeOK
<1> QED
    BY <1>2, <1>3, <1>4 DEF CompleteRoll, StillPending, Row

LEMMA CreateDoes ==
    ASSUME TypeOK, CallsKnow, NEW c \in Requests, NEW a \in Actions, CreateAction(c, a)
    PROVE  /\ action[a] = Null
           /\ \E s \in Seats :
                 action' = [action EXCEPT ![a] = [state |-> "pending", seat |-> s, roll |-> Null, version |-> 1]]
           /\ UNCHANGED <<roll, result, stage, images, answers>>
           /\ Logs("pending_action.created", a)
<1>1. asked[c] \in CallRecords /\ Names(asked[c]) /\ asked[c].op = "pending_action.created"
    BY WriteFresh DEF Writing, CreateAction
<1>2. asked[c].row \in Seats /\ a \in RowIds
    BY <1>1 DEF Names, RowIds
<1> QED
    BY <1>1, <1>2, AppendLogs DEF CreateAction, Row, TypeOK

LEMMA TransitionDoes ==
    ASSUME TypeOK, CallsKnow, NEW c \in Requests, TransitionAction(c)
    PROVE  LET a == asked[c].row
               was == action[a]
           IN /\ a \in Actions /\ was # Null /\ was \in ActionRows
              /\ asked[c].to \in ActionStates /\ asked[c].to \in Allowed[was.state]
              /\ asked[c].to = "waiting_for_roll" => roll[asked[c].ref].seat = was.seat
              /\ asked[c].ref \in Rolls \cup {Null}
              /\ action' = [action EXCEPT ![a] = [state |-> asked[c].to, seat |-> was.seat, roll |-> asked[c].ref,
                                                   version |-> was.version + 1]]
              /\ UNCHANGED <<roll, result, stage, images, answers>>
              /\ Logs("pending_action.transitioned", a)
<1> DEFINE a == asked[c].row
           was == action[a]
<1>1. asked[c] \in CallRecords /\ Names(asked[c]) /\ asked[c].op = "pending_action.transitioned"
    BY WriteFresh DEF Writing, TransitionAction
<1>2. /\ a \in Actions /\ a \in RowIds /\ was # Null
      /\ asked[c].seen \in ActionStates /\ asked[c].to \in Allowed[asked[c].seen]
      /\ asked[c].to = "waiting_for_roll" => roll[asked[c].ref].seat = was.seat
    BY <1>1 DEF Names, RowIds
<1>3. was \in ActionRows /\ stage' \in Stages /\ asked[c].ref \in Rolls \cup {Null}
    BY <1>1, <1>2 DEF TypeOK, TransitionAction, CallRecords
<1>4. was.state = asked[c].seen
    BY DEF TransitionAction, Unmoved, Row
<1>5. asked[c].to \in ActionStates
    BY <1>2, AllowedStates
<1>6. Logs("pending_action.transitioned", a)
    BY <1>1, <1>2, <1>3, AppendLogs DEF TransitionAction, Row, TypeOK
<1>7. action' = [action EXCEPT ![a].state = asked[c].to, ![a].roll = asked[c].ref, ![a].version = @ + 1]
    BY DEF TransitionAction, Row
<1>8. /\ action \in [Actions -> ActionRows \cup {Null}]
      /\ UNCHANGED <<roll, result, stage, images, answers>>
    BY DEF TypeOK, TransitionAction
<1>9. action' = [action EXCEPT ![a] = [state |-> asked[c].to, seat |-> was.seat, roll |-> asked[c].ref,
                                       version |-> was.version + 1]]
    BY <1>2, <1>3, <1>7, <1>8 DEF ActionRows
<1> QED
    BY <1>2, <1>3, <1>4, <1>5, <1>6, <1>8, <1>9

LEMMA ReplaceDoes ==
    ASSUME TypeOK, CallsKnow, NEW c \in Requests, NEW image \in Images \cup {Null}, ReplaceStage(c, image)
    PROVE  /\ stage' = [revision |-> stage.revision + 1, image |-> image] /\ stage' \in Stages
           /\ images' = (images \ {stage.image}) \cup ({image} \ {Null})
           /\ UNCHANGED <<roll, result, action, answers>>
           /\ Logs("stage.updated", Null)
<1>1. asked[c] \in CallRecords /\ asked[c].op = "stage.updated"
    BY WriteFresh DEF Writing, ReplaceStage
<1>2. stage' = [revision |-> stage.revision + 1, image |-> image] /\ stage' \in Stages /\ Null \in RowIds
    BY DEF ReplaceStage, TypeOK, Stages, RowIds
<1> QED
    BY <1>1, <1>2, AppendLogs DEF ReplaceStage, TypeOK

-----------------------------------------------------------------------------
(* The steps keep the invariant. *)

LEMMA TypeStep ==
    ASSUME TypeOK, CallsKnow, StepKinds
    PROVE  TypeOK'
<1>1. CASE Asking
  <2>1. asked' \in [Requests -> CallRecords \cup {Null}]
      BY <1>1 DEF Asking, TypeOK
  <2> QED
      BY <1>1, <2>1 DEF Asking, rowVars, TypeOK
<1>2. CASE Resting
  <2>1. asked' \in [Requests -> CallRecords \cup {Null}]
      BY <1>2 DEF Resting, TypeOK
  <2>2. answers' \subseteq Rolls \X Dice
      BY <1>2 DEF Resting, TypeOK
  <2> QED
      BY <1>2, <2>1, <2>2 DEF Resting, rowVars, TypeOK
<1>3. ASSUME NEW c \in Requests, Writing(c) PROVE TypeOK'
  <2>1. /\ asked' \in [Requests -> CallRecords \cup {Null}]
        /\ running' \in {"active", "over"} /\ holder' \in [Seats -> Humans]
      BY <1>3, WriteFresh DEF TypeOK
  <2>2. CASE RecordLine(c)
      BY <2>1, <2>2, RecordDoes DEF RowsElse, Logs, TypeOK
  <2>3. ASSUME NEW q \in Rolls, RequestCheck(c, q) PROVE TypeOK'
    <3>1. roll' \in [Rolls -> RollRows \cup {Null}]
        BY <2>3, RequestDoes DEF TypeOK, RollRows
    <3> QED
        BY <2>1, <2>3, <3>1, RequestDoes DEF Logs, TypeOK
  <2>4. ASSUME NEW d \in Dice, CompleteRoll(c, d) PROVE TypeOK'
    <3>3. PICK q \in Rolls :
             /\ roll[q] \in RollRows /\ roll' = [roll EXCEPT ![q].state = "resolved"]
             /\ result' = [result EXCEPT ![q] = d] /\ answers' = answers \cup {<<q, d>>}
        BY <2>4, CompleteDoes
    <3>1. roll' \in [Rolls -> RollRows \cup {Null}]
        BY <3>3 DEF TypeOK, RollRows
    <3>2. result' \in [Rolls -> Dice \cup {Null}] /\ answers' \subseteq Rolls \X Dice
        BY <3>3 DEF TypeOK
    <3> QED
        BY <2>1, <2>4, <3>1, <3>2, CompleteDoes DEF Logs, TypeOK
  <2>5. ASSUME NEW a \in Actions, CreateAction(c, a) PROVE TypeOK'
    <3>1. action' \in [Actions -> ActionRows \cup {Null}]
        BY <2>5, CreateDoes DEF TypeOK, ActionRows, ActionStates
    <3> QED
        BY <2>1, <2>5, <3>1, CreateDoes DEF Logs, TypeOK
  <2>6. CASE TransitionAction(c)
    <3>2. PICK a \in Actions, to \in ActionStates, q \in Rolls \cup {Null} :
             /\ action[a] \in ActionRows
             /\ action' = [action EXCEPT ![a] = [state |-> to, seat |-> action[a].seat, roll |-> q,
                                                  version |-> action[a].version + 1]]
        BY <2>6, TransitionDoes
    <3>1. action' \in [Actions -> ActionRows \cup {Null}]
        BY <3>2 DEF TypeOK, ActionRows
    <3> QED
        BY <2>1, <2>6, <3>1, TransitionDoes DEF Logs, TypeOK
  <2>7. ASSUME NEW image \in Images \cup {Null}, ReplaceStage(c, image) PROVE TypeOK'
    <3>1. images' \subseteq Images
        BY <2>7, ReplaceDoes DEF TypeOK
    <3> QED
        BY <2>1, <2>7, <3>1, ReplaceDoes DEF Logs, TypeOK
  <2> QED
      BY <1>3, <2>2, <2>3, <2>4, <2>5, <2>6, <2>7 DEF Writing
<1> QED
    BY <1>1, <1>2, <1>3 DEF StepKinds

\* rolls and actions are never deleted nor given to another Seat, and a total
\* never changes
RowsStay ==
    /\ \A q \in Rolls : roll[q] # Null => roll'[q] # Null /\ roll'[q].seat = roll[q].seat
    /\ \A a \in Actions : action[a] # Null => action'[a] # Null /\ action'[a].seat = action[a].seat
    /\ \A q \in Rolls : result[q] # Null => result'[q] = result[q]

LEMMA RowsStayStep ==
    ASSUME TypeOK, CallsKnow, ResultsFit, StepKinds
    PROVE  RowsStay
<1>1. CASE Asking \/ Resting
    BY <1>1 DEF Asking, Resting, rowVars, RowsStay
<1>2. ASSUME NEW c \in Requests, Writing(c) PROVE RowsStay
  <2>1. CASE RecordLine(c)
      BY <2>1, RecordDoes DEF RowsElse, RowsStay
  <2>2. ASSUME NEW q \in Rolls, RequestCheck(c, q) PROVE RowsStay
      BY <2>2, RequestDoes DEF RowsStay, TypeOK
  <2>3. ASSUME NEW d \in Dice, CompleteRoll(c, d) PROVE RowsStay
    <3>1. PICK q \in Rolls :
             /\ roll[q] # Null /\ roll[q] \in RollRows /\ roll[q].state = "pending"
             /\ roll' = [roll EXCEPT ![q].state = "resolved"]
             /\ result' = [result EXCEPT ![q] = d] /\ action' = action
        BY <2>3, CompleteDoes
    <3>2. result[q] = Null
        BY <3>1 DEF ResultsFit
    <3>3. roll'[q] \in RollRows /\ roll'[q].seat = roll[q].seat
        BY <3>1 DEF TypeOK, RollRows
    <3> QED
        BY <3>1, <3>2, <3>3, ExplorationAssumption DEF RowsStay, TypeOK
  <2>4. ASSUME NEW a \in Actions, CreateAction(c, a) PROVE RowsStay
      BY <2>4, CreateDoes DEF RowsStay, TypeOK
  <2>5. CASE TransitionAction(c)
    <3>1. PICK a \in Actions, to \in ActionStates, q \in Rolls \cup {Null} :
             /\ action[a] \in ActionRows
             /\ action' = [action EXCEPT ![a] = [state |-> to, seat |-> action[a].seat, roll |-> q,
                                                  version |-> action[a].version + 1]]
             /\ roll' = roll /\ result' = result
        BY <2>5, TransitionDoes
    <3>2. action'[a] \in ActionRows /\ action'[a].seat = action[a].seat
        BY <3>1 DEF TypeOK, ActionRows
    <3> QED
        BY <3>1, <3>2, ExplorationAssumption DEF RowsStay, TypeOK
  <2>6. ASSUME NEW image \in Images \cup {Null}, ReplaceStage(c, image) PROVE RowsStay
      BY <2>6, ReplaceDoes DEF RowsStay
  <2> QED
      BY <1>2, <2>1, <2>2, <2>3, <2>4, <2>5, <2>6 DEF Writing
<1> QED
    BY <1>1, <1>2 DEF StepKinds

LEMMA CallsKnowStep ==
    ASSUME TypeOK, CallsKnow, RowsStay, StepKinds
    PROVE  CallsKnow'
<1>1. \A call \in CallRecords : Names(call) => Names(call)'
    BY DEF RowsStay, Names
<1>2. CASE Asking
  <2>1. PICK c \in Requests, call \in CallRecords : Names(call) /\ asked' = [asked EXCEPT ![c] = call]
      BY <1>2 DEF Asking
  <2>2. \A k \in Requests : asked'[k] = IF k = c THEN call ELSE asked[k]
      BY <2>1 DEF TypeOK
  <2> QED
      BY <1>1, <2>1, <2>2 DEF CallsKnow, TypeOK
<1>3. CASE Resting \/ \E c \in Requests : Writing(c)
  <2>1. asked' = asked \/ \E c \in Requests : asked' = [asked EXCEPT ![c] = Null]
      BY <1>3, WriteFresh DEF Resting
  <2>2. \A k \in Requests : asked'[k] # Null => asked'[k] = asked[k]
      BY <2>1 DEF TypeOK
  <2> QED
      BY <1>1, <2>2 DEF CallsKnow, TypeOK
<1> QED
    BY <1>2, <1>3 DEF StepKinds

LEMMA ResultsFitStep ==
    ASSUME TypeOK, CallsKnow, ResultsFit, StepKinds
    PROVE  ResultsFit'
<1>1. CASE Asking \/ Resting
    BY <1>1 DEF Asking, Resting, rowVars, ResultsFit
<1>2. ASSUME NEW c \in Requests, Writing(c) PROVE ResultsFit'
  <2>1. CASE roll' = roll /\ result' = result
      BY <2>1 DEF ResultsFit
  <2>2. ASSUME NEW q \in Rolls, RequestCheck(c, q) PROVE ResultsFit'
    <3>1. PICK s \in Seats : roll' = [roll EXCEPT ![q] = [state |-> "pending", seat |-> s]]
        BY <2>2, RequestDoes
    <3>2. roll'[q].state = "pending" /\ result[q] = Null /\ result' = result
        BY <2>2, <3>1, RequestDoes DEF TypeOK, ResultsFit
    <3> QED
        BY <3>1, <3>2 DEF ResultsFit, TypeOK
  <2>3. ASSUME NEW d \in Dice, CompleteRoll(c, d) PROVE ResultsFit'
    <3>1. PICK q \in Rolls :
             /\ roll[q] \in RollRows /\ roll' = [roll EXCEPT ![q].state = "resolved"]
             /\ result' = [result EXCEPT ![q] = d]
        BY <2>3, CompleteDoes
    <3>2. roll'[q] \in RollRows /\ roll'[q].state = "resolved" /\ result'[q] = d
        BY <3>1 DEF TypeOK, RollRows
    <3> QED
        BY <3>1, <3>2, ExplorationAssumption DEF ResultsFit, TypeOK
  <2> QED
      BY <1>2, <2>1, <2>2, <2>3, RecordDoes, CreateDoes, TransitionDoes, ReplaceDoes DEF Writing, RowsElse
<1> QED
    BY <1>1, <1>2 DEF StepKinds

LEMMA LogFitsStep ==
    ASSUME TypeOK, CallsKnow, RowsStay, LogFits, StepKinds
    PROVE  LogFits'
<1>1. CASE Asking \/ Resting
    BY <1>1 DEF Asking, Resting, rowVars, LogFits
<1>2. ASSUME NEW op \in Ops, NEW row, Logs(op, row), stage' = stage, op # "stage.updated",
             op = "roll.resolved" => row \in Rolls /\ result'[row] # Null
      PROVE  LogFits'
  <2>1. \A i \in 1..Len(log) : result[log[i].row] # Null /\ log[i].row \in Rolls => result'[log[i].row] # Null
      BY DEF RowsStay
  <2>2. \A i \in 1..(Len(log) + 1) : i \in 1..Len(log) \/ i = Len(log) + 1
      BY DEF TypeOK
  <2> QED
      BY <1>2, <2>1, <2>2 DEF LogFits, Logs
<1>3. ASSUME NEW c \in Requests, Writing(c) PROVE LogFits'
  <2>1. CASE RecordLine(c)
      BY <1>2, <2>1, RecordDoes DEF RowsElse, Ops
  <2>2. ASSUME NEW q \in Rolls, RequestCheck(c, q) PROVE LogFits'
      BY <1>2, <2>2, RequestDoes DEF Ops
  <2>3. ASSUME NEW d \in Dice, CompleteRoll(c, d) PROVE LogFits'
    <3>1. PICK q \in Rolls : result' = [result EXCEPT ![q] = d] /\ stage' = stage /\ Logs("roll.resolved", q)
        BY <2>3, CompleteDoes
    <3>2. result'[q] # Null
        BY <3>1, ExplorationAssumption DEF TypeOK
    <3> QED
        BY <1>2, <3>1, <3>2 DEF Ops
  <2>4. ASSUME NEW a \in Actions, CreateAction(c, a) PROVE LogFits'
      BY <1>2, <2>4, CreateDoes DEF Ops
  <2>5. CASE TransitionAction(c)
      BY <1>2, <2>5, TransitionDoes DEF Ops
  <2>6. ASSUME NEW image \in Images \cup {Null}, ReplaceStage(c, image) PROVE LogFits'
    <3>1. stage'.revision = stage.revision + 1 /\ stage.revision \in Nat /\ result' = result /\ Logs("stage.updated", Null)
        BY <2>6, ReplaceDoes DEF TypeOK, Stages
    <3>2. \A i \in 1..(Len(log) + 1) : i \in 1..Len(log) \/ i = Len(log) + 1
        BY DEF TypeOK
    <3>3. \A i \in 1..Len(log) : log[i].stage.revision \in Nat
      <4>1. \A i \in 1..Len(log) : log[i] \in EventRows
          BY DEF TypeOK
      <4> QED
          BY <4>1 DEF EventRows, Stages
    <3> QED
        BY <3>1, <3>2, <3>3 DEF LogFits, Logs
  <2> QED
      BY <1>3, <2>1, <2>2, <2>3, <2>4, <2>5, <2>6 DEF Writing
<1> QED
    BY <1>1, <1>3 DEF StepKinds

LEMMA CountedStep ==
    ASSUME TypeOK, CallsKnow, ResultsFit, Counted, StepKinds
    PROVE  Counted'
<1>1. CASE Asking \/ Resting
  <2>1. \A op, row : Events(op, row)' = Events(op, row)
      BY <1>1, EventsSame DEF Asking, Resting, rowVars
  <2> QED
      BY <1>1, <2>1 DEF Asking, Resting, rowVars, Counted, StageCounted, ImageKept, RollsCounted, ActionsCounted
<1>2. ASSUME NEW op, NEW row, Logs(op, row), NEW op1, NEW row1
      PROVE  Events(op1, row1)' = Events(op1, row1) + (IF op1 = op /\ row1 = row THEN 1 ELSE 0)
    BY <1>2, EventsGrow DEF TypeOK
<1>3. ASSUME NEW op1, NEW row1 PROVE Events(op1, row1) \in Nat
    BY EventsNat DEF TypeOK
<1>4. ASSUME NEW c \in Requests, Writing(c) PROVE Counted'
  <2>1. StageCounted' /\ ImageKept'
    <3>1. ASSUME NEW image \in Images \cup {Null}, ReplaceStage(c, image) PROVE StageCounted' /\ ImageKept'
        BY <1>2, <1>3, <3>1, ReplaceDoes DEF Counted, StageCounted, ImageKept
    <3>2. ASSUME NEW op, NEW row, Logs(op, row), op # "stage.updated", stage' = stage, images' = images
          PROVE  StageCounted' /\ ImageKept'
        BY <1>2, <1>3, <3>2 DEF Counted, StageCounted, ImageKept
    <3> QED
        BY <1>4, <3>1, <3>2, RecordDoes, RequestDoes, CompleteDoes, CreateDoes, TransitionDoes DEF Writing, RowsElse
  <2>2. RollsCounted'
    <3>1. ASSUME NEW d \in Dice, CompleteRoll(c, d) PROVE RollsCounted'
      <4>1. PICK q \in Rolls :
               /\ roll[q] # Null /\ roll[q].state = "pending"
               /\ result' = [result EXCEPT ![q] = d] /\ Logs("roll.resolved", q)
          BY <3>1, CompleteDoes
      <4>2. result[q] = Null /\ d # Null
          BY <4>1, ExplorationAssumption DEF ResultsFit
      <4>3. \A r \in Rolls : result'[r] = IF r = q THEN d ELSE result[r]
          BY <4>1 DEF TypeOK
      <4> QED
          BY <1>2, <4>1, <4>2, <4>3 DEF Counted, RollsCounted
    <3>2. ASSUME NEW op, NEW row, Logs(op, row), op # "roll.resolved", result' = result PROVE RollsCounted'
        BY <1>2, <1>3, <3>2 DEF Counted, RollsCounted
    <3> QED
        BY <1>4, <3>1, <3>2, RecordDoes, RequestDoes, CreateDoes, TransitionDoes, ReplaceDoes DEF Writing, RowsElse
  <2>3. ActionsCounted'
    <3>1. CASE TransitionAction(c)
      <4>1. PICK a \in Actions, to \in ActionStates, q \in Rolls \cup {Null} :
               /\ action[a] # Null /\ action[a] \in ActionRows
               /\ action' = [action EXCEPT ![a] = [state |-> to, seat |-> action[a].seat, roll |-> q,
                                                    version |-> action[a].version + 1]]
               /\ Logs("pending_action.transitioned", a)
          BY <3>1, TransitionDoes
      <4>2. action'[a] \in ActionRows /\ action'[a].version = action[a].version + 1 /\ action[a].version \in Nat
          BY <4>1 DEF TypeOK, ActionRows
      <4>3. \A b \in Actions : b # a => action'[b] = action[b]
          BY <4>1 DEF TypeOK
      <4>4. action'[a] # Null
          BY <4>2, ExplorationAssumption
      <4>5. \A b \in Actions :
               Events("pending_action.transitioned", b)' = Events("pending_action.transitioned", b) + (IF b = a THEN 1 ELSE 0)
          BY <1>2, <4>1
      <4> QED
          BY <1>3, <4>1, <4>2, <4>3, <4>4, <4>5 DEF Counted, ActionsCounted
    <3>2. ASSUME NEW a \in Actions, CreateAction(c, a) PROVE ActionsCounted'
      <4>1. PICK s \in Seats :
               action' = [action EXCEPT ![a] = [state |-> "pending", seat |-> s, roll |-> Null, version |-> 1]]
          BY <3>2, CreateDoes
      <4>2. action'[a].version = 1 /\ \A b \in Actions : b # a => action'[b] = action[b]
          BY <4>1 DEF TypeOK
      <4>3. action[a] = Null /\ Logs("pending_action.created", a)
          BY <3>2, CreateDoes
      <4>4. \A b \in Actions :
               Events("pending_action.transitioned", b)' = Events("pending_action.transitioned", b)
          BY <1>2, <1>3, <4>3
      <4> QED
          BY <4>2, <4>3, <4>4 DEF Counted, ActionsCounted
    <3>3. ASSUME NEW op, NEW row, Logs(op, row), op # "pending_action.transitioned", action' = action
          PROVE  ActionsCounted'
        BY <1>2, <1>3, <3>3 DEF Counted, ActionsCounted
    <3> QED
        BY <1>4, <3>1, <3>2, <3>3, RecordDoes, RequestDoes, CompleteDoes, ReplaceDoes DEF Writing, RowsElse
  <2> QED
      BY <2>1, <2>2, <2>3 DEF Counted
<1> QED
    BY <1>1, <1>4 DEF StepKinds

LEMMA AnswersStep ==
    ASSUME TypeOK, CallsKnow, ResultsFit, RowsStay, OneAnswerPerRoll, StepKinds
    PROVE  OneAnswerPerRoll'
<1>1. \A x \in answers : result'[x[1]] = x[2]
    BY ExplorationAssumption DEF RowsStay, OneAnswerPerRoll, TypeOK
<1>2. CASE answers' = answers
    BY <1>1, <1>2 DEF OneAnswerPerRoll
<1>3. CASE \E q \in Rolls : result'[q] = result[q] /\ answers' = answers \cup {<<q, result[q]>>}
    BY <1>1, <1>3 DEF OneAnswerPerRoll
<1>4. ASSUME NEW c \in Requests, NEW d \in Dice, CompleteRoll(c, d) PROVE OneAnswerPerRoll'
  <2>1. PICK q \in Rolls : result' = [result EXCEPT ![q] = d] /\ answers' = answers \cup {<<q, d>>}
      BY <1>4, CompleteDoes
  <2>2. result'[q] = d
      BY <2>1 DEF TypeOK
  <2> QED
      BY <1>1, <2>1, <2>2 DEF OneAnswerPerRoll
<1> QED
    BY <1>2, <1>3, <1>4, RecordDoes, RequestDoes, CreateDoes, TransitionDoes, ReplaceDoes
    DEF StepKinds, Asking, Resting, rowVars, Writing, RowsElse

-----------------------------------------------------------------------------
LEMMA InitInv == ASSUME PlayInit PROVE IInv
<1>1. TypeOK
  <2>1. log \in Seq(EventRows)
      BY DEF PlayInit
  <2> QED
      BY <2>1 DEF PlayInit, TypeOK, NoStage, Stages
<1>2. CallsKnow /\ ResultsFit /\ LogFits /\ OneAnswerPerRoll
    BY DEF PlayInit, CallsKnow, ResultsFit, LogFits, OneAnswerPerRoll
<1>3. Counted
  <2>1. \A op, row : Events(op, row) = 0
    <3>1. ASSUME NEW op, NEW row PROVE Of(op, row) = {}
        BY DEF Of, PlayInit
    <3> QED
        BY <1>1, <3>1, EventsNat, FS_EmptySet DEF TypeOK
  <2> QED
      BY <2>1 DEF PlayInit, Counted, StageCounted, ImageKept, RollsCounted, ActionsCounted, NoStage
<1> QED
    BY <1>1, <1>2, <1>3 DEF IInv

LEMMA NextInv == ASSUME IInv, [PlayNext]_playVars PROVE IInv'
<1>1. StepKinds
    BY NextKinds DEF IInv
<1>2. RowsStay
    BY <1>1, RowsStayStep DEF IInv
<1> QED
    BY <1>1, <1>2, TypeStep, CallsKnowStep, ResultsFitStep, LogFitsStep, CountedStep, AnswersStep DEF IInv

LEMMA SpecInv == PlaySpec => []IInv
BY InitInv, NextInv, PTL DEF PlaySpec

-----------------------------------------------------------------------------
(* The theorems. *)

\* The rows of rolls, actions and the Stage, the log and the calls at work keep
\* their types, and what a call has read and nobody compares is still so.
THEOREM ExplorationTypes == PlaySpec => [](TypeOK /\ CallsKnow)
BY SpecInv, PTL DEF IInv

\* The rows of rolls, pending actions and the Stage are what the log says, and a
\* roll has one total, whatever calls overlap, are repeated or come too late
\* (persistence/pending_actions, rolls and the Stage, each with its event).
THEOREM RowsFollowLog == PlaySpec => []RollsAndRowsMatchLog
<1>1. IInv => RollsAndRowsMatchLog
  <2> SUFFICES ASSUME IInv PROVE RowsMatchLog /\ OneAnswerPerRoll
      BY DEF RollsAndRowsMatchLog
  <2>1. \A a \in Actions : action[a] # Null => action[a].version \in Nat
      BY DEF IInv, TypeOK, ActionRows
  <2>2. ASSUME NEW a \in Actions, action[a] # Null
        PROVE  action[a].version = 1 + Events("pending_action.transitioned", a)
      BY <2>1, <2>2 DEF IInv, Counted, ActionsCounted
  <2> QED
      BY <2>2 DEF IInv, Counted, StageCounted, ImageKept, RollsCounted, LogFits, RowsMatchLog
<1> QED
    BY <1>1, SpecInv, PTL

\* A pending action moves along the allowed transitions only, and waits for a roll
\* of its own Seat, though the service checks both before the row is locked
\* (domain/pending_actions, persistence/pending_actions).
THEOREM ActionsMoveLegally == PlaySpec => LegalMoves
<1>1. IInv /\ [PlayNext]_playVars =>
         [\A a \in Actions : action[a] # Null /\ action'[a] # action[a] =>
             /\ action'[a].state \in Allowed[action[a].state]
             /\ action'[a].state = "waiting_for_roll" => roll[action'[a].roll].seat = action[a].seat]_playVars
  <2> SUFFICES ASSUME IInv, [PlayNext]_playVars, NEW a \in Actions, action[a] # Null, action'[a] # action[a]
               PROVE  /\ action'[a].state \in Allowed[action[a].state]
                      /\ action'[a].state = "waiting_for_roll" => roll[action'[a].roll].seat = action[a].seat
      OBVIOUS
  <2>1. TypeOK /\ CallsKnow /\ StepKinds
      BY NextKinds DEF IInv
  <2>2. PICK c \in Requests : TransitionAction(c)
    <3>1. CASE action' = action
        BY <3>1
    <3>2. ASSUME NEW c \in Requests, NEW b \in Actions, CreateAction(c, b) PROVE FALSE
        BY <2>1, <3>2, CreateDoes DEF TypeOK
    <3> QED
        BY <2>1, <3>1, <3>2, RecordDoes, RequestDoes, CompleteDoes, ReplaceDoes
        DEF StepKinds, Asking, Resting, rowVars, Writing, RowsElse
  <2>3. PICK b \in Actions, to \in ActionStates, q \in Rolls \cup {Null} :
           /\ to \in Allowed[action[b].state]
           /\ to = "waiting_for_roll" => roll[q].seat = action[b].seat
           /\ action' = [action EXCEPT ![b] = [state |-> to, seat |-> action[b].seat, roll |-> q,
                                                version |-> action[b].version + 1]]
    <3>1. /\ asked[c].row \in Actions /\ asked[c].to \in ActionStates /\ asked[c].ref \in Rolls \cup {Null}
          /\ asked[c].to \in Allowed[action[asked[c].row].state]
          /\ asked[c].to = "waiting_for_roll" => roll[asked[c].ref].seat = action[asked[c].row].seat
          /\ action' = [action EXCEPT ![asked[c].row] =
                           [state |-> asked[c].to, seat |-> action[asked[c].row].seat, roll |-> asked[c].ref,
                            version |-> action[asked[c].row].version + 1]]
        BY <2>1, <2>2, TransitionDoes
    <3> QED
        BY <3>1
  <2>4. b = a
      BY <2>1, <2>3 DEF TypeOK
  <2>5. action'[a] = [state |-> to, seat |-> action[a].seat, roll |-> q, version |-> action[a].version + 1]
      BY <2>1, <2>3, <2>4 DEF TypeOK
  <2> QED
      BY <2>3, <2>4, <2>5
<1>2. PlaySpec => [][PlayNext]_playVars
    BY DEF PlaySpec
<1> QED
    BY <1>1, <1>2, SpecInv, PTL DEF LegalMoves
=============================================================================
