----------------------------- MODULE WorldProofs -----------------------------
(***************************************************************************)
(* Theorems about the running world of a Campaign, for any entries,        *)
(* Adventures, overrides, keys, Sessions and calls at work.                *)
(*                                                                         *)
(* IInv is inductive: which row locks a call has and what they keep in     *)
(* place (LocksHeld), what an asked change names (Asked), and that every   *)
(* revision counts the keys recorded for its row (WorldIsWhole).           *)
(***************************************************************************)
EXTENDS CampaignWorld, FiniteSetTheorems, TLAPS

-----------------------------------------------------------------------------
(* Types. *)

Ops == {"entry.create", "entry.update", "entry.archive", "override.create", "override.update",
        "override.clear", "context.update", "context.clear"}
Steps == {"asked", "looked", "half", "locked"}
ChangeRows ==
    [op : Ops, target : Targets, to : AdventureEntries \cup SceneEntries \cup {Null}, expect : Nat,
     id : OverrideIds \cup {Null}]
CallRows == [kind : Kinds, key : Keys, change : ChangeRows, session : Sessions \cup {Null}, step : Steps]

TypeOK ==
    /\ session \in Sessions \cup {Null} /\ over \subseteq Sessions /\ session \notin over
    /\ attached \subseteq Adventures
    /\ entry \in [Entries -> EntryRows \cup {Null}]
    /\ override \in [AdventureEntries -> OverrideRows \cup {Null}]
    /\ context \in [adventure : AdventureEntries \cup {Null}, runtime : SceneEntries \cup {Null}, revision : Nat]
    /\ mutation \in [Keys -> MutationRows \cup {Null}]
    /\ events \subseteq Sessions \X Keys
    /\ holds \in [campaign : Requests \cup {Null}, session : Requests \cup {Null}]
    /\ doing \in [Requests -> CallRows \cup {Null}]

\* what a change names
Names(ch) ==
    /\ ch.op \in {"entry.create", "entry.update", "entry.archive"} => ch.target \in Entries
    /\ ch.op = "entry.update" => ch.to \in SceneEntries
    /\ ch.op \in {"override.create", "override.update", "override.clear"} => ch.target \in AdventureEntries
    /\ ch.op = "override.create" => ch.id \in OverrideIds
    /\ ch.op \in {"context.update", "context.clear"} <=> ch.target = "context"

Asked(call) ==
    /\ Names(call.change)
    /\ call.kind = "management" <=> call.session = Null

\* the row locks a call has, and what cannot change while it has them
Locks(c) ==
    LET call == doing[c]
    IN /\ call.kind = "management" =>
             /\ call.step \in {"asked", "locked"}
             /\ call.step = "locked" => holds.campaign = c /\ session = Null
       /\ call.kind \in {"active", "append"} /\ call.step \in {"half", "locked"} =>
             holds.session = c /\ call.session = session
       /\ call.kind = "action" =>
             /\ call.step \in {"asked", "half", "locked"}
             /\ call.step # "asked" => holds.campaign = c /\ call.session \in over \cup {session}

LocksHeld == \A c \in Requests : doing[c] # Null => Asked(doing[c]) /\ Locks(c)

Recorded == {k \in Keys : mutation[k] # Null}

IInv == TypeOK /\ LocksHeld /\ IsFiniteSet(Recorded) /\ WorldIsWhole

-----------------------------------------------------------------------------
(* What is asked. *)

LEMMA ChangesTyped ==
    ASSUME TypeOK, NEW ch \in Changes
    PROVE  ch \in ChangeRows /\ Names(ch)
<1>1. \A e \in Entries : Seen(entry[e]) \in Nat
    BY DEF TypeOK, EntryRows, Seen
<1>2. CASE ch \in EntryChanges
    BY <1>1, <1>2, WorldAssumption DEF EntryChanges, Change, ChangeRows, Ops, Names, Targets, Entries
<1>3. CASE ch \in OverrideChanges
  <2>1. \A s \in AdventureEntries : override[s] # Null => override[s].id \in OverrideIds /\ override[s].revision \in Nat
      BY DEF TypeOK, OverrideRows
  <2> QED
      BY <1>3, <2>1, WorldAssumption DEF OverrideChanges, Change, ChangeRows, Ops, Names, Targets
<1>4. CASE ch \in ContextChanges
    BY <1>4 DEF TypeOK, ContextChanges, Change, ChangeRows, Ops, Names, Targets
<1> QED
    BY <1>2, <1>3, <1>4 DEF Changes

-----------------------------------------------------------------------------
(* What a change does. *)

LEMMA LegalOps ==
    ASSUME NEW ch \in ChangeRows, Names(ch), Legal(ch)
    PROVE  \/ ch.op = "entry.create" /\ entry[ch.target] = Null
           \/ ch.op \in {"entry.update", "entry.archive"} /\ entry[ch.target] # Null
           \/ ch.op = "override.create" /\ Attached(ch.target)
           \/ ch.op = "override.update" /\ Attached(ch.target) /\ override[ch.target] # Null
           \/ ch.op = "override.clear" /\ override[ch.target] # Null
           \/ /\ ch.op \in {"context.update", "context.clear"} /\ ch.target = "context"
              /\ NextContext(ch).adventure # Null => Attached(NextContext(ch).adventure)
BY DEF Legal, LegalEntry, LegalOverride, LegalContext, Live, SameOverride, Names

LEMMA ContextTyped ==
    ASSUME TypeOK, NEW ch \in ChangeRows
    PROVE  /\ NextContext(ch) \in [adventure : AdventureEntries \cup {Null}, runtime : SceneEntries \cup {Null}, revision : Nat]
           /\ NextContext(ch).revision = context.revision + 1
BY WorldAssumption DEF TypeOK, NextContext, ChangeRows, Entries

\* a row that is written again counts one more
Revision(e) == IF entry[e] = Null THEN 0 ELSE entry[e].revision

LEMMA ApplyDoes ==
    ASSUME TypeOK, NEW ch \in ChangeRows, Names(ch), Legal(ch), Apply(ch)
    PROVE  /\ entry' \in [Entries -> EntryRows \cup {Null}]
           /\ override' \in [AdventureEntries -> OverrideRows \cup {Null}]
           /\ context' \in [adventure : AdventureEntries \cup {Null}, runtime : SceneEntries \cup {Null}, revision : Nat]
           /\ \A e \in Entries : Revision(e)' = Revision(e) + (IF ch.target = e THEN 1 ELSE 0)
           /\ context'.revision = context.revision + (IF ch.target = "context" THEN 1 ELSE 0)
           /\ \A s \in AdventureEntries : override'[s] # Null => override[s] # Null \/ Attached(s)
           /\ context'.adventure # Null => context'.adventure = context.adventure \/ Attached(context'.adventure)
<1>1. ch.target \in Entries => ch.target # "context" /\ ch.target \notin AdventureEntries
    BY WorldAssumption
<1>2. ch.target \in AdventureEntries => ch.target # "context" /\ ch.target \notin Entries
    BY WorldAssumption
<1>3. "context" \notin Entries
    BY WorldAssumption
<1>4. ASSUME entry' = entry PROVE \A e \in Entries : Revision(e)' = Revision(e) /\ Revision(e) \in Nat
    BY <1>4 DEF Revision, TypeOK, EntryRows
<1>5. CASE ch.op \in {"entry.create", "entry.update", "entry.archive"}
  <2>1. override' = override /\ context' = context /\ ch.target \in Entries
      BY <1>1, <1>5 DEF Apply, Names
  <2>2. PICK row \in EntryRows :
           /\ entry' = [entry EXCEPT ![ch.target] = row]
           /\ row.revision = Revision(ch.target) + 1
    <3>1. CASE ch.op = "entry.create"
      <4> DEFINE row == [live |-> TRUE, holder |-> Null, revision |-> 1]
      <4>1. entry' = [entry EXCEPT ![ch.target] = row] /\ entry[ch.target] = Null
          BY <3>1, LegalOps DEF Apply
      <4>2. row \in EntryRows /\ row.revision = 1 /\ Revision(ch.target) = 0
          BY <4>1 DEF EntryRows, Revision
      <4>3. row.revision = Revision(ch.target) + 1
          BY <4>2
      <4> HIDE DEF row
      <4> QED
          BY <4>1, <4>2, <4>3
    <3>2. CASE ch.op = "entry.update"
      <4> DEFINE row == [live |-> entry[ch.target].live, holder |-> ch.to, revision |-> entry[ch.target].revision + 1]
      <4>1. entry[ch.target] # Null /\ entry[ch.target] \in EntryRows /\ ch.to \in SceneEntries
          BY <2>1, <3>2, LegalOps DEF TypeOK, Names
      <4>2. entry' = [entry EXCEPT ![ch.target].holder = ch.to, ![ch.target].revision = @ + 1]
          BY <3>2 DEF Apply
      <4>3. entry' = [entry EXCEPT ![ch.target] = row]
          BY <2>1, <4>1, <4>2 DEF TypeOK, EntryRows
      <4>4. row \in EntryRows /\ row.revision = entry[ch.target].revision + 1
          BY <4>1 DEF EntryRows
      <4>5. Revision(ch.target) = entry[ch.target].revision
          BY <4>1 DEF Revision
      <4> HIDE DEF row
      <4> QED
          BY <4>3, <4>4, <4>5
    <3>3. CASE ch.op = "entry.archive"
      <4> DEFINE row == [live |-> FALSE, holder |-> entry[ch.target].holder, revision |-> entry[ch.target].revision + 1]
      <4>1. entry[ch.target] # Null /\ entry[ch.target] \in EntryRows
          BY <2>1, <3>3, LegalOps DEF TypeOK
      <4>2. entry' = [entry EXCEPT ![ch.target].live = FALSE, ![ch.target].revision = @ + 1]
          BY <3>3 DEF Apply
      <4>3. entry' = [entry EXCEPT ![ch.target] = row]
          BY <2>1, <4>1, <4>2 DEF TypeOK, EntryRows
      <4>4. row \in EntryRows /\ row.revision = entry[ch.target].revision + 1
          BY <4>1 DEF EntryRows
      <4>5. Revision(ch.target) = entry[ch.target].revision
          BY <4>1 DEF Revision
      <4> HIDE DEF row
      <4> QED
          BY <4>3, <4>4, <4>5
    <3> QED
        BY <1>5, <3>1, <3>2, <3>3
  <2>3. row # Null /\ \A e \in Entries : entry'[e] = IF e = ch.target THEN row ELSE entry[e]
      BY <2>1, <2>2, WorldAssumption DEF TypeOK
  <2>4. \A e \in Entries : Revision(e) \in Nat
      BY DEF Revision, TypeOK, EntryRows
  <2>5. \A e \in Entries : Revision(e)' = Revision(e) + (IF ch.target = e THEN 1 ELSE 0)
      BY <2>2, <2>3, <2>4 DEF Revision
  <2>6. entry' \in [Entries -> EntryRows \cup {Null}]
      BY <2>2 DEF TypeOK
  <2>7. ch.target # "context" /\ context.revision \in Nat
      BY <1>1, <2>1 DEF TypeOK
  <2> QED
      BY <2>1, <2>5, <2>6, <2>7 DEF TypeOK
<1>6. CASE ch.op \in {"override.create", "override.update", "override.clear"}
  <2>1. entry' = entry /\ context' = context /\ ch.target \in AdventureEntries
      BY <1>2, <1>6 DEF Apply, Names
  <2>2. PICK row \in OverrideRows \cup {Null} :
           /\ override' = [override EXCEPT ![ch.target] = row]
           /\ row # Null => Attached(ch.target)
    <3>1. CASE ch.op = "override.create"
      <4> DEFINE row == [id |-> ch.id, revision |-> 1]
      <4>1. row \in OverrideRows /\ override' = [override EXCEPT ![ch.target] = row]
          BY <3>1 DEF Apply, OverrideRows, Names
      <4> QED
          BY <3>1, <4>1, LegalOps
    <3>2. CASE ch.op = "override.update"
      <4> DEFINE row == [override[ch.target] EXCEPT !.revision = override[ch.target].revision + 1]
      <4>1. override[ch.target] \in OverrideRows
          BY <2>1, <3>2, LegalOps DEF TypeOK
      <4>2. override' = [override EXCEPT ![ch.target].revision = @ + 1]
          BY <3>2 DEF Apply
      <4>3. row \in OverrideRows /\ override' = [override EXCEPT ![ch.target] = row]
          BY <2>1, <4>1, <4>2 DEF TypeOK, OverrideRows
      <4> QED
          BY <3>2, <4>3, LegalOps
    <3>3. CASE ch.op = "override.clear"
        BY <3>3 DEF Apply
    <3> QED
        BY <1>6, <3>1, <3>2, <3>3
  <2>3. override' \in [AdventureEntries -> OverrideRows \cup {Null}]
      BY <2>2 DEF TypeOK
  <2>4. \A s \in AdventureEntries : override'[s] # Null => override[s] # Null \/ Attached(s)
      BY <2>1, <2>2 DEF TypeOK
  <2>5. ch.target # "context" /\ (\A e \in Entries : ch.target # e) /\ context.revision \in Nat
      BY <1>2, <2>1 DEF TypeOK
  <2> QED
      BY <1>4, <2>1, <2>3, <2>4, <2>5 DEF TypeOK
<1>7. CASE ch.op \in {"context.update", "context.clear"}
  <2>1. entry' = entry /\ override' = override /\ ch.target = "context" /\ context' = NextContext(ch)
      BY <1>7 DEF Apply, Names
  <2>2. NextContext(ch).adventure # Null => Attached(NextContext(ch).adventure)
      BY <1>7, LegalOps
  <2> QED
      BY <1>3, <1>4, <2>1, <2>2, ContextTyped DEF TypeOK
<1> QED
    BY <1>5, <1>6, <1>7 DEF ChangeRows, Ops

\* a key that is recorded counts for its target
LEMMA RecordCounts ==
    ASSUME mutation \in [Keys -> MutationRows \cup {Null}], IsFiniteSet(Recorded),
           NEW k \in Keys, mutation[k] = Null, NEW row \in MutationRows, mutation' = [mutation EXCEPT ![k] = row]
    PROVE  /\ IsFiniteSet(Recorded)'
           /\ \A target : Effects(target) \in Nat /\ Effects(target)' = Effects(target) + (IF row.target = target THEN 1 ELSE 0)
<1>1. row # Null /\ \A x \in Keys : mutation'[x] = IF x = k THEN row ELSE mutation[x]
    BY WorldAssumption
<1>2. Recorded' = Recorded \cup {k}
    BY <1>1 DEF Recorded
<1>3. ASSUME NEW target
      PROVE  Effects(target) \in Nat /\ Effects(target)' = Effects(target) + (IF row.target = target THEN 1 ELSE 0)
  <2> DEFINE Of == {x \in Keys : mutation[x] # Null /\ mutation[x].target = target}
  <2>1. IsFiniteSet(Of) /\ k \notin Of
      BY FS_Subset DEF Recorded
  <2>2. Of' = Of \cup (IF row.target = target THEN {k} ELSE {})
      BY <1>1
  <2>3. Effects(target) = Cardinality(Of) /\ Effects(target)' = Cardinality(Of')
      BY DEF Effects
  <2>4. Cardinality(Of) \in Nat /\ Cardinality(Of \cup {k}) = Cardinality(Of) + 1
    <3> HIDE DEF Of
    <3> QED
        BY <2>1, FS_AddElement, FS_CardinalityType
  <2> HIDE DEF Of
  <2>5. CASE row.target = target
      BY <2>2, <2>3, <2>4, <2>5
  <2>6. CASE row.target # target
      BY <2>2, <2>3, <2>4, <2>6
  <2> QED
      BY <2>5, <2>6
<1> QED
    BY <1>2, <1>3, FS_AddElement

-----------------------------------------------------------------------------
(* Locks and calls. *)

\* holds after a lock is taken or a call ends
LEMMA TakeDoes ==
    ASSUME TypeOK, NEW c \in Requests, NEW row \in {"campaign", "session"}, NEW step, Take(c, row, step)
    PROVE  /\ holds[row] = Null
           /\ holds' \in [campaign : Requests \cup {Null}, session : Requests \cup {Null}]
           /\ holds'.campaign = IF row = "campaign" THEN c ELSE holds.campaign
           /\ holds'.session = IF row = "session" THEN c ELSE holds.session
BY DEF TypeOK, Take

LEMMA FinishDoes ==
    ASSUME TypeOK, NEW c \in Requests, Finish(c)
    PROVE  /\ holds' \in [campaign : Requests \cup {Null}, session : Requests \cup {Null}]
           /\ \A d \in Requests : d # c => /\ holds.campaign = d => holds'.campaign = d
                                           /\ holds.session = d => holds'.session = d
           /\ doing' = [doing EXCEPT ![c] = Null]
BY DEF TypeOK, Finish, Released

\* the lock steps leave the world alone and move the caller
LEMMA LockingDoes ==
    ASSUME TypeOK, NEW c \in Requests, Locking(c)
    PROVE  /\ UNCHANGED <<session, over, attached, worldVars>>
           /\ doing[c] # Null /\ doing[c] \in CallRows
           /\ \/ doing' = [doing EXCEPT ![c] = Null]
              \/ \E step \in Steps : doing' = [doing EXCEPT ![c] = [doing[c] EXCEPT !.step = step]]
           /\ holds' \in [campaign : Requests \cup {Null}, session : Requests \cup {Null}]
           /\ \A d \in Requests : d # c => /\ holds.campaign = d => holds'.campaign = d
                                           /\ holds.session = d => holds'.session = d
<1>1. doing[c] # Null /\ doing[c] \in CallRows
    BY DEF Locking, LockForManagement, LookUpKey, LockSessionRow, LockCampaignRow, LockForAction, LockActionSession, IsKind, TypeOK
<1>2. CASE LookUpKey(c)
  <2>1. /\ UNCHANGED <<session, over, attached, worldVars, holds>>
        /\ \/ doing' = [doing EXCEPT ![c] = Null]
           \/ doing' = [doing EXCEPT ![c] = [doing[c] EXCEPT !.step = "looked"]]
      BY <1>2 DEF LookUpKey
  <2> QED
      BY <1>1, <2>1 DEF TypeOK, Steps
<1>3. CASE \E row \in {"campaign", "session"}, step \in Steps : Take(c, row, step)
  <2>1. PICK row \in {"campaign", "session"}, step \in Steps : Take(c, row, step)
      BY <1>3
  <2>2. /\ UNCHANGED <<session, over, attached, worldVars>>
        /\ doing' = [doing EXCEPT ![c] = [doing[c] EXCEPT !.step = step]]
      BY <2>1 DEF Take
  <2>3. \A d \in Requests : d # Null
      BY WorldAssumption
  <2> QED
      BY <1>1, <2>1, <2>2, <2>3, TakeDoes
<1> QED
    BY <1>2, <1>3 DEF Locking, LockForManagement, ManagementGuard, LockSessionRow, LockCampaignRow, LockForAction,
                      LockActionSession, Steps

-----------------------------------------------------------------------------
(* The steps keep the invariant. *)

\* what a write leaves: nothing, or one change with its record
Effect(c) ==
    \/ UNCHANGED worldVars
    \/ doing[c].kind # "append" /\ doing[c].session \notin over /\ Changed(c)

LEMMA WriteDoes ==
    ASSUME TypeOK, NEW c \in Requests, Write(c)
    PROVE  /\ doing[c] # Null /\ doing[c] \in CallRows /\ doing[c].step = "locked"
           /\ Finish(c) /\ Effect(c) /\ UNCHANGED <<session, over, attached>>
BY DEF TypeOK, Write, NothingChanged, Effect

LEMMA ChangedDoes ==
    ASSUME TypeOK, LocksHeld, IsFiniteSet(Recorded), NEW c \in Requests, doing[c] # Null, Changed(c)
    PROVE  LET ch == doing[c].change
               k == doing[c].key
               row == [target |-> ch.target, id |-> ch.id, session |-> doing[c].session]
           IN /\ ch \in ChangeRows /\ Names(ch) /\ Legal(ch) /\ Apply(ch)
              /\ k \in Keys /\ mutation[k] = Null /\ row \in MutationRows
              /\ mutation' = [mutation EXCEPT ![k] = row]
              /\ events' = IF doing[c].session = Null THEN events ELSE events \cup {<<doing[c].session, k>>}
<1>1. doing[c] \in CallRows /\ Names(doing[c].change)
    BY DEF TypeOK, LocksHeld, Asked
<1> QED
    BY <1>1 DEF Changed, Record, CallRows, ChangeRows, MutationRows

LEMMA TypeStep ==
    ASSUME TypeOK, LocksHeld, IsFiniteSet(Recorded), [WorldNext]_campaignVars
    PROVE  TypeOK'
<1>1. CASE UNCHANGED campaignVars
    BY <1>1 DEF campaignVars, worldVars, TypeOK
<1>2. CASE EndSession \/ \E n \in Sessions : Start(n)
    BY <1>2, WorldAssumption DEF EndSession, Start, worldVars, TypeOK
<1>3. CASE \E a \in Adventures : Attach(a) \/ Detach(a)
    BY <1>3 DEF Attach, Detach, worldVars, TypeOK
<1>4. ASSUME NEW c \in Requests, NEW kind \in Kinds, NEW k \in Keys, NEW ch \in Changes, Ask(c, kind, k, ch) PROVE TypeOK'
  <2> DEFINE call == [kind |-> kind, key |-> k, change |-> ch,
                      session |-> IF kind = "management" THEN Null ELSE session, step |-> "asked"]
  <2>1. call \in CallRows
      BY ChangesTyped DEF CallRows, TypeOK, Steps
  <2>2. doing' = [doing EXCEPT ![c] = call]
      BY <1>4 DEF Ask
  <2> HIDE DEF call
  <2>3. doing' \in [Requests -> CallRows \cup {Null}]
      BY <2>1, <2>2 DEF TypeOK
  <2> QED
      BY <1>4, <2>3 DEF Ask, worldVars, TypeOK
<1>5. ASSUME NEW c \in Requests, Locking(c) PROVE TypeOK'
  <2>1. doing' \in [Requests -> CallRows \cup {Null}]
    <3>1. \A step \in Steps : [doing[c] EXCEPT !.step = step] \in CallRows
        BY <1>5, LockingDoes DEF CallRows
    <3> QED
        BY <1>5, <3>1, LockingDoes DEF TypeOK
  <2> QED
      BY <1>5, <2>1, LockingDoes DEF worldVars, TypeOK
<1>6. ASSUME NEW c \in Requests, Abort(c) \/ (Write(c) /\ UNCHANGED worldVars) PROVE TypeOK'
  <2>1. Finish(c) /\ UNCHANGED <<session, over, attached, worldVars>>
      BY <1>6, WriteDoes DEF Abort
  <2>2. doing' \in [Requests -> CallRows \cup {Null}] /\ holds' \in [campaign : Requests \cup {Null}, session : Requests \cup {Null}]
      BY <2>1, FinishDoes DEF TypeOK
  <2> QED
      BY <2>1, <2>2 DEF worldVars, TypeOK
<1>7. ASSUME NEW c \in Requests, Write(c), Changed(c) PROVE TypeOK'
  <2>1. doing[c] # Null /\ doing[c] \in CallRows /\ Finish(c) /\ UNCHANGED <<session, over, attached>>
      BY <1>7, WriteDoes
  <2>2. doing' \in [Requests -> CallRows \cup {Null}] /\ holds' \in [campaign : Requests \cup {Null}, session : Requests \cup {Null}]
      BY <2>1, FinishDoes DEF TypeOK
  <2>3. PICK ch \in ChangeRows, k \in Keys, row \in MutationRows :
           /\ Names(ch) /\ Legal(ch) /\ Apply(ch)
           /\ mutation' = [mutation EXCEPT ![k] = row]
           /\ events' = IF doing[c].session = Null THEN events ELSE events \cup {<<doing[c].session, k>>}
      BY <1>7, <2>1, ChangedDoes
  <2>4. mutation' \in [Keys -> MutationRows \cup {Null}] /\ events' \subseteq Sessions \X Keys
      BY <2>1, <2>3 DEF TypeOK, CallRows
  <2>5. /\ entry' \in [Entries -> EntryRows \cup {Null}]
        /\ override' \in [AdventureEntries -> OverrideRows \cup {Null}]
        /\ context' \in [adventure : AdventureEntries \cup {Null}, runtime : SceneEntries \cup {Null}, revision : Nat]
      BY <2>3, ApplyDoes
  <2> QED
      BY <2>1, <2>2, <2>4, <2>5 DEF TypeOK
<1> QED
    BY <1>1, <1>2, <1>3, <1>4, <1>5, <1>6, <1>7, WriteDoes DEF WorldNext, Effect

LEMMA LocksHeldStep ==
    ASSUME TypeOK, LocksHeld, [WorldNext]_campaignVars
    PROVE  LocksHeld'
<1>1. CASE UNCHANGED <<session, over, holds, doing>>
    BY <1>1 DEF LocksHeld, Asked, Names, Locks
<1>2. ASSUME NEW d \in Requests, doing[d] # Null, doing'[d] = doing[d], UNCHANGED <<session, over>>,
             holds.campaign = d => holds'.campaign = d, holds.session = d => holds'.session = d
      PROVE  Asked(doing'[d]) /\ Locks(d)'
    BY <1>2 DEF LocksHeld, Asked, Names, Locks
<1>3. ASSUME NEW n \in Sessions, Start(n) PROVE LocksHeld'
  <2> SUFFICES ASSUME NEW d \in Requests, doing[d] # Null PROVE Asked(doing[d])' /\ Locks(d)'
      BY <1>3 DEF Start, LocksHeld
  <2>1. doing' = doing /\ holds' = holds /\ over' = over /\ holds.campaign = Null /\ session = Null
      BY <1>3 DEF Start
  <2>2. d # Null /\ doing[d] \in CallRows /\ Asked(doing[d]) /\ Locks(d)
      BY WorldAssumption DEF TypeOK, LocksHeld
  <2> QED
      BY <2>1, <2>2, WorldAssumption DEF Asked, Names, Locks, CallRows
<1>4. CASE EndSession
  <2> SUFFICES ASSUME NEW d \in Requests, doing[d] # Null PROVE Asked(doing[d])' /\ Locks(d)'
      BY <1>4 DEF EndSession, LocksHeld
  <2>1. doing' = doing /\ holds' = holds /\ over' = over \cup {session} /\ holds.session = Null /\ session' = Null
      BY <1>4 DEF EndSession
  <2>2. d # Null /\ doing[d] \in CallRows /\ Asked(doing[d]) /\ Locks(d)
      BY WorldAssumption DEF TypeOK, LocksHeld
  <2> QED
      BY <2>1, <2>2 DEF Asked, Names, Locks, CallRows
<1>5. ASSUME NEW c \in Requests, NEW kind \in Kinds, NEW k \in Keys, NEW ch \in Changes, Ask(c, kind, k, ch) PROVE LocksHeld'
  <2> DEFINE call == [kind |-> kind, key |-> k, change |-> ch,
                      session |-> IF kind = "management" THEN Null ELSE session, step |-> "asked"]
  <2>1. doing' = [doing EXCEPT ![c] = call] /\ UNCHANGED <<session, over, holds>>
      BY <1>5 DEF Ask
  <2>2. doing'[c] = call /\ \A d \in Requests : d # c => doing'[d] = doing[d]
      BY <2>1 DEF TypeOK
  <2>3. kind # "management" => session # Null
      BY <1>5 DEF Ask
  <2>4. Asked(doing'[c])
      BY <2>2, <2>3, ChangesTyped DEF Asked, Names
  <2>5. Locks(c)'
      BY <2>2 DEF Locks
  <2> QED
      BY <1>2, <2>1, <2>2, <2>4, <2>5 DEF LocksHeld
<1>6. ASSUME NEW c \in Requests, Locking(c) PROVE LocksHeld'
  <2>1. /\ UNCHANGED <<session, over>> /\ doing[c] # Null /\ doing[c] \in CallRows
        /\ \A d \in Requests : d # c => /\ doing'[d] = doing[d]
                                        /\ holds.campaign = d => holds'.campaign = d
                                        /\ holds.session = d => holds'.session = d
      BY <1>6, LockingDoes DEF TypeOK
  <2>2. Asked(doing[c]) /\ Locks(c)
      BY <2>1 DEF LocksHeld
  <2>3. ASSUME NEW row \in {"campaign", "session"}, NEW step \in Steps, Take(c, row, step)
        PROVE  /\ doing'[c] = [doing[c] EXCEPT !.step = step]
               /\ doing'[c].kind = doing[c].kind /\ doing'[c].session = doing[c].session /\ doing'[c].step = step
               /\ Asked(doing'[c])
               /\ holds'.campaign = IF row = "campaign" THEN c ELSE holds.campaign
               /\ holds'.session = IF row = "session" THEN c ELSE holds.session
    <3>1. doing'[c] = [doing[c] EXCEPT !.step = step]
        BY <2>3 DEF Take, TypeOK
    <3>2. /\ doing'[c].kind = doing[c].kind /\ doing'[c].session = doing[c].session /\ doing'[c].step = step
          /\ doing'[c].change = doing[c].change
        BY <2>1, <3>1 DEF CallRows
    <3> QED
        BY <2>2, <2>3, <3>1, <3>2, TakeDoes DEF Asked, Names
  <2>4. doing'[c] # Null => Asked(doing'[c]) /\ Locks(c)'
    <3>1. CASE LockForManagement(c)
        BY <2>1, <2>2, <2>3, <3>1 DEF LockForManagement, ManagementGuard, IsKind, Locks, Steps
    <3>2. CASE LookUpKey(c)
      <4>1. doing[c].kind = "active" /\ holds' = holds
          BY <3>2 DEF LookUpKey, IsKind
      <4>2. doing'[c] # Null => doing'[c] = [doing[c] EXCEPT !.step = "looked"]
          BY <3>2 DEF LookUpKey, TypeOK
      <4>3. ASSUME doing'[c] # Null
            PROVE  /\ doing'[c].kind = doing[c].kind /\ doing'[c].session = doing[c].session /\ doing'[c].step = "looked"
                   /\ doing'[c].change = doing[c].change
          BY <2>1, <4>2, <4>3 DEF CallRows
      <4> QED
          BY <2>1, <2>2, <4>1, <4>3 DEF Asked, Names, Locks
    <3>3. CASE LockSessionRow(c)
        BY <2>1, <2>2, <2>3, <3>3 DEF LockSessionRow, IsKind, Locks, Steps
    <3>4. CASE LockCampaignRow(c)
        BY <2>1, <2>2, <2>3, <3>4 DEF LockCampaignRow, IsKind, Locks, Steps
    <3>5. CASE LockForAction(c)
        BY <2>1, <2>2, <2>3, <3>5 DEF LockForAction, IsKind, Locks, Steps
    <3>6. CASE LockActionSession(c)
        BY <2>1, <2>2, <2>3, <3>6 DEF LockActionSession, IsKind, Locks, Steps
    <3> QED
        BY <1>6, <3>1, <3>2, <3>3, <3>4, <3>5, <3>6 DEF Locking
  <2> QED
      BY <1>2, <2>1, <2>4 DEF LocksHeld
<1>7. ASSUME NEW c \in Requests, Finish(c), UNCHANGED <<session, over>> PROVE LocksHeld'
  <2>1. /\ doing'[c] = Null
        /\ \A d \in Requests : d # c => /\ doing'[d] = doing[d]
                                        /\ holds.campaign = d => holds'.campaign = d
                                        /\ holds.session = d => holds'.session = d
      BY <1>7, FinishDoes DEF TypeOK
  <2>2. ASSUME NEW d \in Requests, doing'[d] # Null PROVE Asked(doing'[d]) /\ Locks(d)'
    <3>1. d # c /\ doing'[d] = doing[d]
        BY <2>1, <2>2
    <3> QED
        BY <1>2, <1>7, <2>1, <2>2, <3>1
  <2> QED
      BY <2>2 DEF LocksHeld
<1> QED
    BY <1>1, <1>3, <1>4, <1>5, <1>6, <1>7, WriteDoes DEF WorldNext, campaignVars, Attach, Detach, Abort

LEMMA WorldStep ==
    ASSUME TypeOK, LocksHeld, IsFiniteSet(Recorded), WorldIsWhole, [WorldNext]_campaignVars
    PROVE  IsFiniteSet(Recorded)' /\ WorldIsWhole'
<1>1. CASE UNCHANGED <<attached, worldVars>>
    BY <1>1 DEF worldVars, Recorded, WorldIsWhole, OverridesAreAttached, Attached, OneEffectPerKey, Effects
<1>2. ASSUME NEW a \in Adventures, Attach(a) PROVE IsFiniteSet(Recorded)' /\ WorldIsWhole'
    BY <1>2 DEF Attach, worldVars, Recorded, WorldIsWhole, OverridesAreAttached, Attached, OneEffectPerKey, Effects
<1>3. ASSUME NEW a \in Adventures, Detach(a) PROVE IsFiniteSet(Recorded)' /\ WorldIsWhole'
    BY <1>3 DEF Detach, InUse, worldVars, Recorded, WorldIsWhole, OverridesAreAttached, Attached, OneEffectPerKey, Effects
<1>4. ASSUME NEW c \in Requests, Write(c), Changed(c), doing[c].session \notin over
      PROVE  IsFiniteSet(Recorded)' /\ WorldIsWhole'
  <2>1. doing[c] # Null /\ doing[c] \in CallRows /\ UNCHANGED <<session, over, attached>>
      BY <1>4, WriteDoes
  <2>2. PICK ch \in ChangeRows, k \in Keys, row \in MutationRows :
           /\ Names(ch) /\ Legal(ch) /\ Apply(ch)
           /\ mutation[k] = Null /\ mutation' = [mutation EXCEPT ![k] = row]
           /\ row.target = ch.target /\ row.session = doing[c].session
           /\ events' = IF doing[c].session = Null THEN events ELSE events \cup {<<doing[c].session, k>>}
      BY <1>4, <2>1, ChangedDoes
  <2>3. /\ IsFiniteSet(Recorded)'
        /\ \A target : Effects(target) \in Nat /\ Effects(target)' = Effects(target) + (IF ch.target = target THEN 1 ELSE 0)
      BY <2>2, RecordCounts DEF TypeOK
  <2>4. /\ \A e \in Entries : Revision(e)' = Revision(e) + (IF ch.target = e THEN 1 ELSE 0)
        /\ context'.revision = context.revision + (IF ch.target = "context" THEN 1 ELSE 0)
        /\ \A s \in AdventureEntries : override'[s] # Null => override[s] # Null \/ Attached(s)
        /\ context'.adventure # Null => context'.adventure = context.adventure \/ Attached(context'.adventure)
      BY <2>2, ApplyDoes
  <2>5. OverridesAreAttached'
      BY <2>1, <2>4 DEF WorldIsWhole, OverridesAreAttached, Attached
  <2>6. /\ \A e \in Entries : Effects(e)' = Revision(e)'
        /\ Effects("context")' = context'.revision
      BY <2>3, <2>4 DEF WorldIsWhole, OneEffectPerKey, Revision
  <2>7. row # Null /\ \A x \in Keys : mutation'[x] = IF x = k THEN row ELSE mutation[x]
      BY <2>2, WorldAssumption DEF TypeOK
  <2>8. /\ \A x \in Keys : mutation'[x] # Null /\ mutation'[x].session # Null => <<mutation'[x].session, x>> \in events'
        /\ \A x \in events' : mutation'[x[2]] # Null /\ mutation'[x[2]].session = x[1]
    <3>1. \A x \in events : x[2] \in Keys /\ x[2] # k
        BY <2>2 DEF TypeOK, WorldIsWhole, OneEffectPerKey
    <3> QED
        BY <2>2, <2>7, <3>1 DEF WorldIsWhole, OneEffectPerKey
  <2> QED
      BY <2>3, <2>5, <2>6, <2>8 DEF WorldIsWhole, OneEffectPerKey, Revision
<1> QED
    BY <1>1, <1>2, <1>3, <1>4, WriteDoes, LockingDoes DEF WorldNext, campaignVars, Effect, worldVars, Abort, EndSession, Start, Ask

-----------------------------------------------------------------------------
LEMMA InitInv == ASSUME WorldInit PROVE IInv
<1>1. TypeOK
    BY DEF WorldInit, TypeOK
<1>2. LocksHeld
    BY DEF WorldInit, LocksHeld
<1>3. Recorded = {}
    BY DEF WorldInit, Recorded
<1>4. \A target : Effects(target) = 0
  <2>1. ASSUME NEW target PROVE {k \in Keys : mutation[k] # Null /\ mutation[k].target = target} = {}
      BY DEF WorldInit
  <2> QED
      BY <2>1, FS_EmptySet DEF Effects
<1>5. WorldIsWhole
    BY <1>4 DEF WorldInit, WorldIsWhole, OverridesAreAttached, OneEffectPerKey
<1> QED
    BY <1>1, <1>2, <1>3, <1>5, FS_EmptySet DEF IInv

LEMMA NextInv == ASSUME IInv, [WorldNext]_campaignVars PROVE IInv'
BY TypeStep, LocksHeldStep, WorldStep DEF IInv

LEMMA SpecInv == WorldSpec => []IInv
BY InitInv, NextInv, PTL DEF WorldSpec

-----------------------------------------------------------------------------
(* The theorems. *)

\* The rows of a Campaign's world, its row locks and the calls at work keep their
\* types, and a call that has locked its rows has what they keep in place.
THEOREM WorldTypes == WorldSpec => [](TypeOK /\ LocksHeld)
BY SpecInv, PTL DEF IInv

\* An override and the current scene belong to an attached Adventure, and a key
\* takes effect once and with its Session's event, through whatever door and in
\* whatever Session it is repeated (domain/campaign_runtime).
THEOREM WorldStaysWhole == WorldSpec => []WorldIsWhole
BY SpecInv, PTL DEF IInv

\* No change a manager began before a Start comes through after it, and no change
\* of a Session after its end: the locks are taken before the guards are read
\* (domain/campaign_runtime/service.py).
THEOREM ManagersWaitForTheEnd == WorldSpec => ManagedBetweenSessions
<1>1. IInv /\ [WorldNext]_campaignVars =>
         [\A k \in Keys : mutation[k] = Null /\ mutation'[k] # Null => mutation'[k].session = session]_campaignVars
  <2> SUFFICES ASSUME IInv, [WorldNext]_campaignVars, NEW k \in Keys, mutation[k] = Null, mutation'[k] # Null
               PROVE  mutation'[k].session = session
      OBVIOUS
  <2>1. TypeOK /\ LocksHeld /\ IsFiniteSet(Recorded)
      BY DEF IInv
  <2>2. PICK c \in Requests : Write(c) /\ doing[c].kind # "append" /\ doing[c].session \notin over /\ Changed(c)
      BY <2>1, WriteDoes, LockingDoes DEF WorldNext, campaignVars, Effect, worldVars, Abort, EndSession, Start, Ask, Attach, Detach
  <2>3. doing[c] # Null /\ doing[c] \in CallRows /\ doing[c].step = "locked" /\ Asked(doing[c]) /\ Locks(c)
      BY <2>1, <2>2, WriteDoes DEF LocksHeld
  <2>4. doing[c].session = session
      BY <2>2, <2>3 DEF Asked, Locks, CallRows, Kinds
  <2>5. PICK j \in Keys, row \in MutationRows :
           mutation' = [mutation EXCEPT ![j] = row] /\ row.session = doing[c].session
      BY <2>1, <2>2, <2>3, ChangedDoes
  <2> QED
      BY <2>1, <2>4, <2>5 DEF TypeOK
<1>2. WorldSpec => [][WorldNext]_campaignVars
    BY DEF WorldSpec
<1> QED
    BY <1>1, <1>2, SpecInv, PTL DEF ManagedBetweenSessions
=============================================================================
