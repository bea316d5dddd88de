---------------------------- MODULE CharacterProofs ----------------------------
(***************************************************************************)
(* Theorems about Characters, their versions, States and drafts, for any   *)
(* number of Characters, drafts, calls and fields and any bounds.          *)
(*                                                                         *)
(* IInv is inductive: what a call names exists (CallsNamed), what it has   *)
(* read is stale or still so (StateInv), the versions of a Character are   *)
(* one chain (Chain), a Confirm compiles what it keeps (Compiled) and on   *)
(* the Web once (Once), because of the row locks it holds (LocksHeld).     *)
(***************************************************************************)
EXTENDS CharacterVersions, FiniteSetTheorems, TLAPS

VersionIds == 0..MaxVersions
Ops == {"none", "patch", "table", "edit", "cancel", "confirm", "delete"}
Steps == {"idle", "lock", "read", "write", "draft", "create", "rows", "commit", "states"}
States == [Fields -> Calls \cup {None}]
VersionRecords ==
    [is : {"unused", "kept", "gone"}, char : Characters \cup {None}, parent : VersionIds,
     from : Drafts \cup {None}, build : Nat, kept : Nat, super : VersionIds]
DraftRecords ==
    [mode : Modes \cup {"none", "gone"}, char : Characters \cup {None}, base : VersionIds,
     rev : Nat, to : VersionIds]
CallRecords ==
    [op : Ops, at : Steps, c : Characters \cup {None}, d : Drafts \cup {None},
     f : Fields \cup {None}, pin : VersionIds, rev : Nat, seen : States,
     build : Nat, kept : Nat, tries : Nat]

RowsTyped ==
    /\ status \in [Characters -> {"none", "active", "archived", "deleted"}]
    /\ played \in [Characters -> {"no", "leased", "past"}]
    /\ current \in [Characters -> VersionIds]
    /\ version \in [Versions -> VersionRecords]
    /\ state \in [Characters -> States]
    /\ revision \in [Characters -> Nat]
    /\ validFor \in [Characters -> VersionIds]
    /\ draft \in [Drafts -> DraftRecords]

TypeOK ==
    /\ web \in BOOLEAN
    /\ RowsTyped
    /\ locks \in [Rows -> Calls \cup {None}]
    /\ call \in [Calls -> CallRecords]
    /\ intended \in [Characters -> States]

-----------------------------------------------------------------------------
\* the Character, the draft and the field a request names, and where it can be
DraftOps == {"edit", "cancel", "confirm"}
Exists(c) == status[c] \in {"active", "archived"}
Confirming(k) == call[k].op = "confirm" /\ call[k].at \in {"create", "rows", "commit"}

Named(k) ==
    /\ call[k].op = "none" => call[k] = Idle
    /\ call[k].op \in {"patch", "table"} =>
          /\ call[k].c \in Characters /\ call[k].f \in Fields
          /\ call[k].at \in {"lock", "read", "write"}
    /\ call[k].op = "delete" =>
          call[k].c \in Characters /\ call[k].at \in {"read", "states", "rows"}
    /\ call[k].op \in DraftOps =>
          /\ call[k].d \in Drafts /\ draft[call[k].d].mode # "none"
          /\ draft[call[k].d].mode \in Modes => draft[call[k].d].char = call[k].c
          /\ call[k].at \in {"lock", "read"} \/ (call[k].op = "confirm" /\ call[k].at \in {"draft", "create", "rows", "commit"})
          /\ call[k].at \in {"lock", "rows", "commit"} => call[k].c \in Characters

DraftWhole(d) ==
    /\ draft[d].mode = "create" => draft[d].char = None
    /\ draft[d].mode \in Modes \ {"create"} => draft[d].char \in Characters
    /\ draft[d].mode \notin Modes => draft[d].char = None /\ draft[d].to = None

CallsNamed == (\A k \in Calls : Named(k)) /\ (\A d \in Drafts : DraftWhole(d))

\* what a call has read of the Character, if its row is as it was
Snapshot(k) ==
    call[k].at \in {"write", "commit"} =>
        LET c == call[k].c
        IN /\ status[c] # "none" /\ call[k].rev <= revision[c]
           /\ call[k].rev = revision[c] =>
                 /\ call[k].seen = state[c]
                 /\ call[k].at = "commit" /\ status[c] # "deleted" => call[k].pin = current[c]

StateInv ==
    /\ \A k \in Calls : Snapshot(k)
    /\ \A c \in Characters : state[c] = intended[c] /\ validFor[c] = current[c]

Kept(v) == version[v].is = "kept"
UnkeptIsBlank ==
    \A v \in Versions : ~Kept(v) =>
        version[v].char = None /\ version[v].parent = None /\ version[v].from = None /\ version[v].super = None
OwnerExists == \A v \in Versions : Kept(v) => version[v].char \in Characters /\ Exists(version[v].char)
CurrentIsKept ==
    \A c \in Characters : Exists(c) =>
        current[c] \in Versions /\ Kept(current[c]) /\ version[current[c]].char = c
ParentIsKept ==
    \A v \in Versions : Kept(v) /\ version[v].parent # None =>
        /\ version[v].parent \in Versions /\ Kept(version[v].parent)
        /\ version[version[v].parent].char = version[v].char
        /\ current[version[v].char] # version[v].parent
OneChild ==
    \A v, w \in Versions :
        Kept(v) /\ Kept(w) /\ version[v].parent # None /\ version[v].parent = version[w].parent => v = w
HasAChild ==
    \A v \in Versions : Kept(v) /\ current[version[v].char] # v =>
        \E w \in Versions : Kept(w) /\ version[w].parent = v
SupersededByChild ==
    \A v \in Versions : Kept(v) /\ version[v].super # None =>
        version[v].super \in Versions /\ Kept(version[v].super) /\ version[version[v].super].parent = v

Chain ==
    /\ UnkeptIsBlank /\ OwnerExists /\ CurrentIsKept /\ ParentIsKept
    /\ OneChild /\ HasAChild /\ SupersededByChild

Compiled ==
    /\ \A k \in Calls : Confirming(k) => call[k].build = call[k].kept
    /\ ConfirmedAsCompiled

\* a Confirm that has locked its draft holds an open one
OnceCalls ==
    \A k \in Calls : Confirming(k) =>
        /\ locks[DraftRow(call[k].d)] = k
        /\ Open(call[k].d)
        /\ call[k].at = "create" <=> draft[call[k].d].mode = "create"

\* a draft that was confirmed names its version
OnceVersions ==
    \A v \in Versions : Kept(v) /\ version[v].from # None =>
        LET d == version[v].from
        IN /\ draft[d].mode \in Modes /\ draft[d].to = v
           /\ draft[d].mode # "create" => draft[d].char = version[v].char

Once == web => OnceCalls /\ OnceVersions

\* the rows a call may have locked
MayHold(k, r) ==
    \/ /\ r = CharRow(call[k].c)
       /\ \/ call[k].op = "patch" /\ call[k].at \in {"read", "write"}
          \/ call[k].op \in {"edit", "cancel"} /\ call[k].at = "read"
          \/ call[k].op = "confirm" /\ call[k].at \in {"read", "draft", "create", "rows", "commit"}
    \/ r = SessionRow /\ call[k].op = "table" /\ call[k].at \in {"read", "write"}
    \/ r = DraftRow(call[k].d) /\ Confirming(k)
    \/ r = StateRow(call[k].c) /\ At(k, "confirm", "commit")
    \/ r = StateRow(call[k].c) /\ At(k, "delete", "rows")

LocksHeld ==
    /\ ~web => \A r \in Rows : locks[r] = None
    /\ \A k \in Calls, r \in Rows : locks[r] = k => MayHold(k, r)
    /\ \A k \in Calls :
          web /\ call[k].op = "confirm" /\ call[k].at # "lock" /\ call[k].c \in Characters
              => locks[CharRow(call[k].c)] = k

IInv == TypeOK /\ CallsNamed /\ StateInv /\ Chain /\ Compiled /\ Once /\ LocksHeld
-----------------------------------------------------------------------------
LEMMA NoneApart ==
    /\ None \notin Characters /\ None \notin Drafts /\ None \notin Calls
    /\ None \in VersionIds /\ Versions \subseteq VersionIds \ {None}
    /\ MaxVersions \in Nat /\ MaxAttempts \in Nat
BY CharactersAssumption DEF None, VersionIds, Versions

LEMMA InitTyped == Init => TypeOK
<1> SUFFICES ASSUME Init PROVE TypeOK
    OBVIOUS
<1> USE NoneApart
<1>1. Fresh \in States
    BY DEF Fresh, States
<1>2. NoVersion \in VersionRecords
    BY DEF NoVersion, VersionRecords
<1>3. NoDraft \in DraftRecords
    BY DEF NoDraft, DraftRecords
<1>4. Idle \in CallRecords
    BY <1>1 DEF Idle, CallRecords, Ops, Steps
<1>5. web \in BOOLEAN /\ locks \in [Rows -> Calls \cup {None}]
    BY DEF Init, InitWith
<1>6. call \in [Calls -> CallRecords] /\ intended \in [Characters -> States]
    BY <1>1, <1>4 DEF Init, InitWith
<1>7. RowsTyped
    BY <1>1, <1>2, <1>3 DEF Init, InitWith, RowsTyped
<1> QED
    BY <1>5, <1>6, <1>7 DEF TypeOK


-----------------------------------------------------------------------------
\* call k is answered, and the rows it had locked are free
Ended(k) ==
    /\ call' \in [Calls -> CallRecords] /\ call'[k] = Idle
    /\ \A j \in Calls : j # k => call'[j] = call[j]
    /\ locks' \in [Rows -> Calls \cup {None}]
    /\ \A r \in Rows : locks'[r] = IF locks[r] = k THEN None ELSE locks[r]

\* call k goes on: r is what it now knows
Advanced(k, r) ==
    /\ call' \in [Calls -> CallRecords] /\ call'[k] = r
    /\ r.op = call[k].op /\ r.c = call[k].c /\ r.d = call[k].d
    /\ \A j \in Calls : j # k => call'[j] = call[j]

Locked(k, x) ==
    /\ locks' \in [Rows -> Calls \cup {None}]
    /\ locks[x] \in {None, k}
    /\ locks'[x] = IF web THEN k ELSE locks[x]
    /\ \A r \in Rows : r # x => locks'[r] = locks[r]

LEMMA IdleIs ==
    /\ Idle \in CallRecords /\ Idle.op = "none" /\ Idle.at = "idle"
    /\ Idle.c = None /\ Idle.d = None
BY NoneApart DEF Idle, CallRecords, Ops, Steps, Fresh, States

LEMMA EndEnds ==
    ASSUME TypeOK, NEW k \in Calls, End(k)
    PROVE  Ended(k)
<1>1. call' = [call EXCEPT ![k] = Idle] /\ call \in [Calls -> CallRecords]
    BY DEF End, TypeOK
<1>2. /\ call' \in [Calls -> CallRecords] /\ call'[k] = Idle
      /\ \A j \in Calls : j # k => call'[j] = call[j]
    BY <1>1, IdleIs
<1>3. locks' = [r \in Rows |-> IF locks[r] = k THEN None ELSE locks[r]]
    BY DEF End
<1>4. locks' \in [Rows -> Calls \cup {None}]
    BY <1>3 DEF TypeOK
<1> QED
    BY <1>2, <1>3, <1>4 DEF Ended

LEMMA AdvanceAdvances ==
    ASSUME TypeOK, NEW k \in Calls, NEW r \in CallRecords, call' = [call EXCEPT ![k] = r],
           r.op = call[k].op, r.c = call[k].c, r.d = call[k].d
    PROVE  Advanced(k, r)
BY DEF Advanced, TypeOK

LEMMA LockLocks ==
    ASSUME TypeOK, NEW k \in Calls, NEW x \in Rows, Lock(k, x)
    PROVE  Locked(k, x)
BY DEF Locked, Lock, Free, TypeOK

\* a step that leaves the rows alone
Goes(k, r) == r \in CallRecords /\ Advanced(k, r) /\ UNCHANGED <<rows, intended>>
Knows(k, r) == r.build = call[k].build /\ r.kept = call[k].kept
Refused(k) == Ended(k) /\ UNCHANGED <<rows, intended>>

\* the steps of a call that is neither answered nor writes
Scoped(k, r) ==
    /\ call[k].at = "lock" /\ r.at = "read" /\ Goes(k, r) /\ r.f = call[k].f
    /\ \E x \in Rows :
          /\ Locked(k, x)
          /\ \/ call[k].op = "table" /\ x = SessionRow
             \/ call[k].op \in DraftOps \cup {"patch"} /\ x = CharRow(call[k].c)

HasRead(k, r) ==
    /\ IsStateWrite(k) /\ call[k].at = "read" /\ r.at = "write" /\ Goes(k, r) /\ r.f = call[k].f
    /\ r.rev = revision[r.c] /\ r.seen = state[r.c] /\ status[r.c] = "active"
    /\ UNCHANGED locks

ReadsAgain(k, r) ==
    /\ ~web /\ Goes(k, r) /\ Knows(k, r) /\ r.f = call[k].f /\ UNCHANGED locks
    /\ \/ IsStateWrite(k) /\ call[k].at = "write" /\ r.at = "read"
       \/ call[k].op = "confirm" /\ call[k].at = "commit" /\ r.at = "draft"

Compiles(k, r) ==
    /\ At(k, "confirm", "read") /\ r.at = "draft" /\ Goes(k, r) /\ UNCHANGED locks

LocksDraft(k, r) ==
    /\ At(k, "confirm", "draft") /\ Goes(k, r) /\ Locked(k, DraftRow(call[k].d))
    /\ Open(call[k].d) /\ r.build = r.kept
    /\ r.at = IF draft[call[k].d].mode = "create" THEN "create" ELSE "rows"

LocksRows(k, r) ==
    /\ At(k, "confirm", "rows") /\ r.at = "commit" /\ Goes(k, r) /\ Knows(k, r)
    /\ status[r.c] = "active" /\ r.pin = current[r.c] /\ r.rev = revision[r.c] /\ r.seen = state[r.c]
    /\ locks' \in [Rows -> Calls \cup {None}]
    /\ \A x \in {CharRow(r.c), StateRow(r.c)} : locks[x] \in {None, k} /\ locks'[x] = IF web THEN k ELSE locks[x]
    /\ \A x \in Rows \ {CharRow(r.c), StateRow(r.c)} : locks'[x] = locks[x]

ToDelete(k, r) ==
    /\ At(k, "delete", "read") /\ r.at = (IF web THEN "states" ELSE "rows") /\ Goes(k, r) /\ UNCHANGED locks

LocksState(k, r) ==
    /\ At(k, "delete", "states") /\ r.at = "rows" /\ Goes(k, r) /\ Locked(k, StateRow(r.c))

Onward(k, r) ==
    \/ Scoped(k, r) \/ HasRead(k, r) \/ ReadsAgain(k, r) \/ Compiles(k, r)
    \/ LocksDraft(k, r) \/ LocksRows(k, r) \/ ToDelete(k, r) \/ LocksState(k, r)

LEMMA CallTyped ==
    ASSUME TypeOK, NEW k \in Calls
    PROVE  /\ call[k] \in CallRecords /\ locks \in [Rows -> Calls \cup {None}]
           /\ call[k].op \in Ops /\ call[k].at \in Steps /\ call[k].c \in Characters \cup {None}
           /\ call[k].d \in Drafts \cup {None} /\ call[k].pin \in VersionIds
           /\ call[k].rev \in Nat /\ call[k].seen \in States /\ call[k].build \in Nat
           /\ call[k].kept \in Nat /\ call[k].tries \in Nat
<1>1. call[k] \in CallRecords /\ locks \in [Rows -> Calls \cup {None}]
    BY DEF TypeOK
<1> QED
    BY <1>1 DEF CallRecords

LEMMA RowsAre ==
    /\ \A c \in Characters : CharRow(c) \in Rows /\ StateRow(c) \in Rows
    /\ \A d \in Drafts : DraftRow(d) \in Rows
    /\ SessionRow \in Rows
BY DEF Rows

LEMMA RowsApart ==
    /\ \A c, e : CharRow(c) = CharRow(e) => c = e
    /\ \A c, e : StateRow(c) = StateRow(e) => c = e
    /\ \A c, e : DraftRow(c) = DraftRow(e) => c = e
    /\ \A c, e : CharRow(c) # StateRow(e) /\ CharRow(c) # DraftRow(e) /\ StateRow(c) # DraftRow(e)
    /\ \A c : SessionRow # CharRow(c) /\ SessionRow # StateRow(c) /\ SessionRow # DraftRow(c)
BY DEF CharRow, StateRow, DraftRow, SessionRow

LEMMA RefuseRefuses ==
    ASSUME TypeOK, NEW k \in Calls, Refuse(k)
    PROVE  Refused(k)
BY EndEnds DEF Refuse, Refused

LEMMA GotoGoes ==
    ASSUME TypeOK, NEW k \in Calls, NEW step \in Steps, Goto(k, step), UNCHANGED <<rows, intended>>
    PROVE  \E r : /\ Goes(k, r) /\ r.at = step /\ Knows(k, r) /\ r.f = call[k].f
                  /\ r.op = call[k].op /\ r.c = call[k].c /\ r.d = call[k].d
<1> DEFINE r == [call[k] EXCEPT !.at = step]
<1>1. /\ r \in CallRecords /\ r.op = call[k].op /\ r.c = call[k].c /\ r.d = call[k].d
      /\ r.at = step /\ r.f = call[k].f /\ r.build = call[k].build /\ r.kept = call[k].kept
    BY CallTyped DEF CallRecords
<1>2. call' = [call EXCEPT ![k] = r]
    BY DEF Goto
<1>3. Advanced(k, r)
    BY <1>1, <1>2, AdvanceAdvances
<1> QED
    BY <1>1, <1>3 DEF Goes, Knows

LEMMA ScopeDoes ==
    ASSUME TypeOK, NEW k \in Calls, Named(k), PatchLock(k) \/ TableLock(k) \/ DraftScope(k)
    PROVE  Refused(k) \/ \E r : Scoped(k, r)
<1> "read" \in Steps
    BY DEF Steps
<1>1. CASE Refuse(k)
    BY <1>1, RefuseRefuses
<1>2. CASE ~Refuse(k)
  <2>1. /\ Goto(k, "read") /\ UNCHANGED <<rows, intended>> /\ call[k].at = "lock"
        /\ \/ call[k].op = "table" /\ Lock(k, SessionRow)
           \/ call[k].op \in DraftOps \cup {"patch"} /\ Lock(k, CharRow(call[k].c))
      BY <1>2 DEF PatchLock, TableLock, DraftScope, At, DraftOps
  <2>2. \/ call[k].op = "table" /\ SessionRow \in Rows /\ Locked(k, SessionRow)
        \/ call[k].op \in DraftOps \cup {"patch"} /\ CharRow(call[k].c) \in Rows /\ Locked(k, CharRow(call[k].c))
    <3>1. call[k].op \in DraftOps \cup {"patch"} => call[k].c \in Characters
        BY <2>1 DEF Named, DraftOps
    <3> QED
        BY <2>1, <3>1, LockLocks, RowsAre
  <2>3. PICK r : /\ Goes(k, r) /\ r.at = "read" /\ r.f = call[k].f
      BY <2>1, GotoGoes
  <2>4. Scoped(k, r)
      BY <2>1, <2>2, <2>3 DEF Scoped
  <2> QED
      BY <2>4
<1> QED
    BY <1>1, <1>2

LEMMA StateReadDoes ==
    ASSUME TypeOK, NEW k \in Calls, Named(k), StateRead(k)
    PROVE  Refused(k) \/ \E r : HasRead(k, r)
<1> DEFINE c == call[k].c
           r == [call[k] EXCEPT !.at = "write", !.pin = current[c], !.rev = revision[c], !.seen = state[c]]
<1>0. c \in Characters /\ IsStateWrite(k) /\ call[k].at = "read"
    BY DEF StateRead, IsStateWrite, Named
<1>1. CASE Refuse(k)
    BY <1>1, RefuseRefuses
<1>2. CASE call' = [call EXCEPT ![k] = r] /\ status[c] = "active" /\ UNCHANGED <<rows, locks, intended>>
  <2>1. call[k] \in CallRecords /\ current[c] \in VersionIds /\ revision[c] \in Nat /\ state[c] \in States
      BY <1>0 DEF TypeOK, RowsTyped
  <2>2. /\ r \in CallRecords /\ r.op = call[k].op /\ r.c = c /\ r.d = call[k].d /\ r.f = call[k].f
        /\ r.at = "write" /\ r.rev = revision[c] /\ r.seen = state[c]
      BY <2>1 DEF CallRecords, Steps
  <2>3. Advanced(k, r)
      BY <1>2, <2>2, AdvanceAdvances
  <2>4. HasRead(k, r)
      BY <1>0, <1>2, <2>2, <2>3 DEF HasRead, Goes
  <2> QED
      BY <2>4
<1> QED
    BY <1>1, <1>2 DEF StateRead

\* what a successful write of the State does to the rows
Wrote(k) ==
    LET c == call[k].c
    IN /\ c \in Characters /\ IsStateWrite(k) /\ call[k].at = "write" /\ call[k].f \in Fields
       /\ Unchanged(k)
       /\ state' = [state EXCEPT ![c] = [call[k].seen EXCEPT ![call[k].f] = k]]
       /\ revision' = [revision EXCEPT ![c] = call[k].rev + 1]
       /\ validFor' = [validFor EXCEPT ![c] = call[k].pin]
       /\ intended' = [intended EXCEPT ![c][call[k].f] = k]
       /\ UNCHANGED <<status, played, current, version, draft>>

LEMMA AttemptsWeb == web /\ (\A n \in Nat : ~(n + 1 < 1)) => \A n \in Nat : ~(n + 1 < Attempts)
BY DEF Attempts

LEMMA RetryDoes ==
    ASSUME TypeOK, NEW k \in Calls, NEW step \in Steps, call[k].tries + 1 < Attempts,
           call' = [call EXCEPT ![k].at = step, ![k].tries = @ + 1],
           UNCHANGED <<rows, intended>>
    PROVE  ~web /\ \E r : r.at = step /\ Goes(k, r) /\ Knows(k, r) /\ r.f = call[k].f
<1> DEFINE n == call[k].tries + 1
           r == [call[k] EXCEPT !.at = step, !.tries = n]
<1>1. call[k] \in CallRecords /\ call[k].tries \in Nat /\ n \in Nat
    BY CallTyped
<1>2. ~web
    BY <1>1 DEF Attempts
<1>3. /\ r \in CallRecords /\ r.op = call[k].op /\ r.c = call[k].c /\ r.d = call[k].d /\ r.f = call[k].f
      /\ r.at = step /\ r.build = call[k].build /\ r.kept = call[k].kept
  <2> HIDE DEF n
  <2> QED
      BY <1>1 DEF CallRecords
<1>4. Advanced(k, r)
    BY <1>3, AdvanceAdvances
<1>5. Goes(k, r) /\ Knows(k, r)
    BY <1>3, <1>4 DEF Goes, Knows
<1> QED
    BY <1>2, <1>3, <1>5

LEMMA StateWriteDoes ==
    ASSUME TypeOK, NEW k \in Calls, Named(k), StateWrite(k)
    PROVE  Refused(k) \/ (Ended(k) /\ Wrote(k)) \/ \E r : ReadsAgain(k, r)
<1>0. /\ call[k].c \in Characters /\ IsStateWrite(k) /\ call[k].at = "write" /\ call[k].f \in Fields
      /\ "read" \in Steps
    BY DEF StateWrite, IsStateWrite, Named, Steps
<1>1. CASE Refuse(k)
    BY <1>1, RefuseRefuses
<1>2. CASE /\ call[k].tries + 1 < Attempts
           /\ call' = [call EXCEPT ![k].at = "read", ![k].tries = @ + 1]
           /\ UNCHANGED <<rows, locks, intended>>
  <2>1. ~web /\ \E r : r.at = "read" /\ Goes(k, r) /\ Knows(k, r) /\ r.f = call[k].f
      BY <1>0, <1>2, RetryDoes
  <2> QED
      BY <1>0, <1>2, <2>1 DEF ReadsAgain
<1>3. CASE End(k) /\ ~Refuse(k) /\ Unchanged(k)
  <2>1. Ended(k)
      BY <1>3, EndEnds
  <2>2. Wrote(k)
      BY <1>0, <1>3 DEF StateWrite, Wrote
  <2> QED
      BY <2>1, <2>2
<1> QED
    BY <1>1, <1>2, <1>3 DEF StateWrite

\* an edit or a Cancel
DraftWrote(k) ==
    LET d == call[k].d
    IN /\ d \in Drafts /\ call[k].op \in {"edit", "cancel"} /\ call[k].at = "read"
       /\ Open(d) /\ locks[DraftRow(d)] \in {None, k}
       /\ \/ draft' = [draft EXCEPT ![d].rev = @ + 1]
          \/ draft' = [draft EXCEPT ![d] = [NoDraft EXCEPT !.mode = "gone"]]
       /\ UNCHANGED <<status, played, current, version, state, revision, validFor, intended>>

LEMMA DraftWriteDoes ==
    ASSUME TypeOK, NEW k \in Calls, Named(k), DraftWrite(k)
    PROVE  Refused(k) \/ (Ended(k) /\ DraftWrote(k))
<1>1. End(k) /\ call[k].d \in Drafts
    BY DEF DraftWrite, Named, DraftOps
<1>2. Ended(k)
    BY <1>1, EndEnds
<1>3. CASE UNCHANGED draft
    BY <1>2, <1>3 DEF DraftWrite, Refused, rows
<1>4. CASE ~UNCHANGED draft
  <2>1. DraftWrote(k)
      BY <1>1, <1>4 DEF DraftWrite, DraftWrote, Free
  <2> QED
      BY <1>2, <2>1
<1> QED
    BY <1>3, <1>4

LEMMA ConfirmReadDoes ==
    ASSUME TypeOK, NEW k \in Calls, Named(k), ConfirmRead(k)
    PROVE  Refused(k) \/ \E r : Compiles(k, r)
<1> DEFINE b == draft[call[k].d].rev
           r == [call[k] EXCEPT !.at = "draft", !.build = b]
<1>0. At(k, "confirm", "read") /\ call[k].d \in Drafts
    BY DEF ConfirmRead, Named, DraftOps, At
<1>1. CASE Refuse(k)
    BY <1>1, RefuseRefuses
<1>2. CASE ~Refuse(k)
  <2>1. call' = [call EXCEPT ![k] = r] /\ UNCHANGED <<rows, locks, intended>>
      BY <1>2 DEF ConfirmRead
  <2>2. call[k] \in CallRecords /\ draft[call[k].d] \in DraftRecords
      BY <1>0 DEF TypeOK, RowsTyped
  <2>3. b \in Nat
      BY <2>2 DEF DraftRecords
  <2>4. r \in CallRecords /\ r.op = call[k].op /\ r.c = call[k].c /\ r.d = call[k].d /\ r.at = "draft"
    <3> HIDE DEF b
    <3> QED
        BY <2>2, <2>3 DEF CallRecords, Steps
  <2>5. Advanced(k, r)
      BY <2>1, <2>4, AdvanceAdvances
  <2>6. Compiles(k, r)
      BY <1>0, <2>1, <2>4, <2>5 DEF Compiles, Goes
  <2> QED
      BY <2>6
<1> QED
    BY <1>1, <1>2

LEMMA ConfirmDraftDoes ==
    ASSUME TypeOK, NEW k \in Calls, Named(k), ConfirmDraft(k)
    PROVE  Refused(k) \/ \E r : LocksDraft(k, r)
<1> DEFINE b == draft[call[k].d].rev
           to == IF draft[call[k].d].mode = "create" THEN "create" ELSE "rows"
           r == [call[k] EXCEPT !.at = to, !.kept = b]
<1>0. At(k, "confirm", "draft") /\ call[k].d \in Drafts /\ DraftRow(call[k].d) \in Rows
    BY RowsAre DEF ConfirmDraft, Named, DraftOps, At
<1>1. CASE Refuse(k)
    BY <1>1, RefuseRefuses
<1>2. CASE ~Refuse(k)
  <2>1. /\ call' = [call EXCEPT ![k] = r] /\ Lock(k, DraftRow(call[k].d))
        /\ StillCompiled(k) /\ UNCHANGED <<rows, intended>>
      BY <1>2 DEF ConfirmDraft
  <2>2. call[k] \in CallRecords /\ draft[call[k].d] \in DraftRecords
      BY <1>0 DEF TypeOK, RowsTyped
  <2>3. b \in Nat /\ to \in Steps
      BY <2>2 DEF DraftRecords, Steps
  <2>4. /\ r \in CallRecords /\ r.op = call[k].op /\ r.c = call[k].c /\ r.d = call[k].d
        /\ r.at = to /\ r.kept = b /\ r.build = call[k].build
    <3> HIDE DEF b, to
    <3> QED
        BY <2>2, <2>3 DEF CallRecords
  <2>5. Advanced(k, r)
      BY <2>1, <2>4, AdvanceAdvances
  <2>6. Locked(k, DraftRow(call[k].d))
      BY <1>0, <2>1, LockLocks
  <2>7. Open(call[k].d) /\ r.build = r.kept
      BY <2>1, <2>4 DEF StillCompiled
  <2>8. LocksDraft(k, r)
      BY <1>0, <2>1, <2>4, <2>5, <2>6, <2>7 DEF LocksDraft, Goes
  <2> QED
      BY <2>8
<1> QED
    BY <1>1, <1>2

LEMMA ConfirmRowsDoes ==
    ASSUME TypeOK, NEW k \in Calls, Named(k), ConfirmRows(k)
    PROVE  Refused(k) \/ \E r : LocksRows(k, r)
<1> DEFINE c == call[k].c
           p == current[c]
           n == revision[c]
           s == state[c]
           r == [call[k] EXCEPT !.at = "commit", !.pin = p, !.rev = n, !.seen = s]
<1>0. At(k, "confirm", "rows") /\ c \in Characters /\ CharRow(c) \in Rows /\ StateRow(c) \in Rows
    BY RowsAre DEF ConfirmRows, Named, DraftOps, At
<1>1. CASE Refuse(k)
    BY <1>1, RefuseRefuses
<1>2. CASE ~Refuse(k)
  <2>1. /\ call' = [call EXCEPT ![k].at = "commit", ![k].pin = draft[call[k].d].base, ![k].rev = n, ![k].seen = s]
        /\ locks' = IF web THEN [locks EXCEPT ![CharRow(c)] = k, ![StateRow(c)] = k] ELSE locks
        /\ Free(k, CharRow(c)) /\ Free(k, StateRow(c))
        /\ OnItsBase(k) /\ UNCHANGED <<rows, intended>>
      BY <1>2 DEF ConfirmRows
  <2>2. status[c] = "active" /\ draft[call[k].d].base = p
      BY <2>1 DEF OnItsBase
  <2>3. call' = [call EXCEPT ![k] = r]
      BY <2>1, <2>2
  <2>4. call[k] \in CallRecords /\ p \in VersionIds /\ n \in Nat /\ s \in States
      BY <1>0 DEF TypeOK, RowsTyped
  <2>5. /\ r \in CallRecords /\ r.op = call[k].op /\ r.c = c /\ r.d = call[k].d /\ r.at = "commit"
        /\ r.pin = p /\ r.rev = n /\ r.seen = s /\ r.build = call[k].build /\ r.kept = call[k].kept
    <3> HIDE DEF p, n, s
    <3> QED
        BY <2>4 DEF CallRecords, Steps
  <2>6. Advanced(k, r)
      BY <2>3, <2>5, AdvanceAdvances
  <2>7. /\ locks' \in [Rows -> Calls \cup {None}]
        /\ \A x \in {CharRow(c), StateRow(c)} : locks[x] \in {None, k} /\ locks'[x] = IF web THEN k ELSE locks[x]
        /\ \A x \in Rows \ {CharRow(c), StateRow(c)} : locks'[x] = locks[x]
      BY <1>0, <2>1, CallTyped, RowsApart DEF Free
  <2>8. LocksRows(k, r)
      BY <1>0, <2>1, <2>2, <2>5, <2>6, <2>7 DEF LocksRows, Goes, Knows
  <2> QED
      BY <2>8
<1> QED
    BY <1>1, <1>2

\* a Confirm that made a Character
Created(k) ==
    /\ At(k, "confirm", "create") /\ call[k].d \in Drafts
    /\ \E c \in Characters, v \in Versions :
          /\ InsertCharacter(c, v, call[k].d, call[k].build, call[k].kept)
          /\ draft' = Confirmed(call[k].d, v)
    /\ UNCHANGED <<played, state, intended>>

LEMMA ConfirmCreateDoes ==
    ASSUME TypeOK, NEW k \in Calls, Named(k), ConfirmCreate(k)
    PROVE  Refused(k) \/ (Ended(k) /\ Created(k))
<1>1. CASE Refuse(k)
    BY <1>1, RefuseRefuses
<1>2. CASE ~Refuse(k)
  <2>1. End(k) /\ Created(k)
      BY <1>2 DEF ConfirmCreate, Created, Named, DraftOps, At
  <2> QED
      BY <2>1, EndEnds
<1> QED
    BY <1>1, <1>2

\* a Confirm that made a version of a Character
NextVersion(k, v) ==
    LET c == call[k].c
        d == call[k].d
    IN /\ NewVersion(v)
       /\ version' = [w \in Versions |->
             IF w = v THEN [is |-> "kept", char |-> c, parent |-> call[k].pin, from |-> d,
                            build |-> call[k].build, kept |-> call[k].kept, super |-> None]
             ELSE IF w = call[k].pin /\ draft[d].mode = "correction" THEN [version[w] EXCEPT !.super = v]
             ELSE version[w]]
       /\ current' = [current EXCEPT ![c] = v]
       /\ validFor' = [validFor EXCEPT ![c] = v]
       /\ draft' = Confirmed(d, v)

Committed(k) ==
    /\ At(k, "confirm", "commit") /\ call[k].d \in Drafts /\ call[k].c \in Characters
    /\ Reconciles(k)
    /\ \E v \in Versions : NextVersion(k, v)
    /\ state' = [state EXCEPT ![call[k].c] = call[k].seen]
    /\ revision' = [revision EXCEPT ![call[k].c] = call[k].rev + 1]
    /\ UNCHANGED <<status, played, intended>>

LEMMA ConfirmCommitDoes ==
    ASSUME TypeOK, NEW k \in Calls, Named(k), ConfirmCommit(k)
    PROVE  Refused(k) \/ (Ended(k) /\ Committed(k)) \/ \E r : ReadsAgain(k, r)
<1>0. At(k, "confirm", "commit") /\ call[k].d \in Drafts /\ call[k].c \in Characters /\ "draft" \in Steps
    BY DEF ConfirmCommit, Named, DraftOps, At, Steps
<1>1. CASE Refuse(k)
    BY <1>1, RefuseRefuses
<1>2. CASE /\ call[k].tries + 1 < Attempts
           /\ call' = [call EXCEPT ![k].at = "draft", ![k].tries = @ + 1]
           /\ UNCHANGED <<rows, locks, intended>>
  <2>1. ~web /\ \E r : r.at = "draft" /\ Goes(k, r) /\ Knows(k, r) /\ r.f = call[k].f
      BY <1>0, <1>2, RetryDoes
  <2> QED
      BY <1>0, <1>2, <2>1 DEF ReadsAgain, At
<1>3. CASE Reconciles(k) /\ ~Refuse(k)
  <2>1. End(k) /\ Committed(k)
      BY <1>0, <1>3 DEF ConfirmCommit, Committed, NextVersion
  <2> QED
      BY <2>1, EndEnds
<1> QED
    BY <1>1, <1>2, <1>3 DEF ConfirmCommit

LEMMA DeleteReadDoes ==
    ASSUME TypeOK, NEW k \in Calls, Named(k), DeleteRead(k)
    PROVE  Refused(k) \/ \E r : ToDelete(k, r)
<1>1. CASE Refuse(k)
    BY <1>1, RefuseRefuses
<1>2. CASE ~Refuse(k)
  <2> DEFINE to == IF web THEN "states" ELSE "rows"
  <2>1. At(k, "delete", "read") /\ Goto(k, to) /\ UNCHANGED <<rows, locks, intended>> /\ to \in Steps
      BY <1>2 DEF DeleteRead, Steps
  <2>2. PICK r : Goes(k, r) /\ r.at = to
      BY <2>1, GotoGoes
  <2> QED
      BY <2>1, <2>2 DEF ToDelete
<1> QED
    BY <1>1, <1>2

LEMMA DeleteStateDoes ==
    ASSUME TypeOK, NEW k \in Calls, Named(k), DeleteState(k)
    PROVE  \E r : LocksState(k, r)
<1>1. At(k, "delete", "states") /\ Goto(k, "rows") /\ UNCHANGED <<rows, intended>> /\ "rows" \in Steps
    BY DEF DeleteState, Steps
<1>2. StateRow(call[k].c) \in Rows
    BY <1>1, RowsAre DEF At, Named
<1>3. Locked(k, StateRow(call[k].c))
    BY <1>2, LockLocks DEF DeleteState
<1>4. PICK r : Goes(k, r) /\ r.at = "rows" /\ r.c = call[k].c
    BY <1>1, GotoGoes
<1> QED
    BY <1>1, <1>3, <1>4 DEF LocksState

\* a delete that found the Character
Deleted(k) ==
    LET c == call[k].c
    IN /\ At(k, "delete", "rows") /\ c \in Characters
       /\ played[c] = "no" /\ status[c] # "deleted"
       /\ \A d \in Drafts : draft[d].char = c => locks[DraftRow(d)] \in {None, k}
       /\ status' = [status EXCEPT ![c] = "deleted"]
       /\ current' = [current EXCEPT ![c] = None]
       /\ version' = [v \in Versions |->
                        IF version[v].char = c THEN [NoVersion EXCEPT !.is = "gone"] ELSE version[v]]
       /\ draft' = WithoutCharacter(c)
       /\ validFor' = [validFor EXCEPT ![c] = None]
       /\ UNCHANGED <<played, state, revision, intended>>

LEMMA DeleteRowDoes ==
    ASSUME TypeOK, NEW k \in Calls, Named(k), DeleteRow(k)
    PROVE  Refused(k) \/ (Ended(k) /\ Deleted(k))
<1>1. CASE Refuse(k)
    BY <1>1, RefuseRefuses
<1>2. CASE ~Refuse(k)
  <2>1. End(k) /\ Deleted(k)
      BY <1>2 DEF DeleteRow, Referenced, Deleted, Named, At, Free
  <2> QED
      BY <2>1, EndEnds
<1> QED
    BY <1>1, <1>2

\* a request arrives
Began(k) ==
    \E r \in CallRecords :
       /\ call[k] = Idle /\ call' \in [Calls -> CallRecords] /\ call'[k] = r
       /\ \A j \in Calls : j # k => call'[j] = call[j]
       /\ UNCHANGED <<rows, locks, intended>>
       /\ \/ /\ r.op \in {"patch", "table"} /\ r.c \in Characters /\ r.f \in Fields
             /\ r.at = "lock" \/ (r.at = "read" /\ ~web)
          \/ /\ r.op = "delete" /\ r.c \in Characters /\ Exists(r.c) /\ r.at = "read"
          \/ /\ r.op \in DraftOps /\ r.d \in Drafts /\ draft[r.d].char = r.c
             /\ r.at = IF web /\ r.c # None THEN "lock" ELSE "read"
             /\ draft[r.d].mode \in Modes

Started(k, op, step, c, d, f) ==
    \E r \in CallRecords :
        /\ call[k] = Idle /\ call' \in [Calls -> CallRecords] /\ call'[k] = r
        /\ \A j \in Calls : j # k => call'[j] = call[j]
        /\ UNCHANGED <<rows, locks, intended>>
        /\ r.op = op /\ r.at = step /\ r.c = c /\ r.d = d /\ r.f = f

LEMMA BeginBegins ==
    ASSUME TypeOK, NEW k \in Calls, NEW op \in Ops, NEW step \in Steps, NEW c \in Characters \cup {None},
           NEW d \in Drafts \cup {None}, NEW f \in Fields \cup {None}, Begin(k, op, step, c, d, f)
    PROVE  Started(k, op, step, c, d, f)
<1> DEFINE r == [Idle EXCEPT !.op = op, !.at = step, !.c = c, !.d = d, !.f = f]
<1>1. r \in CallRecords /\ r.op = op /\ r.at = step /\ r.c = c /\ r.d = d /\ r.f = f
    BY IdleIs DEF CallRecords
<1>2. call[k] = Idle /\ call' = [call EXCEPT ![k] = r] /\ UNCHANGED <<rows, locks, intended>>
    BY DEF Begin
<1> QED
    BY <1>1, <1>2 DEF TypeOK, Started

LEMMA BeginOpsDoes ==
    ASSUME TypeOK, NEW k \in Calls, BeginOps(k)
    PROVE  Began(k)
<1>1. ASSUME NEW c \in Characters, NEW f \in Fields, Begin(k, "patch", IF web THEN "lock" ELSE "read", c, None, f)
      PROVE  Began(k)
  <2>1. Started(k, "patch", IF web THEN "lock" ELSE "read", c, None, f)
      BY <1>1, BeginBegins DEF Ops, Steps
  <2> QED
      BY <2>1 DEF Began, Started
<1>2. ASSUME NEW c \in Characters, NEW f \in Fields, Begin(k, "table", "lock", c, None, f)
      PROVE  Began(k)
    BY <1>2, BeginBegins DEF Began, Started, Ops, Steps
<1>3. ASSUME NEW c \in Characters, Exists(c), Begin(k, "delete", "read", c, None, None)
      PROVE  Began(k)
    BY <1>3, BeginBegins DEF Began, Started, Ops, Steps
<1>4. ASSUME NEW d \in Drafts, draft[d].mode \in Modes, NEW op \in DraftOps,
             Begin(k, op, IF web /\ draft[d].char # None THEN "lock" ELSE "read", draft[d].char, d, None)
      PROVE  Began(k)
  <2>1. op \in Ops /\ draft[d].char \in Characters \cup {None}
      BY DEF TypeOK, RowsTyped, DraftRecords, DraftOps, Ops
  <2> PICK at \in Steps : at = IF web /\ draft[d].char # None THEN "lock" ELSE "read"
      BY DEF Steps
  <2> PICK c \in Characters \cup {None} : c = draft[d].char
      BY <2>1
  <2>2. Begin(k, op, at, c, d, None)
      BY <1>4
  <2>3. None \in Fields \cup {None} /\ d \in Drafts \cup {None}
      OBVIOUS
  <2>4. Started(k, op, at, c, d, None)
      BY <2>1, <2>2, <2>3, BeginBegins
  <2>5. PICK r \in CallRecords :
            /\ call[k] = Idle /\ call' \in [Calls -> CallRecords] /\ call'[k] = r
            /\ \A j \in Calls : j # k => call'[j] = call[j]
            /\ UNCHANGED <<rows, locks, intended>>
            /\ r.op = op /\ r.at = at /\ r.c = c /\ r.d = d
      BY <2>4 DEF Started
  <2>6. /\ r.op \in DraftOps /\ r.d \in Drafts /\ draft[r.d].char = r.c /\ draft[r.d].mode \in Modes
        /\ r.at = IF web /\ r.c # None THEN "lock" ELSE "read"
      BY <1>4, <2>5
  <2> QED
      BY <2>5, <2>6 DEF Began
<1> QED
    BY <1>1, <1>2, <1>3, <1>4 DEF BeginOps, DraftOps, Exists

LEMMA StepDoes ==
    ASSUME TypeOK, NEW k \in Calls, Named(k), Step(k)
    PROVE  \/ Refused(k)
           \/ \E r : Onward(k, r)
           \/ Ended(k) /\ (Wrote(k) \/ DraftWrote(k) \/ Created(k) \/ Committed(k) \/ Deleted(k))
<1>1. CASE DeadlockDetected(k)
    BY <1>1, RefuseRefuses DEF DeadlockDetected
<1>2. CASE ~DeadlockDetected(k)
    BY <1>2, ScopeDoes, StateReadDoes, StateWriteDoes, DraftWriteDoes, ConfirmReadDoes, ConfirmDraftDoes,
       ConfirmCreateDoes, ConfirmRowsDoes, ConfirmCommitDoes, DeleteReadDoes, DeleteStateDoes, DeleteRowDoes
       DEF Step, Onward
<1> QED
    BY <1>1, <1>2

-----------------------------------------------------------------------------
LEMMA EndedTyped ==
    ASSUME NEW k \in Calls, Ended(k)
    PROVE  call' \in [Calls -> CallRecords] /\ locks' \in [Rows -> Calls \cup {None}]
BY DEF Ended

LEMMA OnwardTyped ==
    ASSUME TypeOK, NEW k \in Calls, NEW r, Onward(k, r)
    PROVE  /\ call' \in [Calls -> CallRecords] /\ locks' \in [Rows -> Calls \cup {None}]
           /\ Goes(k, r)
<1>1. Goes(k, r)
    BY DEF Onward, Scoped, HasRead, ReadsAgain, Compiles, LocksDraft, LocksRows, ToDelete, LocksState
<1>2. call' \in [Calls -> CallRecords]
    BY <1>1 DEF Goes, Advanced
<1>3. locks' \in [Rows -> Calls \cup {None}]
    BY CallTyped DEF Onward, Scoped, HasRead, ReadsAgain, Compiles, LocksDraft, LocksRows, ToDelete, LocksState, Locked
<1> QED
    BY <1>1, <1>2, <1>3

LEMMA WroteTyped ==
    ASSUME TypeOK, NEW k \in Calls, Wrote(k)
    PROVE  RowsTyped' /\ intended' \in [Characters -> States]
<1> DEFINE c == call[k].c
           s == [call[k].seen EXCEPT ![call[k].f] = k]
<1>1. c \in Characters /\ call[k].pin \in VersionIds /\ call[k].rev + 1 \in Nat
    BY CallTyped DEF Wrote
<1>2. s \in States
    BY CallTyped DEF Wrote, States
<1>3. state' = [state EXCEPT ![c] = s]
    BY DEF Wrote
<1>4. RowsTyped'
    BY <1>1, <1>2, <1>3 DEF Wrote, TypeOK, RowsTyped
<1>5. intended[c] \in States
    BY <1>1 DEF TypeOK
<1>6. [intended[c] EXCEPT ![call[k].f] = k] \in States
    BY <1>5 DEF States
<1>7. intended' = [intended EXCEPT ![c] = [intended[c] EXCEPT ![call[k].f] = k]]
    BY DEF Wrote
<1>8. intended' \in [Characters -> States]
    BY <1>6, <1>7 DEF TypeOK
<1> QED
    BY <1>4, <1>8

LEMMA DraftWroteTyped ==
    ASSUME TypeOK, NEW k \in Calls, DraftWrote(k)
    PROVE  RowsTyped'
<1> DEFINE d == call[k].d
           x == [draft[d] EXCEPT !.rev = @ + 1]
           y == [NoDraft EXCEPT !.mode = "gone"]
<1>1. d \in Drafts /\ draft[d] \in DraftRecords
    BY DEF DraftWrote, TypeOK, RowsTyped
<1>2. draft[d].rev + 1 \in Nat
    BY <1>1 DEF DraftRecords
<1>3. x \in DraftRecords
    BY <1>1, <1>2 DEF DraftRecords
<1>4. draft' = [draft EXCEPT ![d] = x] \/ draft' = [draft EXCEPT ![d] = y]
    BY DEF DraftWrote
<1>5. y \in DraftRecords
    BY NoneApart DEF NoDraft, DraftRecords
<1>6. draft' \in [Drafts -> DraftRecords]
  <2> HIDE DEF x, y
  <2> QED
      BY <1>1, <1>3, <1>4, <1>5 DEF TypeOK, RowsTyped
<1> QED
    BY <1>6 DEF DraftWrote, TypeOK, RowsTyped

\* the draft that a Confirm marks, and every other
LEMMA ConfirmedIs ==
    ASSUME TypeOK, NEW d \in Drafts, NEW v \in Versions, draft' = Confirmed(d, v)
    PROVE  /\ draft' \in [Drafts -> DraftRecords]
           /\ \A e \in Drafts :
                 /\ draft'[e].mode = draft[e].mode /\ draft'[e].char = draft[e].char
                 /\ draft'[e].rev = draft[e].rev
                 /\ draft'[e].to = IF e = d /\ draft[d].mode # "gone" THEN v ELSE draft[e].to
<1> DEFINE x == [draft[d] EXCEPT !.to = v]
<1>1. draft \in [Drafts -> DraftRecords] /\ draft[d] \in DraftRecords /\ v \in VersionIds
    BY NoneApart DEF TypeOK, RowsTyped
<1>2. /\ x \in DraftRecords /\ x.mode = draft[d].mode /\ x.char = draft[d].char
      /\ x.rev = draft[d].rev /\ x.to = v
    BY <1>1 DEF DraftRecords
<1>3. draft' = IF draft[d].mode = "gone" THEN draft ELSE [draft EXCEPT ![d] = x]
    BY DEF Confirmed
<1> HIDE DEF x
<1> QED
    BY <1>1, <1>2, <1>3

\* the rows a Character is inserted with
LEMMA InsertIs ==
    ASSUME TypeOK, NEW c \in Characters, NEW v \in Versions, NEW d \in Drafts \cup {None},
           NEW build \in Nat, NEW kept \in Nat, InsertCharacter(c, v, d, build, kept)
    PROVE  /\ version'[v].is = "kept" /\ version'[v].char = c
           /\ version'[v].parent = None /\ version'[v].super = None
           /\ version'[v].from = d /\ version'[v].build = build /\ version'[v].kept = kept
           /\ \A w \in Versions \ {v} : version'[w] = version[w]
           /\ version' \in [Versions -> VersionRecords]
           /\ current' \in [Characters -> VersionIds] /\ validFor' \in [Characters -> VersionIds]
           /\ revision' \in [Characters -> Nat]
           /\ status' \in [Characters -> {"none", "active", "archived", "deleted"}]
<1> DEFINE x == [NoVersion EXCEPT !.is = "kept", !.char = c, !.from = d, !.build = build, !.kept = kept]
<1>1. /\ x \in VersionRecords /\ x.is = "kept" /\ x.char = c /\ x.parent = None /\ x.super = None
      /\ x.from = d /\ x.build = build /\ x.kept = kept
    BY NoneApart DEF NoVersion, VersionRecords
<1>2. version' = [version EXCEPT ![v] = x] /\ version \in [Versions -> VersionRecords]
    BY DEF InsertCharacter, TypeOK, RowsTyped
<1> HIDE DEF x
<1>3. version'[v] = x /\ \A w \in Versions \ {v} : version'[w] = version[w]
    BY <1>2
<1>4. /\ version' \in [Versions -> VersionRecords]
      /\ current' \in [Characters -> VersionIds] /\ validFor' \in [Characters -> VersionIds]
      /\ revision' \in [Characters -> Nat]
      /\ status' \in [Characters -> {"none", "active", "archived", "deleted"}]
    BY <1>1, <1>2, NoneApart DEF InsertCharacter, TypeOK, RowsTyped
<1> QED
    BY <1>1, <1>3, <1>4

LEMMA CreatedTyped ==
    ASSUME TypeOK, NEW k \in Calls, Created(k)
    PROVE  RowsTyped'
<1>1. PICK c \in Characters, v \in Versions :
         /\ InsertCharacter(c, v, call[k].d, call[k].build, call[k].kept)
         /\ draft' = Confirmed(call[k].d, v)
    BY DEF Created
<1>2. call[k].d \in Drafts /\ call[k].build \in Nat /\ call[k].kept \in Nat
    BY CallTyped DEF Created
<1>3. /\ version' \in [Versions -> VersionRecords]
      /\ current' \in [Characters -> VersionIds] /\ validFor' \in [Characters -> VersionIds]
      /\ revision' \in [Characters -> Nat]
      /\ status' \in [Characters -> {"none", "active", "archived", "deleted"}]
    BY <1>1, <1>2, InsertIs
<1>4. draft' \in [Drafts -> DraftRecords]
    BY <1>1, <1>2, ConfirmedIs
<1> QED
    BY <1>3, <1>4 DEF Created, TypeOK, RowsTyped

\* the rows of a Character's next version
LEMMA NextVersionIs ==
    ASSUME TypeOK, NEW k \in Calls, call[k].c \in Characters, call[k].d \in Drafts,
           NEW v \in Versions, NextVersion(k, v)
    PROVE  /\ version' \in [Versions -> VersionRecords]
           /\ version'[v].is = "kept" /\ version'[v].char = call[k].c /\ version'[v].parent = call[k].pin
           /\ version'[v].from = call[k].d /\ version'[v].super = None
           /\ version'[v].build = call[k].build /\ version'[v].kept = call[k].kept
           /\ \A w \in Versions \ {v} :
                 /\ version'[w].is = version[w].is /\ version'[w].char = version[w].char
                 /\ version'[w].parent = version[w].parent /\ version'[w].from = version[w].from
                 /\ version'[w].build = version[w].build /\ version'[w].kept = version[w].kept
                 /\ version'[w].super = version[w].super \/ (w = call[k].pin /\ version'[w].super = v)
<1> DEFINE x == [is |-> "kept", char |-> call[k].c, parent |-> call[k].pin, from |-> call[k].d,
                 build |-> call[k].build, kept |-> call[k].kept, super |-> None]
           y(w) == [version[w] EXCEPT !.super = v]
           corrects(w) == w = call[k].pin /\ draft[call[k].d].mode = "correction"
<1>1. x \in VersionRecords
    BY CallTyped, NoneApart DEF VersionRecords
<1>2. v \in VersionIds /\ version \in [Versions -> VersionRecords]
    BY NoneApart DEF TypeOK, RowsTyped
<1>3. \A w \in Versions :
         /\ version[w] \in VersionRecords /\ y(w) \in VersionRecords
         /\ y(w).is = version[w].is /\ y(w).char = version[w].char
         /\ y(w).parent = version[w].parent /\ y(w).from = version[w].from
         /\ y(w).build = version[w].build /\ y(w).kept = version[w].kept /\ y(w).super = v
    BY <1>2 DEF VersionRecords
<1>4. version' = [w \in Versions |-> IF w = v THEN x ELSE IF corrects(w) THEN y(w) ELSE version[w]]
    BY DEF NextVersion
<1>5. version'[v] = x
    BY <1>4
<1>6. \A w \in Versions \ {v} : version'[w] = IF corrects(w) THEN y(w) ELSE version[w]
    BY <1>4
<1>7. \A w \in Versions \ {v} :
                 /\ version'[w].is = version[w].is /\ version'[w].char = version[w].char
                 /\ version'[w].parent = version[w].parent /\ version'[w].from = version[w].from
                 /\ version'[w].build = version[w].build /\ version'[w].kept = version[w].kept
                 /\ version'[w].super = version[w].super \/ (w = call[k].pin /\ version'[w].super = v)
  <2> HIDE DEF y
  <2> QED
      BY <1>3, <1>6
<1>8. version' \in [Versions -> VersionRecords]
  <2> HIDE DEF x, y, corrects
  <2> QED
      BY <1>1, <1>3, <1>4
<1> QED
    BY <1>5, <1>7, <1>8

LEMMA CommittedTyped ==
    ASSUME TypeOK, NEW k \in Calls, Committed(k)
    PROVE  RowsTyped'
<1>1. PICK v \in Versions : NextVersion(k, v)
    BY DEF Committed
<1>2. version' \in [Versions -> VersionRecords]
    BY <1>1, NextVersionIs DEF Committed
<1>3. draft' \in [Drafts -> DraftRecords]
    BY <1>1, ConfirmedIs DEF Committed, NextVersion
<1>4. call[k].seen \in States /\ call[k].rev + 1 \in Nat /\ v \in VersionIds
    BY CallTyped, NoneApart
<1> QED
    BY <1>1, <1>2, <1>3, <1>4 DEF Committed, NextVersion, TypeOK, RowsTyped

\* the rows that are left without a Character
LEMMA DeletedIs ==
    ASSUME TypeOK, NEW k \in Calls, Deleted(k)
    PROVE  /\ RowsTyped'
           /\ \A v \in Versions :
                 IF version[v].char = call[k].c
                 THEN /\ version'[v].is = "gone" /\ version'[v].char = None /\ version'[v].parent = None
                      /\ version'[v].from = None /\ version'[v].super = None
                 ELSE version'[v] = version[v]
           /\ \A d \in Drafts :
                 IF draft[d].char = call[k].c
                 THEN draft'[d].mode = "gone" /\ draft'[d].char = None /\ draft'[d].to = None
                 ELSE /\ draft'[d].mode = draft[d].mode /\ draft'[d].char = draft[d].char
                      /\ draft'[d].to = IF draft[d].to # None /\ version[draft[d].to].char = call[k].c
                                        THEN None ELSE draft[d].to
<1> DEFINE c == call[k].c
           x == [NoVersion EXCEPT !.is = "gone"]
           y == [NoDraft EXCEPT !.mode = "gone"]
           z(d) == [draft[d] EXCEPT !.to = None]
           cut(d) == draft[d].to # None /\ version[draft[d].to].char = c
<1>1. x \in VersionRecords /\ x.is = "gone" /\ x.char = None /\ x.parent = None /\ x.from = None /\ x.super = None
    BY NoneApart DEF NoVersion, VersionRecords
<1>2. y \in DraftRecords /\ y.mode = "gone" /\ y.char = None /\ y.to = None
    BY NoneApart DEF NoDraft, DraftRecords
<1>3. \A d \in Drafts :
         /\ draft[d] \in DraftRecords /\ z(d) \in DraftRecords
         /\ z(d).mode = draft[d].mode /\ z(d).char = draft[d].char /\ z(d).to = None
  <2>1. draft \in [Drafts -> DraftRecords]
      BY DEF TypeOK, RowsTyped
  <2> QED
      BY <2>1, NoneApart DEF DraftRecords
<1>4. version' = [v \in Versions |-> IF version[v].char = c THEN x ELSE version[v]]
    BY DEF Deleted
<1>5. draft' = [d \in Drafts |-> IF draft[d].char = c THEN y ELSE IF cut(d) THEN z(d) ELSE draft[d]]
    BY DEF Deleted, WithoutCharacter
<1>6. RowsTyped'
  <2> HIDE DEF x, y, z, cut
  <2>1. version' \in [Versions -> VersionRecords]
      BY <1>1, <1>4 DEF TypeOK, RowsTyped
  <2>2. draft' \in [Drafts -> DraftRecords]
      BY <1>2, <1>3, <1>5 DEF TypeOK, RowsTyped
  <2> QED
      BY <2>1, <2>2, NoneApart DEF Deleted, TypeOK, RowsTyped
<1>7. \A v \in Versions :
         IF version[v].char = call[k].c
         THEN /\ version'[v].is = "gone" /\ version'[v].char = None /\ version'[v].parent = None
              /\ version'[v].from = None /\ version'[v].super = None
         ELSE version'[v] = version[v]
    BY <1>1, <1>4
<1>8. \A d \in Drafts :
         IF draft[d].char = call[k].c
         THEN draft'[d].mode = "gone" /\ draft'[d].char = None /\ draft'[d].to = None
         ELSE /\ draft'[d].mode = draft[d].mode /\ draft'[d].char = draft[d].char
              /\ draft'[d].to = IF cut(d) THEN None ELSE draft[d].to
  <2> HIDE DEF y, z, cut
  <2> QED
      BY <1>2, <1>3, <1>5
<1> QED
    BY <1>6, <1>7, <1>8

\* a new draft, of a Character that exists or of one to be made
Drafted(d) ==
    \E x \in DraftRecords :
       /\ draft[d] = NoDraft /\ draft' = [draft EXCEPT ![d] = x] /\ x.to = None
       /\ \/ x.mode = "create" /\ x.char = None
          \/ x.mode \in Modes \ {"create"} /\ x.char \in Characters
       /\ UNCHANGED <<status, played, current, version, state, revision, validFor, locks, call, intended>>

LEMMA DraftDrafts ==
    ASSUME TypeOK, NEW d \in Drafts,
           CreateDraft(d) \/ \E c \in Characters : \E mode \in Modes \ {"create"} : CreateVersionDraft(d, c, mode)
    PROVE  Drafted(d)
<1>1. CASE CreateDraft(d)
  <2> DEFINE x == [NoDraft EXCEPT !.mode = "create", !.rev = 1]
  <2>1. x \in DraftRecords /\ x.mode = "create" /\ x.char = None /\ x.to = None
      BY NoneApart DEF NoDraft, DraftRecords, Modes
  <2> QED
      BY <1>1, <2>1 DEF CreateDraft, Drafted
<1>2. ASSUME NEW c \in Characters, NEW mode \in Modes \ {"create"}, CreateVersionDraft(d, c, mode)
      PROVE  Drafted(d)
  <2> DEFINE x == [mode |-> mode, char |-> c, base |-> current[c], rev |-> 1, to |-> None]
  <2>1. x \in DraftRecords /\ x.mode = mode /\ x.char = c /\ x.to = None
      BY NoneApart DEF DraftRecords, Modes, TypeOK, RowsTyped
  <2> QED
      BY <1>2, <2>1 DEF CreateVersionDraft, Drafted
<1> QED
    BY <1>1, <1>2

\* every step: of a call, or of the Character's own life
Moves(k) ==
    \/ Began(k) \/ Refused(k) \/ \E r : Onward(k, r)
    \/ Ended(k) /\ (Wrote(k) \/ DraftWrote(k) \/ Created(k) \/ Committed(k) \/ Deleted(k))

Lives ==
    /\ \/ \E d \in Drafts : Drafted(d)
       \/ Import
       \/ \E c \in Characters : Lease(c) \/ \E to \in {"active", "archived"} : SetArchived(c, to)
    /\ UNCHANGED <<locks, call, intended>>

LEMMA NextDoes ==
    ASSUME TypeOK, CallsNamed, Next
    PROVE  web' = web /\ (Lives \/ \E k \in Calls : Moves(k))
<1>1. CASE Other
  <2>1. \/ \E d \in Drafts : Drafted(d)
        \/ Import
        \/ \E c \in Characters : Lease(c) \/ \E to \in {"active", "archived"} : SetArchived(c, to)
      BY <1>1, DraftDrafts DEF Other
  <2>2. UNCHANGED <<locks, call, intended>>
      BY <2>1 DEF Drafted, Import, Lease, SetArchived
  <2> QED
      BY <2>1, <2>2 DEF Lives, Next
<1>2. ASSUME NEW k \in Calls, BeginOps(k) \/ Step(k)
      PROVE  Moves(k)
    BY <1>2, StepDoes, BeginOpsDoes DEF CallsNamed, Moves
<1> QED
    BY <1>1, <1>2 DEF Next

LEMMA TypeKept ==
    ASSUME TypeOK, CallsNamed, [Next]_vars
    PROVE  TypeOK'
<1>1. CASE UNCHANGED vars
    BY <1>1 DEF vars, rows, TypeOK, RowsTyped
<1>2. CASE Lives /\ web' = web
  <2>1. RowsTyped'
    <3>1. ASSUME NEW d \in Drafts, Drafted(d) PROVE RowsTyped'
        BY <3>1 DEF Drafted, TypeOK, RowsTyped
    <3>2. CASE Import
      <4>1. PICK c \in Characters, v \in Versions : InsertCharacter(c, v, None, 0, 0)
          BY <3>2 DEF Import
      <4> QED
          BY <3>2, <4>1, InsertIs DEF Import, TypeOK, RowsTyped
    <3>3. ASSUME NEW c \in Characters, Lease(c) PROVE RowsTyped'
        BY <3>3 DEF Lease, TypeOK, RowsTyped
    <3>4. ASSUME NEW c \in Characters, NEW to \in {"active", "archived"}, SetArchived(c, to) PROVE RowsTyped'
        BY <3>4 DEF SetArchived, TypeOK, RowsTyped
    <3> QED
        BY <1>2, <3>1, <3>2, <3>3, <3>4 DEF Lives
  <2> QED
      BY <1>2, <2>1 DEF Lives, TypeOK
<1>3. ASSUME NEW k \in Calls, Moves(k), web' = web PROVE TypeOK'
  <2>1. CASE UNCHANGED <<rows, intended>>
    <3>1. RowsTyped' /\ intended' \in [Characters -> States]
        BY <2>1 DEF rows, RowsTyped, TypeOK
    <3>2. CASE Began(k)
        BY <1>3, <3>1, <3>2 DEF Began, TypeOK
    <3>3. CASE Ended(k)
        BY <1>3, <3>1, <3>3, EndedTyped DEF TypeOK
    <3>4. ASSUME NEW r, Onward(k, r) PROVE TypeOK'
        BY <1>3, <3>1, <3>4, OnwardTyped DEF TypeOK
    <3> QED
        BY <1>3, <3>2, <3>3, <3>4 DEF Moves, Refused
  <2>2. CASE Ended(k) /\ (Wrote(k) \/ DraftWrote(k) \/ Created(k) \/ Committed(k) \/ Deleted(k))
    <3>1. RowsTyped'
        BY <2>2, WroteTyped, DraftWroteTyped, CreatedTyped, CommittedTyped, DeletedIs
    <3>2. intended' \in [Characters -> States]
      <4>1. CASE Wrote(k)
          BY <4>1, WroteTyped
      <4>2. CASE UNCHANGED intended
          BY <4>2 DEF TypeOK
      <4> QED
          BY <2>2, <4>1, <4>2 DEF DraftWrote, Created, Committed, Deleted
    <3> QED
        BY <1>3, <2>2, <3>1, <3>2, EndedTyped DEF TypeOK
  <2>3. ASSUME NEW r, Onward(k, r) PROVE UNCHANGED <<rows, intended>>
      BY <2>3, OnwardTyped DEF Goes
  <2> QED
      BY <1>3, <2>1, <2>2, <2>3 DEF Moves, Began, Refused
<1> QED
    BY <1>1, <1>2, <1>3, NextDoes

-----------------------------------------------------------------------------
\* a draft keeps its kind and its Character until it is gone
LEMMA DraftsGoOn ==
    ASSUME TypeOK, CallsNamed, [Next]_vars
    PROVE  \A d \in Drafts :
              /\ DraftWhole(d)'
              /\ draft[d].mode # "none" =>
                    /\ draft'[d].mode # "none"
                    /\ draft'[d].mode \in Modes => draft'[d].mode = draft[d].mode /\ draft'[d].char = draft[d].char
<1> DEFINE Result == \A d \in Drafts :
              /\ DraftWhole(d)'
              /\ draft[d].mode # "none" =>
                    /\ draft'[d].mode # "none"
                    /\ draft'[d].mode \in Modes => draft'[d].mode = draft[d].mode /\ draft'[d].char = draft[d].char
<1> draft \in [Drafts -> DraftRecords] /\ \A d \in Drafts : draft[d] \in DraftRecords /\ DraftWhole(d)
    BY DEF TypeOK, RowsTyped, CallsNamed
<1>1. CASE UNCHANGED draft
    BY <1>1 DEF DraftWhole
<1>2. ASSUME NEW d \in Drafts, Drafted(d) PROVE Result
  <2>1. PICK x \in DraftRecords :
           /\ draft[d] = NoDraft /\ draft' = [draft EXCEPT ![d] = x] /\ x.to = None
           /\ \/ x.mode = "create" /\ x.char = None
              \/ x.mode \in Modes \ {"create"} /\ x.char \in Characters
      BY <1>2 DEF Drafted
  <2>2. draft[d].mode = "none"
      BY <2>1 DEF NoDraft
  <2> QED
      BY <2>1, <2>2 DEF DraftWhole, Modes
<1>3. ASSUME NEW k \in Calls, DraftWrote(k) PROVE Result
  <2> DEFINE d == call[k].d
             x == [draft[d] EXCEPT !.rev = @ + 1]
             y == [NoDraft EXCEPT !.mode = "gone"]
  <2>1. d \in Drafts /\ Open(d) /\ (draft' = [draft EXCEPT ![d] = x] \/ draft' = [draft EXCEPT ![d] = y])
      BY <1>3 DEF DraftWrote
  <2>2. x.mode = draft[d].mode /\ x.char = draft[d].char /\ x.to = draft[d].to
      BY <2>1 DEF DraftRecords
  <2>3. y.mode = "gone" /\ y.char = None /\ y.to = None
      BY DEF NoDraft
  <2> HIDE DEF x, y
  <2> QED
      BY <2>1, <2>2, <2>3 DEF DraftWhole, Modes, Open
<1>4. ASSUME NEW d \in Drafts, draft[d].mode # "none", NEW v \in Versions, draft' = Confirmed(d, v) PROVE Result
  <2>1. d \in Drafts /\ draft[d].mode \in Modes \cup {"gone"}
      BY <1>4 DEF DraftRecords
  <2> QED
      BY <1>4, <2>1, ConfirmedIs DEF DraftWhole, Modes
<1>5. ASSUME NEW k \in Calls, Deleted(k) PROVE Result
    BY <1>5, DeletedIs DEF DraftWhole, Modes
<1>6. ASSUME NEW k \in Calls, Created(k) \/ Committed(k) PROVE Result
  <2>1. call[k].d \in Drafts /\ draft[call[k].d].mode # "none"
      BY <1>6 DEF Created, Committed, At, CallsNamed, Named, DraftOps
  <2>2. PICK v \in Versions : draft' = Confirmed(call[k].d, v)
      BY <1>6 DEF Created, Committed, NextVersion
  <2> QED
      BY <1>4, <2>1, <2>2
<1>7. ASSUME NEW k \in Calls, Moves(k) PROVE Result
  <2>1. CASE UNCHANGED rows
      BY <1>1, <2>1 DEF rows
  <2>2. CASE Wrote(k)
      BY <1>1, <2>2 DEF Wrote
  <2>3. ASSUME NEW r, Onward(k, r) PROVE UNCHANGED rows
      BY <2>3, OnwardTyped DEF Goes
  <2> QED
      BY <1>3, <1>5, <1>6, <1>7, <2>1, <2>2, <2>3 DEF Moves, Began, Refused
<1>8. CASE Lives
    BY <1>1, <1>2, <1>8 DEF Lives, Import, Lease, SetArchived
<1>9. CASE UNCHANGED vars
    BY <1>1, <1>9 DEF vars, rows
<1> QED
    BY <1>7, <1>8, <1>9, NextDoes

LEMMA CallsNamedKept ==
    ASSUME TypeOK, CallsNamed, [Next]_vars
    PROVE  CallsNamed'
<1>1. ASSUME NEW j \in Calls, call'[j] = call[j] PROVE Named(j)'
  <2>1. Named(j)
      BY DEF CallsNamed
  <2> QED
      BY <1>1, <2>1, DraftsGoOn DEF Named
<1>2. ASSUME NEW j \in Calls, call'[j] = Idle PROVE Named(j)'
    BY <1>2, IdleIs DEF Named, DraftOps
<1>3. ASSUME NEW k \in Calls, Moves(k) PROVE Named(k)'
  <2>1. Named(k) /\ call[k] \in CallRecords
      BY CallTyped DEF CallsNamed
  <2>2. CASE Began(k)
    <3>1. UNCHANGED draft
        BY <2>2 DEF Began, rows
    <3>2. PICK r \in CallRecords :
             /\ call'[k] = r
             /\ \/ /\ r.op \in {"patch", "table"} /\ r.c \in Characters /\ r.f \in Fields
                   /\ r.at = "lock" \/ (r.at = "read" /\ ~web)
                \/ /\ r.op = "delete" /\ r.c \in Characters /\ r.at = "read"
                \/ /\ r.op \in DraftOps /\ r.d \in Drafts /\ draft[r.d].char = r.c
                   /\ r.at = IF web /\ r.c # None THEN "lock" ELSE "read"
                   /\ draft[r.d].mode \in Modes
        BY <2>2 DEF Began
    <3>3. r.c \in Characters \cup {None}
        BY DEF CallRecords
    <3>4. r.op \in DraftOps => draft[r.d].mode \in Modes
        BY <3>2 DEF DraftOps
    <3>5. r.op \in DraftOps => draft[r.d].mode # "none"
        BY <3>4 DEF Modes
    <3> QED
        BY <3>1, <3>2, <3>3, <3>5 DEF Named, DraftOps
  <2>3. CASE Ended(k)
      BY <1>2, <2>3 DEF Ended
  <2>4. ASSUME NEW r, Onward(k, r) PROVE Named(k)'
    <3>1. /\ call'[k] = r /\ r.op = call[k].op /\ r.c = call[k].c /\ r.d = call[k].d
          /\ UNCHANGED draft
        BY <2>4, OnwardTyped DEF Goes, Advanced, rows
    <3>2. call[k].op # "none" \/ call[k] = Idle
        BY <2>1 DEF Named
    <3>3. call[k].op # "none"
        BY <2>4, <3>2, IdleIs DEF Onward, Scoped, HasRead, ReadsAgain, Compiles, LocksDraft, LocksRows, ToDelete, LocksState, At, IsStateWrite
    <3>4. call[k].op \in {"patch", "table"} => r.f \in Fields /\ r.at \in {"read", "write"}
        BY <2>1, <2>4 DEF Named, Onward, Scoped, HasRead, ReadsAgain, Compiles, LocksDraft, LocksRows, ToDelete, LocksState, At, IsStateWrite, DraftOps
    <3>5. call[k].op = "delete" => r.at \in {"states", "rows"}
        BY <2>1, <2>4 DEF Named, Onward, Scoped, HasRead, ReadsAgain, Compiles, LocksDraft, LocksRows, ToDelete, LocksState, At, IsStateWrite, DraftOps
    <3>6. call[k].op \in DraftOps =>
             /\ r.at = "read" \/ (call[k].op = "confirm" /\ r.at \in {"draft", "create", "rows", "commit"})
             /\ r.at = "commit" => call[k].at = "rows"
             /\ r.at = "rows" => Open(call[k].d) /\ draft[call[k].d].mode # "create"
        BY <2>1, <2>4 DEF Named, Onward, Scoped, HasRead, ReadsAgain, Compiles, LocksDraft, LocksRows, ToDelete, LocksState, At, IsStateWrite, DraftOps
    <3>7. call[k].op \in DraftOps /\ r.at \in {"lock", "rows", "commit"} => r.c \in Characters
        BY <2>1, <3>1, <3>6 DEF Named, CallsNamed, DraftWhole, Open, DraftOps
    <3> QED
        BY <2>1, <3>1, <3>3, <3>4, <3>5, <3>6, <3>7 DEF Named, DraftOps
  <2> QED
      BY <1>3, <2>2, <2>3, <2>4 DEF Moves, Refused
<1>4. ASSUME NEW k \in Calls, Moves(k), NEW j \in Calls, j # k PROVE call'[j] = call[j]
  <2>1. CASE \E r : Onward(k, r)
      BY <1>4, <2>1, OnwardTyped DEF Goes, Advanced
  <2> QED
      BY <1>4, <2>1 DEF Moves, Began, Refused, Ended
<1>5. \A j \in Calls : Named(j)'
  <2>1. CASE UNCHANGED call
      BY <1>1, <2>1
  <2> QED
      BY <1>1, <1>3, <1>4, <2>1, NextDoes DEF Lives, vars
<1> QED
    BY <1>5, DraftsGoOn DEF CallsNamed

-----------------------------------------------------------------------------
\* what became of call j: nothing, it is new, it was answered or it went on
LEMMA CallsAre ==
    ASSUME TypeOK, CallsNamed, [Next]_vars, NEW j \in Calls
    PROVE  \/ call'[j] = call[j]
           \/ call'[j] = Idle
           \/ Began(j)
           \/ \E r : Onward(j, r) /\ call'[j] = r /\ UNCHANGED <<rows, intended>>
<1>1. CASE UNCHANGED call
    BY <1>1
<1>2. ASSUME NEW k \in Calls, Moves(k), j # k PROVE call'[j] = call[j]
  <2>1. CASE \E r : Onward(k, r)
      BY <1>2, <2>1, OnwardTyped DEF Goes, Advanced
  <2> QED
      BY <1>2, <2>1 DEF Moves, Began, Refused, Ended
<1>3. CASE Moves(j)
  <2>1. CASE \E r : Onward(j, r)
      BY <2>1, OnwardTyped DEF Goes, Advanced
  <2> QED
      BY <1>3, <2>1 DEF Moves, Refused, Ended
<1> QED
    BY <1>1, <1>2, <1>3, NextDoes DEF Lives, vars

\* a Character that exists: its State and its version change with its revision
LEMMA CharactersGoOn ==
    ASSUME TypeOK, CallsNamed, [Next]_vars, NEW c \in Characters, status[c] # "none"
    PROVE  /\ status'[c] # "none" /\ revision[c] <= revision'[c]
           /\ status'[c] # "deleted" => status[c] # "deleted"
           /\ revision'[c] = revision[c] =>
                 state'[c] = state[c] /\ (status'[c] # "deleted" => current'[c] = current[c])
<1> DEFINE Result ==
           /\ status'[c] # "none" /\ revision[c] <= revision'[c]
           /\ status'[c] # "deleted" => status[c] # "deleted"
           /\ revision'[c] = revision[c] =>
                 state'[c] = state[c] /\ (status'[c] # "deleted" => current'[c] = current[c])
<1> /\ revision \in [Characters -> Nat] /\ current \in [Characters -> VersionIds] /\ state \in [Characters -> States]
    /\ status \in [Characters -> {"none", "active", "archived", "deleted"}]
    BY DEF TypeOK, RowsTyped
<1> revision[c] \in Nat
    OBVIOUS
<1>1. CASE UNCHANGED <<status, current, state, revision>>
    BY <1>1
<1>2. ASSUME NEW e \in Characters, NEW v, NEW d, NEW build, NEW kept, InsertCharacter(e, v, d, build, kept), UNCHANGED state
      PROVE  Result
    BY <1>2 DEF InsertCharacter
<1>3. ASSUME NEW e \in Characters, NEW to \in {"active", "archived"}, SetArchived(e, to) PROVE Result
    BY <1>3 DEF SetArchived
<1>4. ASSUME NEW k \in Calls, Wrote(k) PROVE Result
    BY <1>4, CallTyped DEF Wrote, Unchanged
<1>5. ASSUME NEW k \in Calls, Committed(k) PROVE Result
    BY <1>5, CallTyped DEF Committed, NextVersion, Reconciles
<1>6. ASSUME NEW k \in Calls, Deleted(k) PROVE Result
    BY <1>6 DEF Deleted
<1>7. CASE Lives
    BY <1>1, <1>2, <1>3, <1>7 DEF Lives, Drafted, Import, Lease
<1>8. ASSUME NEW k \in Calls, Moves(k) PROVE Result
  <2>1. CASE UNCHANGED rows
      BY <1>1, <2>1 DEF rows
  <2>2. ASSUME NEW r, Onward(k, r) PROVE UNCHANGED rows
      BY <2>2, OnwardTyped DEF Goes
  <2>3. CASE Created(k)
      BY <1>2, <2>3 DEF Created
  <2>4. CASE DraftWrote(k)
      BY <1>1, <2>4 DEF DraftWrote
  <2> QED
      BY <1>4, <1>5, <1>6, <1>8, <2>1, <2>2, <2>3, <2>4 DEF Moves, Began, Refused
<1>9. CASE UNCHANGED vars
    BY <1>1, <1>9 DEF vars, rows
<1> QED
    BY <1>7, <1>8, <1>9, NextDoes

LEMMA SnapshotKept ==
    ASSUME TypeOK, CallsNamed, StateInv, [Next]_vars, NEW j \in Calls
    PROVE  Snapshot(j)'
<1>0. Snapshot(j) /\ Named(j) /\ call[j].rev \in Nat
    BY CallTyped DEF StateInv, CallsNamed
<1>00. \A c \in Characters : revision[c] \in Nat
    BY DEF TypeOK, RowsTyped
<1>1. CASE call'[j] = call[j]
  <2>1. CASE call[j].at \in {"write", "commit"}
    <3>1. call[j].c \in Characters /\ status[call[j].c] # "none"
        BY <1>0, <2>1, IdleIs DEF Named, Snapshot, DraftOps, TypeOK, CallRecords, Ops
    <3> DEFINE c == call[j].c
    <3>2. /\ status'[c] # "none" /\ revision[c] <= revision'[c]
          /\ status'[c] # "deleted" => status[c] # "deleted"
          /\ revision'[c] = revision[c] =>
                state'[c] = state[c] /\ (status'[c] # "deleted" => current'[c] = current[c])
        BY <3>1, CharactersGoOn
    <3>3. revision[c] \in Nat /\ revision'[c] \in Nat
        BY <1>00, <3>1, TypeKept DEF TypeOK, RowsTyped
    <3> QED
        BY <1>0, <1>1, <2>1, <3>1, <3>2, <3>3 DEF Snapshot
  <2> QED
      BY <1>1, <2>1 DEF Snapshot
<1>2. CASE call'[j] = Idle
    BY <1>2, IdleIs DEF Snapshot
<1>3. CASE Began(j)
    BY <1>3 DEF Began, Snapshot
<1>4. ASSUME NEW r, Onward(j, r), call'[j] = r, UNCHANGED <<rows, intended>> PROVE Snapshot(j)'
  <2>1. r.c = call[j].c
      BY <1>4, OnwardTyped DEF Goes, Advanced
  <2>2. CASE HasRead(j, r)
    <3>1. r.c \in Characters
        BY <1>0, <2>1, <2>2 DEF HasRead, IsStateWrite, Named
    <3> QED
        BY <1>00, <1>4, <2>2, <3>1 DEF HasRead, Snapshot, rows
  <2>3. CASE LocksRows(j, r)
    <3>1. r.c \in Characters
        BY <1>0, <2>1, <2>3 DEF LocksRows, At, DraftOps, Named
    <3> QED
        BY <1>00, <1>4, <2>3, <3>1 DEF LocksRows, Snapshot, rows
  <2>4. CASE r.at \notin {"write", "commit"}
      BY <1>4, <2>4 DEF Snapshot
  <2> QED
      BY <1>4, <2>2, <2>3, <2>4 DEF Onward, Scoped, ReadsAgain, Compiles, LocksDraft, ToDelete, LocksState
<1> QED
    BY <1>1, <1>2, <1>3, <1>4, CallsAre

LEMMA StateKept ==
    ASSUME TypeOK, CallsNamed, StateInv, [Next]_vars
    PROVE  StateInv'
<1> DEFINE Good == \A c \in Characters : state[c] = intended[c] /\ validFor[c] = current[c]
<1> SUFFICES Good'
    BY SnapshotKept DEF StateInv
<1> Good
    BY DEF StateInv
<1> /\ current \in [Characters -> VersionIds] /\ validFor \in [Characters -> VersionIds]
    /\ state \in [Characters -> States] /\ intended \in [Characters -> States]
    BY DEF TypeOK, RowsTyped
<1>1. CASE UNCHANGED <<current, state, validFor, intended>>
    BY <1>1
<1>2. ASSUME NEW e \in Characters, NEW v, NEW d, NEW build, NEW kept, InsertCharacter(e, v, d, build, kept),
             UNCHANGED <<state, intended>>
      PROVE  Good'
    BY <1>2 DEF InsertCharacter
<1>3. ASSUME NEW k \in Calls, Wrote(k) PROVE Good'
  <2> DEFINE c == call[k].c
             f == call[k].f
             s == [intended[c] EXCEPT ![f] = k]
  <2>1. Snapshot(k) /\ call[k].at = "write" /\ call[k].rev = revision[c] /\ current[c] = call[k].pin /\ c \in Characters
      BY <1>3 DEF StateInv, Wrote, Unchanged
  <2>2. call[k].seen = state[c] /\ state[c] = intended[c]
      BY <2>1 DEF Snapshot
  <2>3. state' = [state EXCEPT ![c] = s] /\ intended' = [intended EXCEPT ![c] = s]
      BY <1>3, <2>2 DEF Wrote
  <2>4. validFor' = [validFor EXCEPT ![c] = current[c]] /\ current' = current
      BY <1>3, <2>1 DEF Wrote
  <2> HIDE DEF s
  <2> QED
      BY <2>1, <2>3, <2>4
<1>4. ASSUME NEW k \in Calls, Committed(k) PROVE Good'
  <2> DEFINE c == call[k].c
  <2>1. Snapshot(k) /\ call[k].at = "commit" /\ call[k].rev = revision[c] /\ c \in Characters
      BY <1>4 DEF StateInv, Committed, Reconciles, At
  <2>2. call[k].seen = state[c]
      BY <2>1 DEF Snapshot
  <2>3. PICK v \in Versions : current' = [current EXCEPT ![c] = v] /\ validFor' = [validFor EXCEPT ![c] = v]
      BY <1>4 DEF Committed, NextVersion
  <2>4. state' = state /\ intended' = intended
      BY <1>4, <2>2 DEF Committed
  <2> QED
      BY <2>3, <2>4
<1>5. ASSUME NEW k \in Calls, Deleted(k) PROVE Good'
    BY <1>5 DEF Deleted
<1>6. CASE Lives
    BY <1>1, <1>2, <1>6 DEF Lives, Drafted, Import, Lease, SetArchived
<1>7. ASSUME NEW k \in Calls, Moves(k) PROVE Good'
  <2>1. CASE UNCHANGED <<rows, intended>>
      BY <1>1, <2>1 DEF rows
  <2>2. ASSUME NEW r, Onward(k, r) PROVE UNCHANGED <<rows, intended>>
      BY <2>2, OnwardTyped DEF Goes
  <2>3. CASE Created(k)
      BY <1>2, <2>3 DEF Created
  <2>4. CASE DraftWrote(k)
      BY <1>1, <2>4 DEF DraftWrote
  <2> QED
      BY <1>3, <1>4, <1>5, <1>7, <2>1, <2>2, <2>3, <2>4 DEF Moves, Began, Refused
<1>8. CASE UNCHANGED vars
    BY <1>1, <1>8 DEF vars, rows
<1> QED
    BY <1>6, <1>7, <1>8, NextDoes

-----------------------------------------------------------------------------
LEMMA VersionsAre ==
    ASSUME TypeOK
    PROVE  /\ version \in [Versions -> VersionRecords] /\ current \in [Characters -> VersionIds]
           /\ status \in [Characters -> {"none", "active", "archived", "deleted"}]
           /\ \A v \in Versions : version[v].parent \in VersionIds /\ version[v].super \in VersionIds
                                  /\ version[v].from \in Drafts \cup {None}
           /\ None \notin Versions
<1>1. version \in [Versions -> VersionRecords]
    BY DEF TypeOK, RowsTyped
<1> QED
    BY <1>1, NoneApart DEF TypeOK, RowsTyped, VersionRecords

LEMMA ChainInserted ==
    ASSUME TypeOK, Chain, NEW c \in Characters, NEW v \in Versions, NEW d \in Drafts \cup {None},
           NEW build \in Nat, NEW kept \in Nat, InsertCharacter(c, v, d, build, kept)
    PROVE  Chain'
<1>1. /\ version'[v].is = "kept" /\ version'[v].char = c
      /\ version'[v].parent = None /\ version'[v].super = None
      /\ \A w \in Versions \ {v} : version'[w] = version[w]
    BY InsertIs
<1>2. /\ status[c] = "none" /\ status' = [status EXCEPT ![c] = "active"]
      /\ current' = [current EXCEPT ![c] = v] /\ ~Kept(v)
    BY DEF InsertCharacter, NewVersion, Kept
<1>3. \A w \in Versions \ {v} : version'[w] = version[w] /\ (Kept(w) => version[w].char # c)
    BY <1>1, <1>2, VersionsAre DEF Chain, OwnerExists, Exists
<1>5. UnkeptIsBlank'
    BY <1>1, <1>3 DEF Chain, UnkeptIsBlank, Kept
<1>6. OwnerExists'
    BY <1>1, <1>2, <1>3, VersionsAre DEF Chain, OwnerExists, Kept, Exists
<1>7. CurrentIsKept'
    BY <1>1, <1>2, <1>3, VersionsAre DEF Chain, CurrentIsKept, Kept, Exists
<1>8. ParentIsKept'
    BY <1>1, <1>2, <1>3, VersionsAre DEF Chain, ParentIsKept, OwnerExists, Kept
<1>9. OneChild'
    BY <1>1, <1>3 DEF Chain, OneChild, Kept
<1>10. HasAChild'
    BY <1>1, <1>2, <1>3, VersionsAre DEF Chain, HasAChild, OwnerExists, Kept
<1>11. SupersededByChild'
    BY <1>1, <1>2, <1>3, VersionsAre DEF Chain, SupersededByChild, Kept
<1> QED
    BY <1>5, <1>6, <1>7, <1>8, <1>9, <1>10, <1>11 DEF Chain

LEMMA ChainCommitted ==
    ASSUME TypeOK, StateInv, Chain, NEW k \in Calls, Committed(k)
    PROVE  Chain'
<1> DEFINE c == call[k].c
           p == call[k].pin
<1>1. c \in Characters /\ call[k].d \in Drafts /\ status' = status
    BY DEF Committed
<1>2. Exists(c) /\ p = current[c]
  <2>1. Snapshot(k) /\ call[k].at = "commit" /\ call[k].rev = revision[c] /\ status[c] # "deleted"
      BY DEF StateInv, Committed, Reconciles, At
  <2>2. status[c] \in {"none", "active", "archived", "deleted"} /\ status[c] # "none" /\ p = current[c]
      BY <1>1, <2>1, VersionsAre DEF Snapshot
  <2> QED
      BY <2>1, <2>2 DEF Exists
<1>3. PICK v \in Versions : NextVersion(k, v)
    BY DEF Committed
<1>4. /\ version'[v].is = "kept" /\ version'[v].char = c /\ version'[v].parent = p /\ version'[v].super = None
      /\ \A w \in Versions \ {v} :
            /\ version'[w].is = version[w].is /\ version'[w].char = version[w].char
            /\ version'[w].parent = version[w].parent /\ version'[w].from = version[w].from
            /\ version'[w].super = version[w].super \/ (w = p /\ version'[w].super = v)
    BY <1>1, <1>3, NextVersionIs
<1>5. current' = [current EXCEPT ![c] = v] /\ ~Kept(v)
    BY <1>3 DEF NextVersion, NewVersion, Kept
<1>6. p \in Versions /\ Kept(p) /\ version[p].char = c /\ p # v
    BY <1>1, <1>2, <1>5 DEF Chain, CurrentIsKept
<1>7. UnkeptIsBlank'
    BY <1>4, <1>6 DEF Chain, UnkeptIsBlank, Kept
<1>8. OwnerExists'
    BY <1>1, <1>2, <1>4 DEF Chain, OwnerExists, Kept, Exists
<1>9. CurrentIsKept'
    BY <1>1, <1>4, <1>5, VersionsAre DEF Chain, CurrentIsKept, Kept, Exists
<1>10. ParentIsKept'
    BY <1>1, <1>2, <1>4, <1>5, <1>6, VersionsAre DEF Chain, ParentIsKept, OwnerExists, Kept
<1>11. OneChild'
    BY <1>2, <1>4, <1>6, VersionsAre DEF Chain, OneChild, ParentIsKept, Kept
<1>12. HasAChild'
    BY <1>1, <1>2, <1>4, <1>5, <1>6, VersionsAre DEF Chain, HasAChild, OwnerExists, Kept
<1>13. SupersededByChild'
    BY <1>4, <1>5, <1>6, VersionsAre DEF Chain, SupersededByChild, Kept
<1> QED
    BY <1>7, <1>8, <1>9, <1>10, <1>11, <1>12, <1>13 DEF Chain

LEMMA ChainDeleted ==
    ASSUME TypeOK, Chain, NEW k \in Calls, Deleted(k)
    PROVE  Chain'
<1> DEFINE c == call[k].c
<1>1. c \in Characters /\ status' = [status EXCEPT ![c] = "deleted"] /\ current' = [current EXCEPT ![c] = None]
    BY DEF Deleted
<1>2. \A v \in Versions :
         IF version[v].char = c
         THEN /\ version'[v].is = "gone" /\ version'[v].char = None /\ version'[v].parent = None
              /\ version'[v].from = None /\ version'[v].super = None
         ELSE version'[v] = version[v]
    BY DeletedIs
<1>3. UnkeptIsBlank'
    BY <1>2 DEF Chain, UnkeptIsBlank, Kept
<1>4. OwnerExists'
    BY <1>1, <1>2, VersionsAre DEF Chain, OwnerExists, Kept, Exists
<1>5. CurrentIsKept'
    BY <1>1, <1>2, VersionsAre DEF Chain, CurrentIsKept, Kept, Exists
<1>6. ParentIsKept'
    BY <1>1, <1>2, VersionsAre DEF Chain, ParentIsKept, OwnerExists, Kept
<1>7. OneChild'
    BY <1>2 DEF Chain, OneChild, Kept
<1>8. HasAChild'
    BY <1>1, <1>2, VersionsAre DEF Chain, HasAChild, ParentIsKept, OwnerExists, Kept
<1>9. SupersededByChild'
    BY <1>2, VersionsAre DEF Chain, SupersededByChild, ParentIsKept, Kept
<1> QED
    BY <1>3, <1>4, <1>5, <1>6, <1>7, <1>8, <1>9 DEF Chain

LEMMA ChainKept ==
    ASSUME TypeOK, CallsNamed, StateInv, Chain, [Next]_vars
    PROVE  Chain'
<1> USE DEF Chain, UnkeptIsBlank, OwnerExists, CurrentIsKept, ParentIsKept, OneChild, HasAChild, SupersededByChild, Kept
<1>1. CASE UNCHANGED <<current, version>> /\ \A c \in Characters : Exists(c) <=> Exists(c)'
    BY <1>1
<1> HIDE DEF Chain, UnkeptIsBlank, OwnerExists, CurrentIsKept, ParentIsKept, OneChild, HasAChild, SupersededByChild, Kept
<1>2. CASE UNCHANGED <<status, current, version>>
    BY <1>1, <1>2 DEF Exists
<1>3. CASE Lives
  <2>1. CASE Import
      BY <2>1, ChainInserted DEF Import
  <2>2. ASSUME NEW c \in Characters, NEW to \in {"active", "archived"}, SetArchived(c, to) PROVE Chain'
      BY <1>1, <2>2, VersionsAre DEF SetArchived, Exists
  <2> QED
      BY <1>2, <1>3, <2>1, <2>2 DEF Lives, Drafted, Lease
<1>4. ASSUME NEW k \in Calls, Moves(k) PROVE Chain'
  <2>1. CASE UNCHANGED rows
      BY <1>2, <2>1 DEF rows
  <2>2. ASSUME NEW r, Onward(k, r) PROVE UNCHANGED rows
      BY <2>2, OnwardTyped DEF Goes
  <2>3. CASE Created(k)
      BY <2>3, ChainInserted, CallTyped DEF Created
  <2>4. CASE DraftWrote(k) \/ Wrote(k)
      BY <1>2, <2>4 DEF DraftWrote, Wrote
  <2> QED
      BY <1>4, <2>1, <2>2, <2>3, <2>4, ChainCommitted, ChainDeleted DEF Moves, Began, Refused
<1>5. CASE UNCHANGED vars
    BY <1>2, <1>5 DEF vars, rows
<1> QED
    BY <1>3, <1>4, <1>5, NextDoes

-----------------------------------------------------------------------------
LEMMA CompiledKept ==
    ASSUME TypeOK, CallsNamed, Compiled, [Next]_vars
    PROVE  Compiled'
<1>1. ASSUME NEW j \in Calls, Confirming(j)' PROVE call'[j].build = call'[j].kept
  <2>1. CASE call'[j] = call[j]
      BY <1>1, <2>1 DEF Compiled, Confirming
  <2>2. CASE call'[j] = Idle
      BY <1>1, <2>2, IdleIs DEF Confirming
  <2>3. CASE Began(j)
      BY <1>1, <2>3 DEF Began, Confirming, DraftOps
  <2>4. ASSUME NEW r, Onward(j, r), call'[j] = r PROVE r.build = r.kept
    <3>1. r.op = call[j].op
        BY <2>4, OnwardTyped DEF Goes, Advanced
    <3>2. CASE LocksDraft(j, r)
        BY <3>2 DEF LocksDraft
    <3>3. CASE LocksRows(j, r)
        BY <3>3 DEF LocksRows, Knows, Compiled, Confirming, At
    <3>4. CASE ~LocksDraft(j, r) /\ ~LocksRows(j, r)
        BY <1>1, <2>4, <3>1, <3>4
           DEF Confirming, Onward, Scoped, HasRead, ReadsAgain, Compiles, ToDelete, LocksState, At, IsStateWrite
    <3> QED
        BY <3>2, <3>3, <3>4
  <2> QED
      BY <2>1, <2>2, <2>3, <2>4, CallsAre
<1>2. ConfirmedAsCompiled'
  <2> USE DEF ConfirmedAsCompiled
  <2> ConfirmedAsCompiled
      BY DEF Compiled
  <2>1. CASE UNCHANGED version
      BY <2>1
  <2>2. ASSUME NEW c \in Characters, NEW v \in Versions, NEW d \in Drafts \cup {None},
               NEW build \in Nat, NEW kept \in Nat, d # None => build = kept, InsertCharacter(c, v, d, build, kept)
        PROVE  ConfirmedAsCompiled'
    <3>1. /\ version'[v].from = d /\ version'[v].build = build /\ version'[v].kept = kept
          /\ \A w \in Versions \ {v} : version'[w] = version[w]
        BY <2>2, InsertIs
    <3> QED
        BY <2>2, <3>1
  <2>3. CASE Lives
    <3>1. CASE Import
        BY <2>2, <3>1 DEF Import
    <3> QED
        BY <2>1, <2>3, <3>1 DEF Lives, Drafted, Lease, SetArchived
  <2>4. ASSUME NEW k \in Calls, Created(k) PROVE ConfirmedAsCompiled'
      BY <2>2, <2>4, CallTyped DEF Created, Compiled, Confirming, At
  <2>5. ASSUME NEW k \in Calls, Committed(k) PROVE ConfirmedAsCompiled'
    <3>1. call[k].build = call[k].kept /\ call[k].c \in Characters /\ call[k].d \in Drafts
        BY <2>5 DEF Committed, Compiled, Confirming, At
    <3>2. PICK v \in Versions : NextVersion(k, v)
        BY <2>5 DEF Committed
    <3> QED
        BY <3>1, <3>2, NextVersionIs
  <2>6. ASSUME NEW k \in Calls, Deleted(k) PROVE ConfirmedAsCompiled'
      BY <2>6, DeletedIs
  <2>7. ASSUME NEW k \in Calls, Moves(k) PROVE ConfirmedAsCompiled'
    <3>1. CASE UNCHANGED rows
        BY <2>1, <3>1 DEF rows
    <3>2. ASSUME NEW r, Onward(k, r) PROVE UNCHANGED rows
        BY <3>2, OnwardTyped DEF Goes
    <3>3. CASE DraftWrote(k) \/ Wrote(k)
        BY <2>1, <3>3 DEF DraftWrote, Wrote
    <3> QED
        BY <2>4, <2>5, <2>6, <2>7, <3>1, <3>2, <3>3 DEF Moves, Began, Refused
  <2>8. CASE UNCHANGED vars
      BY <2>1, <2>8 DEF vars, rows
  <2> QED
      BY <2>3, <2>7, <2>8, NextDoes
<1> QED
    BY <1>1, <1>2 DEF Compiled

-----------------------------------------------------------------------------
\* what call k may hold afterwards it held before, or has just locked; it keeps
\* what it holds until it is answered
LEMMA LocksAre ==
    ASSUME TypeOK, CallsNamed, [Next]_vars
    PROVE  \/ UNCHANGED <<locks, call>>
           \/ \E k \in Calls : Began(k) /\ UNCHANGED locks
           \/ \E k \in Calls : Ended(k)
           \/ \E k \in Calls : \E r : Onward(k, r)
BY NextDoes DEF Moves, Lives, Refused, Began, vars

LEMMA HeldStays ==
    ASSUME TypeOK, CallsNamed, [Next]_vars, NEW j \in Calls, NEW x \in Rows, locks[x] = j
    PROVE  locks'[x] = j \/ call'[j] = Idle
<1> j # None
    BY NoneApart
<1>1. CASE UNCHANGED locks
    BY <1>1
<1>2. ASSUME NEW k \in Calls, Ended(k) PROVE locks'[x] = j \/ call'[j] = Idle
    BY <1>2 DEF Ended
<1>3. ASSUME NEW k \in Calls, NEW r, Onward(k, r) PROVE locks'[x] = j
    BY <1>3 DEF Onward, Scoped, HasRead, ReadsAgain, Compiles, LocksDraft, LocksRows, ToDelete, LocksState, Locked
<1> QED
    BY <1>1, <1>2, <1>3, LocksAre

LEMMA LocksHeldKept ==
    ASSUME TypeOK, CallsNamed, LocksHeld, [Next]_vars
    PROVE  LocksHeld'
<1>1. ~web' => \A x \in Rows : locks'[x] = None
  <2> SUFFICES ASSUME ~web, NEW x \in Rows PROVE locks'[x] = None
      BY NextDoes DEF vars
  <2>1. locks[x] = None
      BY DEF LocksHeld
  <2>2. ASSUME NEW k \in Calls, Ended(k) PROVE locks'[x] = None
      BY <2>1, <2>2 DEF Ended
  <2>3. ASSUME NEW k \in Calls, NEW r, Onward(k, r) PROVE locks'[x] = None
      BY <2>1, <2>3 DEF Onward, Scoped, HasRead, ReadsAgain, Compiles, LocksDraft, LocksRows, ToDelete, LocksState, Locked
  <2> QED
      BY <2>1, <2>2, <2>3, LocksAre
<1>2. ASSUME NEW j \in Calls, NEW x \in Rows, locks'[x] = j PROVE MayHold(j, x)'
  <2> j # None
      BY NoneApart
  <2> USE DEF MayHold, Confirming, At
  <2>1. CASE locks[x] = j /\ call'[j] = call[j]
      BY <2>1 DEF LocksHeld
  <2>2. ASSUME NEW k \in Calls, Ended(k), j # k PROVE locks[x] = j /\ call'[j] = call[j]
      BY <1>2, <2>2 DEF Ended
  <2>3. ~Ended(j)
      BY <1>2 DEF Ended
  <2>4. ASSUME NEW k \in Calls, Began(k) PROVE MayHold(j, x)'
    <3>1. locks[x] = j
        BY <1>2, <2>4 DEF Began
    <3>2. call[k] = Idle /\ MayHold(j, x)
        BY <2>4, <3>1 DEF Began, LocksHeld
    <3>3. j # k
        BY <3>2, IdleIs
    <3> QED
        BY <2>1, <2>4, <3>1, <3>3 DEF Began
  <2>5. ASSUME NEW k \in Calls, NEW r, Onward(k, r), j # k PROVE locks[x] = j /\ call'[j] = call[j]
    <3>1. call'[j] = call[j]
        BY <2>5, OnwardTyped DEF Goes, Advanced
    <3>2. locks[x] = j
        BY <1>2, <2>5 DEF Onward, Scoped, HasRead, ReadsAgain, Compiles, LocksDraft, LocksRows, ToDelete, LocksState, Locked
    <3> QED
        BY <3>1, <3>2
  <2>6. ASSUME NEW r, Onward(j, r) PROVE MayHold(j, x)'
    <3>1. call'[j] = r /\ r.op = call[j].op /\ r.c = call[j].c /\ r.d = call[j].d
        BY <2>6, OnwardTyped DEF Goes, Advanced
    <3>2. locks[x] = j => MayHold(j, x)
        BY DEF LocksHeld
    <3>3. CASE Scoped(j, r)
        BY <1>2, <3>1, <3>2, <3>3 DEF Scoped, Locked, DraftOps
    <3>4. CASE LocksDraft(j, r)
        BY <1>2, <3>1, <3>2, <3>4 DEF LocksDraft, Locked
    <3>5. CASE LocksRows(j, r)
        BY <1>2, <3>1, <3>2, <3>5 DEF LocksRows
    <3>6. CASE LocksState(j, r)
        BY <1>2, <3>1, <3>2, <3>6 DEF LocksState, Locked
    <3>7. CASE ReadsAgain(j, r)
        BY <1>2, <3>7, NoneApart DEF ReadsAgain, LocksHeld
    <3>8. CASE HasRead(j, r) \/ Compiles(j, r) \/ ToDelete(j, r)
        BY <1>2, <3>1, <3>2, <3>8 DEF HasRead, Compiles, ToDelete, IsStateWrite
    <3> QED
        BY <2>6, <3>3, <3>4, <3>5, <3>6, <3>7, <3>8 DEF Onward
  <2> QED
      BY <1>2, <2>1, <2>2, <2>3, <2>4, <2>5, <2>6, LocksAre
<1>3. ASSUME NEW j \in Calls, web', call'[j].op = "confirm", call'[j].at # "lock", call'[j].c \in Characters
      PROVE  locks'[CharRow(call'[j].c)] = j
  <2>0. web /\ CharRow(call'[j].c) \in Rows
      BY <1>3, NextDoes, RowsAre DEF vars
  <2>1. CASE call'[j] = call[j]
    <3>1. locks[CharRow(call[j].c)] = j
        BY <1>3, <2>0, <2>1 DEF LocksHeld
    <3> QED
        BY <1>3, <2>0, <2>1, <3>1, HeldStays, IdleIs
  <2>2. CASE call'[j] = Idle
      BY <1>3, <2>2, IdleIs
  <2>3. CASE Began(j)
      BY <1>3, <2>0, <2>3, NoneApart DEF Began, DraftOps
  <2>4. ASSUME NEW r, Onward(j, r), call'[j] = r PROVE locks'[CharRow(call'[j].c)] = j
    <3>1. r.op = call[j].op /\ r.c = call[j].c
        BY <2>4, OnwardTyped DEF Goes, Advanced
    <3>2. CASE call[j].at = "lock"
        BY <1>3, <2>0, <2>4, <3>1, <3>2
           DEF Onward, Scoped, HasRead, ReadsAgain, Compiles, LocksDraft, LocksRows, ToDelete, LocksState, At, IsStateWrite, Locked
    <3>3. CASE call[j].at # "lock"
      <4>1. locks[CharRow(call[j].c)] = j
          BY <1>3, <2>0, <2>4, <3>1, <3>3 DEF LocksHeld
      <4> QED
          BY <1>3, <2>0, <2>4, <3>1, <4>1, HeldStays, IdleIs
    <3> QED
        BY <3>2, <3>3
  <2> QED
      BY <2>1, <2>2, <2>3, <2>4, CallsAre
<1> QED
    BY <1>1, <1>2, <1>3 DEF LocksHeld

-----------------------------------------------------------------------------
\* a draft that a call has locked is changed by that call only
LEMMA LockedDraftStays ==
    ASSUME TypeOK, CallsNamed, OnceCalls, web, [Next]_vars, NEW j \in Calls, NEW d \in Drafts,
           locks[DraftRow(d)] = j, Open(d), call'[j] # Idle
    PROVE  draft'[d].mode = draft[d].mode /\ draft'[d].to = draft[d].to
<1> DEFINE Same == draft'[d].mode = draft[d].mode /\ draft'[d].to = draft[d].to
<1> draft \in [Drafts -> DraftRecords] /\ j # None
    BY NoneApart DEF TypeOK, RowsTyped
<1>1. CASE UNCHANGED draft
    BY <1>1
<1>2. ASSUME NEW e \in Drafts, Drafted(e) PROVE Same
  <2>1. draft[e].mode = "none" /\ e # d
      BY <1>2 DEF Drafted, NoDraft, Open, Modes
  <2> QED
      BY <1>2, <2>1 DEF Drafted
<1>3. ASSUME NEW k \in Calls, Ended(k) PROVE k # j
    BY <1>3 DEF Ended
<1>4. ASSUME NEW k \in Calls, k # j, DraftWrote(k) PROVE Same
  <2>1. call[k].d # d
      BY <1>4 DEF DraftWrote
  <2> QED
      BY <1>4, <2>1 DEF DraftWrote
<1>5. ASSUME NEW k \in Calls, k # j, Created(k) \/ Committed(k) PROVE Same
  <2>1. call[k].d \in Drafts /\ locks[DraftRow(call[k].d)] = k
      BY <1>5 DEF Created, Committed, OnceCalls, Confirming, At
  <2>2. call[k].d # d
      BY <1>5, <2>1
  <2> QED
      BY <1>5, <2>1, <2>2, ConfirmedIs DEF Created, Committed, NextVersion
<1>6. ASSUME NEW k \in Calls, k # j, Deleted(k) PROVE Same
  <2>1. draft[d].char # call[k].c
      BY <1>6 DEF Deleted
  <2> QED
      BY <1>6, <2>1, DeletedIs DEF Open
<1>7. CASE Lives
    BY <1>1, <1>2, <1>7 DEF Lives, Import, Lease, SetArchived
<1>8. ASSUME NEW k \in Calls, Moves(k) PROVE Same
  <2>1. CASE UNCHANGED rows
      BY <1>1, <2>1 DEF rows
  <2>2. ASSUME NEW r, Onward(k, r) PROVE UNCHANGED rows
      BY <2>2, OnwardTyped DEF Goes
  <2>3. CASE Wrote(k)
      BY <1>1, <2>3 DEF Wrote
  <2> QED
      BY <1>3, <1>4, <1>5, <1>6, <1>8, <2>1, <2>2, <2>3 DEF Moves, Began, Refused
<1>9. CASE UNCHANGED vars
    BY <1>1, <1>9 DEF vars, rows
<1> QED
    BY <1>7, <1>8, <1>9, NextDoes

LEMMA OnceCallsKept ==
    ASSUME TypeOK, CallsNamed, OnceCalls, web, [Next]_vars
    PROVE  OnceCalls'
<1> SUFFICES ASSUME NEW j \in Calls, Confirming(j)'
             PROVE  /\ locks'[DraftRow(call'[j].d)] = j
                    /\ Open(call[j].d)'
                    /\ call'[j].at = "create" <=> draft'[call'[j].d].mode = "create"
    BY DEF OnceCalls
<1>1. call'[j] # Idle
    BY IdleIs DEF Confirming
<1>2. CASE call'[j] = call[j]
  <2> DEFINE d == call[j].d
  <2>1. Confirming(j) /\ locks[DraftRow(d)] = j /\ Open(d) /\ (call[j].at = "create" <=> draft[d].mode = "create")
      BY <1>2 DEF Confirming, OnceCalls
  <2>2. d \in Drafts /\ DraftRow(d) \in Rows
      BY <2>1, RowsAre DEF CallsNamed, Named, Confirming, DraftOps
  <2>3. draft'[d].mode = draft[d].mode /\ draft'[d].to = draft[d].to
      BY <1>1, <2>1, <2>2, LockedDraftStays
  <2>4. locks'[DraftRow(d)] = j
      BY <1>1, <2>1, <2>2, HeldStays
  <2> QED
      BY <1>2, <2>1, <2>3, <2>4 DEF Open
<1>3. CASE Began(j)
    BY <1>3 DEF Began, Confirming, DraftOps
<1>4. ASSUME NEW r, Onward(j, r), call'[j] = r, UNCHANGED <<rows, intended>>
      PROVE  /\ locks'[DraftRow(call'[j].d)] = j
             /\ Open(call[j].d)'
             /\ call'[j].at = "create" <=> draft'[call'[j].d].mode = "create"
  <2>1. r.op = call[j].op /\ r.d = call[j].d /\ draft' = draft
      BY <1>4, OnwardTyped DEF Goes, Advanced, rows
  <2>2. CASE LocksDraft(j, r)
      BY <1>4, <2>1, <2>2 DEF LocksDraft, Locked, Open
  <2>3. CASE LocksRows(j, r)
    <3>1. Confirming(j) /\ locks[DraftRow(call[j].d)] = j /\ call[j].at = "rows" /\ r.at = "commit"
        BY <2>3 DEF LocksRows, Confirming, At, OnceCalls
    <3>2. call[j].d \in Drafts /\ DraftRow(call[j].d) \in Rows
        BY <3>1, RowsAre DEF CallsNamed, Named, Confirming, DraftOps
    <3>3. locks'[DraftRow(call[j].d)] = j
        BY <1>1, <3>1, <3>2, HeldStays
    <3> QED
        BY <1>4, <2>1, <3>1, <3>3 DEF OnceCalls, Open
  <2>4. CASE ~LocksDraft(j, r) /\ ~LocksRows(j, r)
      BY <1>4, <2>1, <2>4
         DEF Confirming, Onward, Scoped, HasRead, ReadsAgain, Compiles, ToDelete, LocksState, At, IsStateWrite
  <2> QED
      BY <2>2, <2>3, <2>4
<1> QED
    BY <1>1, <1>2, <1>3, <1>4, CallsAre

LEMMA ImportIs ==
    ASSUME TypeOK, Import
    PROVE  \E v \in Versions :
              version'[v].from = None /\ \A w \in Versions \ {v} : version'[w] = version[w]
<1>1. PICK c \in Characters, v \in Versions : InsertCharacter(c, v, None, 0, 0)
    BY DEF Import
<1>2. ASSUME NEW d \in Drafts \cup {None}, NEW n \in Nat, InsertCharacter(c, v, d, n, n)
      PROVE  version'[v].from = d /\ \A w \in Versions \ {v} : version'[w] = version[w]
    BY <1>2, InsertIs
<1> QED
    BY <1>1, <1>2

LEMMA OnceVersionsKept ==
    ASSUME TypeOK, CallsNamed, StateInv, Chain, OnceCalls, OnceVersions, web, [Next]_vars
    PROVE  OnceVersions'
<1> USE VersionsAre
<1> draft \in [Drafts -> DraftRecords]
    BY DEF TypeOK, RowsTyped
<1>1. CASE UNCHANGED <<version, draft>>
    BY <1>1 DEF OnceVersions, Kept
<1>2. ASSUME NEW e \in Drafts, Drafted(e) PROVE OnceVersions'
  <2>1. draft[e].mode = "none"
      BY <1>2 DEF Drafted, NoDraft
  <2>2. \A d \in Drafts : draft[d].mode \in Modes => draft'[d] = draft[d]
      BY <1>2, <2>1 DEF Drafted, Modes
  <2> QED
      BY <1>2, <2>2 DEF OnceVersions, Kept, Drafted
<1>3. CASE Import
  <2>2. PICK v \in Versions :
           version'[v].from = None /\ \A w \in Versions \ {v} : version'[w] = version[w]
      BY <1>3, ImportIs
  <2> QED
      BY <1>3, <2>2 DEF OnceVersions, Kept, Import
<1>4. ASSUME NEW k \in Calls, DraftWrote(k) PROVE OnceVersions'
  <2> DEFINE d == call[k].d
             x == [draft[d] EXCEPT !.rev = @ + 1]
             y == [NoDraft EXCEPT !.mode = "gone"]
  <2>1. d \in Drafts /\ Open(d) /\ (draft' = [draft EXCEPT ![d] = x] \/ draft' = [draft EXCEPT ![d] = y])
        /\ version' = version
      BY <1>4 DEF DraftWrote
  <2>2. \A v \in Versions : Kept(v) => version[v].from # d
      BY <2>1, NoneApart DEF OnceVersions, Open
  <2> HIDE DEF x, y
  <2> QED
      BY <2>1, <2>2 DEF OnceVersions, Kept
<1>5. ASSUME NEW k \in Calls, Created(k) PROVE OnceVersions'
  <2> DEFINE d == call[k].d
  <2>1. PICK c \in Characters, v \in Versions :
           InsertCharacter(c, v, d, call[k].build, call[k].kept) /\ draft' = Confirmed(d, v)
      BY <1>5 DEF Created
  <2>2. version'[v].from = d /\ \A w \in Versions \ {v} : version'[w] = version[w]
      BY <1>5, <2>1, InsertIs, CallTyped DEF Created
  <2>3. d \in Drafts /\ Open(d) /\ draft[d].mode = "create"
      BY <1>5 DEF Created, OnceCalls, Confirming, At
  <2>4. \A e \in Drafts :
           /\ draft'[e].mode = draft[e].mode /\ draft'[e].char = draft[e].char
           /\ draft'[e].to = IF e = d THEN v ELSE draft[e].to
      BY <2>1, <2>3, ConfirmedIs
  <2>6. \A w \in Versions : Kept(w) => version[w].from # d
      BY <2>3, NoneApart DEF OnceVersions, Open
  <2>7. draft[d].mode \in Modes
      BY <2>3 DEF Modes
  <2> QED
      BY <2>2, <2>3, <2>4, <2>6, <2>7 DEF OnceVersions, Kept
<1>6. ASSUME NEW k \in Calls, Committed(k) PROVE OnceVersions'
  <2> DEFINE d == call[k].d
             c == call[k].c
  <2>1. PICK v \in Versions : NextVersion(k, v)
      BY <1>6 DEF Committed
  <2>2. d \in Drafts /\ Open(d) /\ c \in Characters
      BY <1>6 DEF Committed, OnceCalls, Confirming, At
  <2>3. draft[d].mode \in Modes /\ draft[d].char = c
      BY <1>6, <2>2 DEF Open, CallsNamed, Named, DraftOps, Committed, At
  <2>4. \A e \in Drafts :
           /\ draft'[e].mode = draft[e].mode /\ draft'[e].char = draft[e].char
           /\ draft'[e].to = IF e = d THEN v ELSE draft[e].to
      BY <2>1, <2>2, ConfirmedIs DEF NextVersion, Open, Modes
  <2>5. /\ version'[v].from = d /\ version'[v].char = c
        /\ \A w \in Versions \ {v} :
              version'[w].is = version[w].is /\ version'[w].char = version[w].char /\ version'[w].from = version[w].from
      BY <2>1, <2>2, NextVersionIs
  <2>6. \A w \in Versions : Kept(w) => version[w].from # d
      BY <2>2, NoneApart DEF OnceVersions, Open
  <2> QED
      BY <2>2, <2>3, <2>4, <2>5, <2>6 DEF OnceVersions, Kept
<1>7. ASSUME NEW k \in Calls, Deleted(k) PROVE OnceVersions'
  <2> DEFINE c == call[k].c
  <2> SUFFICES ASSUME NEW v \in Versions, Kept(v)', version'[v].from # None
               PROVE  LET d == version'[v].from
                      IN /\ draft'[d].mode \in Modes /\ draft'[d].to = v
                         /\ draft'[d].mode # "create" => draft'[d].char = version'[v].char
      BY DEF OnceVersions
  <2>1. version'[v] = version[v] /\ version[v].char # c
      BY <1>7, DeletedIs DEF Kept
  <2> DEFINE d == version[v].from
  <2>2. Kept(v) /\ d \in Drafts /\ draft[d].mode \in Modes /\ draft[d].to = v
        /\ (draft[d].mode # "create" => draft[d].char = version[v].char)
      BY <2>1 DEF OnceVersions, Kept
  <2>3. draft[d].mode = "create" => draft[d].char = None
      BY <2>2 DEF CallsNamed, DraftWhole
  <2>4. draft[d].char # c
      BY <1>7, <2>1, <2>2, <2>3, NoneApart DEF Deleted
  <2>5. draft'[d].mode = draft[d].mode /\ draft'[d].char = draft[d].char /\ draft'[d].to = draft[d].to
      BY <1>7, <2>1, <2>2, <2>4, DeletedIs
  <2> QED
      BY <2>1, <2>2, <2>5
<1>8. CASE Lives
    BY <1>1, <1>2, <1>3, <1>8 DEF Lives, Lease, SetArchived
<1>9. ASSUME NEW k \in Calls, Moves(k) PROVE OnceVersions'
  <2>1. CASE UNCHANGED rows
      BY <1>1, <2>1 DEF rows
  <2>2. ASSUME NEW r, Onward(k, r) PROVE UNCHANGED rows
      BY <2>2, OnwardTyped DEF Goes
  <2>3. CASE Wrote(k)
      BY <1>1, <2>3 DEF Wrote
  <2> QED
      BY <1>4, <1>5, <1>6, <1>7, <1>9, <2>1, <2>2, <2>3 DEF Moves, Began, Refused
<1>10. CASE UNCHANGED vars
    BY <1>1, <1>10 DEF vars, rows
<1> QED
    BY <1>8, <1>9, <1>10, NextDoes

-----------------------------------------------------------------------------
LEMMA InitInv == Init => IInv
<1> SUFFICES ASSUME Init PROVE IInv
    OBVIOUS
<1>1. TypeOK
    BY InitTyped
<1>2. /\ \A k \in Calls : call[k] = Idle
      /\ \A d \in Drafts : draft[d].mode = "none" /\ draft[d].char = None /\ draft[d].to = None
      /\ \A c \in Characters : /\ status[c] = "none" /\ state[c] = intended[c]
                               /\ validFor[c] = None /\ current[c] = None
      /\ \A v \in Versions : /\ version[v].is = "unused" /\ version[v].char = None /\ version[v].parent = None
                             /\ version[v].from = None /\ version[v].super = None
      /\ \A x \in Rows : locks[x] = None
    BY DEF Init, InitWith, NoDraft, NoVersion
<1>3. CallsNamed
    BY <1>2, IdleIs DEF CallsNamed, Named, DraftWhole, DraftOps, Modes
<1>4. StateInv
    BY <1>2, IdleIs DEF StateInv, Snapshot
<1>5. Chain
    BY <1>2 DEF Chain, UnkeptIsBlank, OwnerExists, CurrentIsKept, ParentIsKept, OneChild, HasAChild,
                SupersededByChild, Kept, Exists
<1>6. Compiled
    BY <1>2, IdleIs DEF Compiled, Confirming, ConfirmedAsCompiled
<1>7. Once
    BY <1>2, IdleIs DEF Once, OnceCalls, OnceVersions, Confirming, Kept
<1>8. LocksHeld
    BY <1>2, IdleIs, NoneApart DEF LocksHeld
<1> QED
    BY <1>1, <1>3, <1>4, <1>5, <1>6, <1>7, <1>8 DEF IInv

LEMMA NextInv == IInv /\ [Next]_vars => IInv'
<1> SUFFICES ASSUME IInv, [Next]_vars PROVE IInv'
    OBVIOUS
<1>1. TypeOK /\ CallsNamed /\ StateInv /\ Chain /\ Compiled /\ Once /\ LocksHeld
    BY DEF IInv
<1>2. TypeOK' /\ CallsNamed' /\ StateInv' /\ Chain' /\ Compiled' /\ LocksHeld'
    BY <1>1, TypeKept, CallsNamedKept, StateKept, ChainKept, CompiledKept, LocksHeldKept
<1>3. Once'
  <2>1. web' = web
      BY <1>1, NextDoes DEF vars
  <2> QED
      BY <1>1, <2>1, OnceCallsKept, OnceVersionsKept DEF Once
<1> QED
    BY <1>2, <1>3 DEF IInv

LEMMA SpecInv == Spec => []IInv
BY InitInv, NextInv, PTL DEF Spec

\* The rows of Characters, versions, States, drafts and locks, and the calls
\* under way, keep their types; what a call names exists.
THEOREM CharacterTypes == Spec => [](TypeOK /\ CallsNamed)
<1>1. IInv => TypeOK /\ CallsNamed
    BY DEF IInv
<1> QED
    BY <1>1, SpecInv, PTL

\* No write to a field of a Current State is lost, whatever patches, table
\* writes and Confirms overlap (the read of a State is stale exactly when its
\* revision has moved on, and then the UPDATE finds no row), and the State that
\* is stored was validated against the Build the Character has.
THEOREM StatesStayWhole == Spec => []StateIsWhole
<1>1. IInv => StateIsWhole
    BY DEF IInv, StateInv, StateIsWhole, NothingLost, StateFitsBuild
<1> QED
    BY <1>1, SpecInv, PTL

\* The versions of a Character are a chain that ends in its current version,
\* whatever Confirms, imports and deletes there were.
THEOREM VersionsAreAChain == Spec => []VersionsFormAChain
<1>1. ASSUME IInv PROVE VersionsFormAChain
  <2> USE DEF Kept
  <2>0. Chain /\ TypeOK
      BY <1>1 DEF IInv
  <2> SUFFICES ASSUME NEW v \in Versions, Kept(v)
               PROVE  LET c == version[v].char
                          Children == {w \in Versions : version[w].parent = v /\ version[w].is = "kept"}
                      IN /\ Cardinality(Children) = IF v = current[c] THEN 0 ELSE 1
                         /\ \A w \in Children : version[w].char = c
                         /\ version[v].super # None => version[v].super \in Children
      BY DEF VersionsFormAChain
  <2> DEFINE c == version[v].char
             Children == {w \in Versions : version[w].parent = v /\ version[w].is = "kept"}
  <2>1. v # None
      BY NoneApart
  <2>2. \A w \in Children : version[w].char = c /\ v # current[c]
      BY <2>0, <2>1 DEF Chain, ParentIsKept
  <2>3. version[v].super # None => version[v].super \in Children
      BY <2>0 DEF Chain, SupersededByChild
  <2>4. CASE v = current[c]
    <3>1. Children = {}
        BY <2>2, <2>4
    <3> QED
        BY <2>2, <2>3, <2>4, <3>1, FS_EmptySet
  <2>5. CASE v # current[c]
    <3>1. PICK w \in Versions : Kept(w) /\ version[w].parent = v
        BY <2>0, <2>5 DEF Chain, HasAChild
    <3>2. \A u \in Children : u = w
        BY <2>0, <2>1, <3>1 DEF Chain, OneChild
    <3>3. Children = {w}
        BY <3>1, <3>2
    <3>4. Cardinality(Children) = 1
        BY <3>3, FS_Singleton
    <3> QED
        BY <2>2, <2>3, <2>5, <3>4
  <2> QED
      BY <2>4, <2>5
<1> QED
    BY <1>1, SpecInv, PTL

\* On the Web a draft is confirmed once; everywhere it is stored as compiled.
THEOREM DraftsAreConfirmedOnce == Spec => []ConfirmedOnceAsCompiled
<1>1. ASSUME IInv, web PROVE ConfirmedOnce
  <2> SUFFICES ASSUME NEW d \in Drafts
               PROVE  Cardinality({v \in Versions : version[v].is = "kept" /\ version[v].from = d}) <= 1
      BY DEF ConfirmedOnce
  <2> DEFINE S == {v \in Versions : version[v].is = "kept" /\ version[v].from = d}
  <2>1. \A v \in S : v = draft[d].to
      BY <1>1, NoneApart DEF IInv, Once, OnceVersions, Kept
  <2>2. S = {} \/ S = {draft[d].to}
      BY <2>1
  <2>3. CASE S = {}
      BY <2>3, FS_EmptySet
  <2>4. CASE S = {draft[d].to}
    <3>1. Cardinality({draft[d].to}) = 1
        BY FS_Singleton
    <3>2. Cardinality(S) = 1
        BY <2>4, <3>1
    <3> QED
        BY <3>2
  <2> QED
      BY <2>2, <2>3, <2>4
<1>2. IInv => ConfirmedOnceAsCompiled
    BY <1>1 DEF IInv, Compiled, ConfirmedOnceAsCompiled
<1> QED
    BY <1>2, SpecInv, PTL

-----------------------------------------------------------------------------
\* how far a call has come with its locks: the order they are taken in
Level(k) ==
    CASE call[k].at = "lock" -> 0
      [] call[k].at = "draft" \/ (call[k].op \in {"edit", "cancel"} /\ call[k].at = "read") -> 1
      [] call[k].at \in {"rows", "write"} -> 2
      [] OTHER -> 3

Writer(k) == call[k].op \notin {"none", "delete"}

\* a writer waits for one that has come further
LEMMA WaitsUp ==
    ASSUME IInv, NEW k \in Calls, NEW j \in Calls, Writer(k), Writer(j), WaitsFor(k, j)
    PROVE  Level(k) < Level(j)
<1>1. TypeOK /\ LocksHeld /\ Named(k) /\ Named(j)
    BY DEF IInv, CallsNamed
<1>2. /\ call[k].op \in {"patch", "table"} \cup DraftOps /\ call[j].op \in {"patch", "table"} \cup DraftOps
      /\ j # k /\ j # None
    BY <1>1, CallTyped, NoneApart DEF Writer, Ops, DraftOps, WaitsFor
<1>3. PICK x \in Wants(k) : locks[x] = j
    BY DEF WaitsFor
<1>4. x \in Rows
    BY <1>1, <1>2, <1>3, RowsAre DEF Wants, Named, DraftOps
<1>5. MayHold(j, x) /\ web
    BY <1>1, <1>2, <1>3, <1>4 DEF LocksHeld
<1>6. CASE call[k].at = "lock"
  <2>1. Level(k) = 0
      BY <1>6 DEF Level
  <2>2. x = SessionRow \/ x = CharRow(call[k].c)
      BY <1>3, <1>6 DEF Wants
  <2>3. call[j].at # "lock"
      BY <1>2, <1>5, <2>2, RowsApart DEF MayHold, Confirming, At
  <2>4. Level(j) \in {1, 2, 3}
      BY <2>3 DEF Level
  <2> QED
      BY <2>1, <2>4
<1>7. CASE call[k].at = "draft" \/ (call[k].op \in {"edit", "cancel"} /\ call[k].at = "read")
  <2>1. Level(k) = 1
      BY <1>7 DEF Level
  <2>2. x = DraftRow(call[k].d)
      BY <1>3, <1>7 DEF Wants
  <2>3. Confirming(j)
      BY <1>5, <2>2, RowsApart DEF MayHold
  <2>4. Level(j) \in {2, 3}
      BY <2>3 DEF Level, Confirming
  <2> QED
      BY <2>1, <2>4
<1>8. CASE call[k].at = "rows"
  <2>1. Level(k) = 2 /\ call[k].op = "confirm" /\ call[k].c \in Characters
      BY <1>1, <1>2, <1>8 DEF Level, Named, DraftOps
  <2>2. x = CharRow(call[k].c) \/ x = StateRow(call[k].c)
      BY <1>3, <1>8, <2>1 DEF Wants
  <2>3. locks[CharRow(call[k].c)] = k
      BY <1>1, <1>5, <1>8, <2>1 DEF LocksHeld
  <2>4. x = StateRow(call[k].c)
      BY <1>2, <1>3, <2>2, <2>3
  <2>5. At(j, "confirm", "commit")
      BY <1>2, <1>5, <2>4, RowsApart DEF MayHold, At, DraftOps
  <2>6. Level(j) = 3
      BY <2>5 DEF Level, At
  <2> QED
      BY <2>1, <2>6
<1>9. CASE call[k].at = "write"
  <2>1. Level(k) = 2
      BY <1>9 DEF Level
  <2>2. x = StateRow(call[k].c)
      BY <1>1, <1>2, <1>3, <1>9 DEF Wants, Named, DraftOps
  <2>3. At(j, "confirm", "commit")
      BY <1>2, <1>5, <2>2, RowsApart DEF MayHold, At, DraftOps
  <2>4. Level(j) = 3
      BY <2>3 DEF Level, At
  <2> QED
      BY <2>1, <2>4
<1> QED
    BY <1>1, <1>2, <1>3, <1>6, <1>7, <1>8, <1>9 DEF Wants, Named, DraftOps

\* Patches, table writes, draft edits and Confirms never wait for each other in
\* a circle: the Character's row is locked first, then the draft's, then the State's.
THEOREM LocksAreOrdered == Spec => []LockOrder
<1>1. ASSUME IInv PROVE LockOrder
  <2> SUFFICES ASSUME NEW S \in SUBSET {k \in Calls : Writer(k)}, S # {}
               PROVE  \E k \in S : \A j \in S : ~WaitsFor(k, j)
      BY DEF LockOrder, Writer
  <2>1. \A k \in S : Level(k) \in 0..3
      BY DEF Level
  <2>2. \E k \in S : \A j \in S : ~(Level(k) < Level(j))
    <3>1. CASE \E k \in S : Level(k) = 3
        BY <2>1, <3>1
    <3>2. CASE (\A k \in S : Level(k) # 3) /\ \E k \in S : Level(k) = 2
        BY <2>1, <3>2
    <3>3. CASE (\A k \in S : Level(k) \notin {2, 3}) /\ \E k \in S : Level(k) = 1
        BY <2>1, <3>3
    <3>4. CASE \A k \in S : Level(k) \notin {1, 2, 3}
        BY <2>1, <3>4
    <3> QED
        BY <3>1, <3>2, <3>3, <3>4
  <2> QED
      BY <1>1, <2>2, WaitsUp
<1> QED
    BY <1>1, SpecInv, PTL
-----------------------------------------------------------------------------
(* The Character sheet *)

\* a delete under way is of a Character there was
DeletesOfSome == \A k \in Calls : call[k].op = "delete" => status[call[k].c] # "none"

LEMMA DeletesInit == Init => DeletesOfSome
BY IdleIs DEF Init, InitWith, DeletesOfSome

LEMMA DeletesKept ==
    ASSUME IInv, DeletesOfSome, [Next]_vars
    PROVE  DeletesOfSome'
<1>0. TypeOK /\ CallsNamed
    BY DEF IInv
<1> SUFFICES ASSUME NEW j \in Calls, call'[j].op = "delete"
             PROVE  status'[call'[j].c] # "none"
    BY DEF DeletesOfSome
<1>1. ASSUME NEW c \in Characters, status[c] # "none" PROVE status'[c] # "none"
    BY <1>0, <1>1, CharactersGoOn
<1>2. CASE call'[j].op = call[j].op /\ call'[j].c = call[j].c
  <2>1. call[j].c \in Characters
      BY <1>0, <1>2 DEF CallsNamed, Named
  <2> QED
      BY <1>1, <1>2, <2>1 DEF DeletesOfSome
<1>3. CASE Began(j)
  <2>1. call'[j].c \in Characters /\ Exists(call'[j].c)
      BY <1>3 DEF Began, DraftOps
  <2> QED
      BY <1>1, <2>1 DEF Exists
<1>4. call'[j] # Idle
    BY IdleIs
<1>5. ASSUME NEW r, Onward(j, r), call'[j] = r PROVE call'[j].op = call[j].op /\ call'[j].c = call[j].c
    BY <1>0, <1>5, OnwardTyped DEF Goes, Advanced
<1> QED
    BY <1>0, <1>2, <1>3, <1>4, <1>5, CallsAre

LEMMA SpecDeletes == Spec => []DeletesOfSome
BY DeletesInit, DeletesKept, SpecInv, PTL DEF Spec

Used == {v \in Versions : version[v].is # "unused"}

LEMMA CreatedIsCreate ==
    ASSUME TypeOK, NEW c \in Characters, NEW v \in Versions, NEW d \in Drafts \cup {None},
           NEW n \in Nat, NEW m \in Nat, InsertCharacter(c, v, d, n, m), UNCHANGED <<played, state>>
    PROVE  Sheet!Create(c, v)
<1>1. version'[v].is = "kept" /\ \A w \in Versions \ {v} : version'[w] = version[w]
    BY InsertIs
<1>2. v \notin Used /\ Used' = Used \cup {v}
    BY <1>1 DEF InsertCharacter, NewVersion, Used
<1> QED
    BY <1>2 DEF InsertCharacter, Used, Sheet!Create, Sheet!Compile

LEMMA CommittedIsRebuild ==
    ASSUME TypeOK, StateInv, NEW k \in Calls, Committed(k)
    PROVE  \E c \in Characters, v \in Versions : Sheet!Rebuild(c, v)
<1>0. PICK c \in Characters : c = call[k].c
    BY DEF Committed
<1>1. PICK v \in Versions : NextVersion(k, v)
    BY DEF Committed
<1>2. /\ version'[v].is = "kept"
      /\ \A w \in Versions \ {v} : version'[w].is = version[w].is
    BY <1>1, NextVersionIs DEF Committed
<1>3. v \notin Used /\ Used' = Used \cup {v}
    BY <1>1, <1>2 DEF NextVersion, NewVersion, Used
<1>4. Snapshot(k) /\ call[k].at = "commit" /\ call[k].rev = revision[c] /\ status[c] # "deleted"
    BY <1>0 DEF StateInv, Committed, Reconciles, At
<1>5. status[c] \in {"active", "archived"} /\ call[k].seen = state[c]
    BY <1>0, <1>4 DEF Snapshot, TypeOK, RowsTyped
<1>6. state' = state
    BY <1>0, <1>5 DEF Committed, TypeOK, RowsTyped
<1>7. current' = [current EXCEPT ![c] = v] /\ UNCHANGED <<status, played>>
    BY <1>0, <1>1 DEF Committed, NextVersion
<1> QED
    BY <1>3, <1>5, <1>6, <1>7 DEF Used, Sheet!Rebuild, Sheet!Compile, Sheet!Alive

LEMMA WroteIsWrite ==
    ASSUME TypeOK, StateInv, NEW k \in Calls, Wrote(k)
    PROVE  Sheet!Write(call[k].c, call[k].f, k)
<1> DEFINE c == call[k].c
<1>1. Snapshot(k) /\ call[k].at = "write" /\ call[k].rev = revision[c] /\ status[c] = "active"
    BY DEF StateInv, Wrote, Unchanged
<1>2. call[k].seen = state[c]
    BY <1>1 DEF Snapshot
<1>3. state' = [state EXCEPT ![c] = [state[c] EXCEPT ![call[k].f] = k]]
    BY <1>2 DEF Wrote
<1>4. state' = [state EXCEPT ![c][call[k].f] = k]
    BY <1>3
<1> QED
    BY <1>1, <1>4 DEF Wrote, Sheet!Write

LEMMA DeletedIsDelete ==
    ASSUME TypeOK, Chain, DeletesOfSome, NEW k \in Calls, Deleted(k)
    PROVE  Sheet!Delete(call[k].c)
<1> DEFINE c == call[k].c
<1>1. c \in Characters /\ status[c] # "none" /\ status[c] # "deleted"
    BY DEF Deleted, DeletesOfSome, At
<1>2. status[c] \in {"active", "archived"}
    BY <1>1, VersionsAre
<1>3. \A v \in Versions : version'[v].is = "unused" <=> version[v].is = "unused"
  <2>1. \A v \in Versions : version[v].char = c => version[v].is = "kept" /\ version'[v].is = "gone"
      BY <1>1, DeletedIs, NoneApart DEF Chain, UnkeptIsBlank, Kept
  <2> QED
      BY <2>1, DeletedIs
<1>4. Used' = Used
    BY <1>3 DEF Used
<1> QED
    BY <1>2, <1>4 DEF Deleted, Used, Sheet!Delete, Sheet!Alive

LEMMA SheetInit == Init => Sheet!Init
<1> SUFFICES ASSUME Init PROVE Sheet!Init
    OBVIOUS
<1>1. Used = {}
    BY DEF Init, InitWith, NoVersion, Used
<1> QED
    BY <1>1 DEF Init, InitWith, Fresh, Used, Sheet!Init

LEMMA SheetStep ==
    ASSUME IInv, DeletesOfSome, [Next]_vars
    PROVE  [Sheet!Next]_(Sheet!vars)
<1>0. TypeOK /\ CallsNamed /\ StateInv /\ Chain
    BY DEF IInv
<1>1. CASE UNCHANGED <<status, played, current, version, state>>
    BY <1>1 DEF Sheet!vars
<1>2. CASE Lives
  <2>1. CASE Import
    <3>1. PICK c \in Characters, v \in Versions : InsertCharacter(c, v, None, 0, 0)
        BY <2>1 DEF Import
    <3>2. Sheet!Create(c, v)
        BY <1>0, <2>1, <3>1, CreatedIsCreate DEF Import
    <3> QED
        BY <3>2 DEF Sheet!Next
  <2>2. ASSUME NEW c \in Characters, Lease(c) PROVE Sheet!TakeToTable(c) \/ Sheet!Leave(c)
      BY <2>2 DEF Lease, Sheet!TakeToTable, Sheet!Leave
  <2>3. ASSUME NEW c \in Characters, NEW to \in {"active", "archived"}, SetArchived(c, to)
        PROVE  Sheet!Archive(c) \/ Sheet!Unarchive(c)
      BY <2>3 DEF SetArchived, Sheet!Archive, Sheet!Unarchive
  <2>4. ASSUME NEW d \in Drafts, Drafted(d) PROVE UNCHANGED <<status, played, current, version, state>>
      BY <2>4 DEF Drafted
  <2> QED
      BY <1>1, <1>2, <2>1, <2>2, <2>3, <2>4 DEF Lives, Sheet!Next
<1>3. ASSUME NEW k \in Calls, Moves(k) PROVE [Sheet!Next]_(Sheet!vars)
  <2>1. CASE UNCHANGED rows
      BY <1>1, <2>1 DEF rows
  <2>2. ASSUME NEW r, Onward(k, r) PROVE UNCHANGED rows
      BY <1>0, <2>2, OnwardTyped DEF Goes
  <2>3. CASE Created(k)
    <3>1. PICK c \in Characters, v \in Versions : InsertCharacter(c, v, call[k].d, call[k].build, call[k].kept)
        BY <2>3 DEF Created
    <3>2. Sheet!Create(c, v)
        BY <1>0, <2>3, <3>1, CreatedIsCreate, CallTyped DEF Created
    <3> QED
        BY <3>2 DEF Sheet!Next
  <2>4. CASE DraftWrote(k)
      BY <1>1, <2>4 DEF DraftWrote
  <2>5. CASE Wrote(k)
      BY <1>0, <2>5, WroteIsWrite DEF Wrote, Sheet!Next
  <2>6. CASE Committed(k)
    <3>1. PICK c \in Characters, v \in Versions : Sheet!Rebuild(c, v)
        BY <1>0, <2>6, CommittedIsRebuild
    <3> QED
        BY <3>1 DEF Sheet!Next
  <2>7. CASE Deleted(k)
      BY <1>0, <2>7, DeletedIsDelete DEF Deleted, Sheet!Next
  <2> QED
      BY <1>3, <2>1, <2>2, <2>3, <2>4, <2>5, <2>6, <2>7 DEF Moves, Began, Refused
<1>4. CASE UNCHANGED vars
    BY <1>1, <1>4 DEF vars, rows
<1> QED
    BY <1>0, <1>2, <1>3, <1>4, NextDoes

\* Characters implement the sheet they promise: a write that read the State
\* before it changed finds no row, a Confirm writes back what is there, and
\* neither takes effect on a Character that was deleted meanwhile.
THEOREM SheetImplemented == Spec => ImplementsSheet
BY SheetInit, SheetStep, SpecInv, SpecDeletes, PTL DEF Spec, ImplementsSheet, Sheet!Spec
==============================================================================
