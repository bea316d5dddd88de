----------------------------- MODULE FeedProofs -----------------------------
(***************************************************************************)
(* Whatever the actors, the drafts and the limits: types, what a client    *)
(* has been given, the wake-ups, and the implementation of OrderedFeed;    *)
(* and the pages of FeedPaging, whatever their size and their budget.      *)
(***************************************************************************)
EXTENDS TableFeed, FeedPaging, FiniteSetTheorems, SequenceTheorems, TLAPS

LEMMA PageLimitPositive ==
    ASSUME NEW limit \in Nat
    PROVE  PageLimit(limit) \in Nat \ {0}
BY PageAssumption DEF PageLimit, Higher, Lower

\* what one list returns; nothing behind the cursor only at the log's end
LEMMA ReadPage ==
    ASSUME TypeOK, NEW a \in Actors
    PROVE  /\ Read(a) \in Pages
           /\ cursor[a] <= Read(a).cursor
           /\ Read(a).events = Shown(a, mode[a]) \cap (cursor[a] + 1)..Read(a).cursor
           /\ NothingNew(a) => cursor[a] = Len(log)
<1>1. Len(log) \in Nat /\ cursor[a] \in 0..Len(log)
      BY DEF TypeOK, LogTypeOK, CallTypeOK
<1>2. Shown(a, mode[a]) \subseteq 1..Len(log)
      BY DEF Shown
<1>3. PageLimit(Limit) \in Nat \ {0}
      BY PageLimitPositive, FeedAssumption
<1> QED
    BY <1>1, <1>2, <1>3 DEF Read, PageAfter, Lower, Pages, NothingNew

\* the log only grows
LEMMA LogGrows ==
    ASSUME TypeOK, [Next]_vars
    PROVE  /\ Len(log) \in Nat /\ Len(log') \in Nat /\ Len(log) <= Len(log')
           /\ \A i \in 1..Len(log) : log'[i] = log[i]
<1>1. log \in Seq(Drafts)
      BY DEF TypeOK, LogTypeOK
<1>2. ASSUME NEW e \in Drafts, AppendNew(e)
      PROVE  /\ Len(log') = Len(log) + 1
             /\ \A i \in 1..Len(log) : log'[i] = log[i]
      BY <1>1, <1>2, AppendProperties DEF AppendNew
<1>3. CASE UNCHANGED log
      BY <1>1, <1>3
<1> QED
    BY <1>1, <1>2, <1>3
    DEF Next, Serve, vars, AppendAgain, Notify, SetHandle, Ask, Scan, Register, Recheck, Wake,
        Timeout, FinalScan, Refuse, Receive, LoseCall, Crash
-----------------------------------------------------------------------------
(* Types *)

LEMMA InitTypeOK == Init => TypeOK
BY FeedAssumption
DEF Init, TypeOK, LogTypeOK, CallTypeOK, HandleTypeOK, ClientTypeOK, Modes, Waiting

LEMMA WriterTypes ==
    ASSUME TypeOK, NEW e \in Drafts, AppendNew(e) \/ AppendAgain(e)
    PROVE  TypeOK'
<1>1. e.by \in Actors
      BY FeedAssumption DEF Draft
<1>2. LogTypeOK /\ CallTypeOK /\ HandleTypeOK /\ ClientTypeOK
      BY DEF TypeOK
<1>3. CASE AppendNew(e)
  <2>1. log' \in Seq(Drafts) /\ Len(log') = Len(log) + 1 /\ Len(log) \in Nat
        BY <1>2, <1>3, AppendProperties DEF AppendNew, LogTypeOK
  <2>2. LogTypeOK'
        BY <1>1, <1>2, <1>3, <2>1 DEF AppendNew, LogTypeOK
  <2>3. CallTypeOK'
        BY <1>2, <1>3, <2>1 DEF AppendNew, CallTypeOK, serverVars, Pages
  <2>4. HandleTypeOK' /\ ClientTypeOK'
        BY <1>2, <1>3, <2>1
        DEF AppendNew, HandleTypeOK, ClientTypeOK, serverVars, clientVars, Waiting
  <2> QED
      BY <2>2, <2>3, <2>4 DEF TypeOK
<1>4. CASE AppendAgain(e)
  <2>1. (CHOOSE i \in 1..Len(log) : log[i].key = e.key) \in 0..Len(log)
        BY <1>2, <1>4 DEF AppendAgain, KeyUsed, LogTypeOK
  <2> QED
      BY <1>1, <1>2, <1>4, <2>1
      DEF AppendAgain, TypeOK, LogTypeOK, CallTypeOK, HandleTypeOK, ClientTypeOK,
          serverVars, clientVars, Waiting, Pages
<1> QED
    BY <1>3, <1>4

\* what all reader steps leave alone
Untouched == UNCHANGED <<log, status, unnotified, clientVars, failures>>

\* the steps that end a list
LEMMA ListTypes ==
    ASSUME TypeOK, NEW a \in Actors, Untouched, Answer(a) \/ SkipEchoes(a)
    PROVE  TypeOK'
<1> USE DEF Untouched, clientVars
<1>1. LogTypeOK /\ CallTypeOK /\ HandleTypeOK /\ ClientTypeOK
      BY DEF TypeOK
<1>2. Read(a) \in Pages /\ Read(a).cursor \in 0..Len(log) /\ Len(log) \in Nat
      BY <1>1, ReadPage DEF LogTypeOK, Pages
<1>3. LogTypeOK' /\ ClientTypeOK' /\ Pages' = Pages
      BY <1>1 DEF LogTypeOK, ClientTypeOK, Pages
<1>4. CallTypeOK'
  <2>1. CASE Answer(a)
        BY <1>1, <1>2, <1>3, <2>1 DEF CallTypeOK, Answer, Return, Modes
  <2>2. CASE SkipEchoes(a)
        BY <1>1, <1>2, <1>3, <2>2 DEF CallTypeOK, SkipEchoes
  <2> QED
      BY <2>1, <2>2
<1>5. HandleTypeOK'
      BY <1>1 DEF HandleTypeOK, CallTypeOK, Answer, SkipEchoes, Return, Unregister, Waiting
<1> QED
    BY <1>3, <1>4, <1>5 DEF TypeOK

\* the steps of a call that keep its cursor and bring no page
LEMMA StepTypes ==
    ASSUME TypeOK, NEW a \in Actors, Untouched, UNCHANGED <<mode, cursor, page>>,
           NEW to \in {"scan", "register", "recheck", "asleep", "final"},
           pc' = [pc EXCEPT ![a] = to],
           HandleTypeOK'
    PROVE  TypeOK'
<1>1. LogTypeOK' /\ ClientTypeOK' /\ CallTypeOK'
      BY DEF TypeOK, LogTypeOK, ClientTypeOK, CallTypeOK, Untouched, clientVars, Pages
<1> QED
    BY <1>1 DEF TypeOK

LEMMA ServeTypes ==
    ASSUME TypeOK, NEW a \in Actors, Serve(a) \/ Timeout(a)
    PROVE  TypeOK'
<1>1. LogTypeOK /\ CallTypeOK /\ HandleTypeOK /\ ClientTypeOK
      BY DEF TypeOK
<1> USE DEF Untouched
<1>2. CASE Scan(a)
  <2>1. CASE /\ pc' = [pc EXCEPT ![a] = "register"]
             /\ UNCHANGED <<mode, cursor, registered, scheduled, signalled, page>>
    <3>1. HandleTypeOK'
          BY <1>1, <1>2, <2>1 DEF Scan, HandleTypeOK, CallTypeOK, Waiting
    <3> QED
        BY <1>2, <2>1, <3>1, StepTypes DEF Scan
  <2> QED
      BY <1>2, <2>1, ListTypes DEF Scan
<1>3. CASE Recheck(a)
  <2>1. CASE /\ pc' = [pc EXCEPT ![a] = "asleep"]
             /\ UNCHANGED <<mode, cursor, registered, scheduled, signalled, page>>
    <3>1. HandleTypeOK'
          BY <1>1, <1>3, <2>1 DEF Recheck, HandleTypeOK, CallTypeOK, Waiting
    <3> QED
        BY <1>3, <2>1, <3>1, StepTypes DEF Recheck
  <2> QED
      BY <1>3, <2>1, ListTypes DEF Recheck
<1>4. CASE Register(a)
  <2>1. HandleTypeOK'
        BY <1>1, <1>4 DEF Register, HandleTypeOK, CallTypeOK, Waiting
  <2> QED
      BY <1>4, <2>1, StepTypes DEF Register
<1>5. CASE Wake(a)
  <2>1. HandleTypeOK'
        BY <1>1, <1>5 DEF Wake, Unregister, HandleTypeOK, CallTypeOK, Waiting
  <2> QED
      BY <1>5, <2>1, StepTypes DEF Wake
<1>6. CASE Timeout(a)
  <2>1. HandleTypeOK'
        BY <1>1, <1>6 DEF Timeout, HandleTypeOK, CallTypeOK, Waiting
  <2> QED
      BY <1>6, <2>1, StepTypes DEF Timeout
<1>7. CASE FinalScan(a)
      BY <1>7, ListTypes DEF FinalScan
<1>8. CASE Refuse(a)
  <2>1. HandleTypeOK'
        BY <1>1, <1>8 DEF Refuse, Return, Unregister, HandleTypeOK, CallTypeOK, Waiting
  <2>2. CallTypeOK'
        BY <1>1, <1>8 DEF Refuse, Return, LogTypeOK, CallTypeOK, Modes, Pages
  <2> QED
      BY <1>1, <1>8, <2>1, <2>2 DEF Refuse, TypeOK, LogTypeOK, ClientTypeOK, clientVars
<1>9. CASE Notify(a)
      BY <1>1, <1>9
      DEF Notify, TypeOK, LogTypeOK, CallTypeOK, HandleTypeOK, ClientTypeOK, Waiting, Pages,
          clientVars
<1>10. CASE SetHandle(a)
      BY <1>1, <1>10
      DEF SetHandle, TypeOK, LogTypeOK, CallTypeOK, HandleTypeOK, ClientTypeOK, Waiting, Pages,
          clientVars
<1> QED
    BY <1>2, <1>3, <1>4, <1>5, <1>6, <1>7, <1>8, <1>9, <1>10 DEF Serve

LEMMA ClientTypes ==
    ASSUME TypeOK, NEW a \in Actors, NEW m \in Modes, Ask(a, m) \/ Receive(a) \/ LoseCall(a)
    PROVE  TypeOK'
<1> USE DEF clientVars
<1>1. LogTypeOK /\ CallTypeOK /\ HandleTypeOK /\ ClientTypeOK
      BY DEF TypeOK
<1>2. CASE Ask(a, m)
      BY <1>1, <1>2
      DEF Ask, TypeOK, LogTypeOK, CallTypeOK, HandleTypeOK, ClientTypeOK, Waiting, Pages
<1>3. CASE Receive(a)
  <2>1. page[a] \in Pages /\ Len(log) \in Nat
        BY <1>1, <1>3 DEF Receive, LogTypeOK, CallTypeOK
  <2>2. page[a].events \subseteq 1..Len(log) /\ page[a].cursor \in 0..Len(log)
        BY <2>1 DEF Pages
  <2>3. ClientTypeOK'
        BY <1>1, <1>3, <2>1, <2>2 DEF Receive, ClientTypeOK, Higher
  <2>4. HandleTypeOK'
        BY <1>1, <1>3 DEF Receive, HandleTypeOK, CallTypeOK, Waiting
  <2> QED
      BY <1>1, <1>3, <2>3, <2>4 DEF Receive, TypeOK, LogTypeOK, CallTypeOK, Pages
<1>4. CASE LoseCall(a)
  <2>1. HandleTypeOK'
        BY <1>1, <1>4 DEF LoseCall, Return, Unregister, HandleTypeOK, CallTypeOK, Waiting
  <2>2. CallTypeOK'
        BY <1>1, <1>4 DEF LoseCall, Return, LogTypeOK, CallTypeOK, Modes, Pages
  <2>3. failures' \in 0..MaxFailures
        BY <1>1, <1>4, FeedAssumption DEF LoseCall, LogTypeOK
  <2> QED
      BY <1>1, <1>4, <2>1, <2>2, <2>3 DEF LoseCall, TypeOK, LogTypeOK, ClientTypeOK
<1> QED
    BY <1>2, <1>3, <1>4

LEMMA CrashTypes == TypeOK /\ Crash => TypeOK'
<1> SUFFICES ASSUME TypeOK, Crash PROVE TypeOK'
    OBVIOUS
<1> USE DEF clientVars
<1>1. LogTypeOK'
      BY FeedAssumption DEF TypeOK, LogTypeOK, Crash
<1>2. CallTypeOK'
      BY DEF TypeOK, LogTypeOK, CallTypeOK, Crash, Pages, Modes
<1>3. HandleTypeOK' /\ ClientTypeOK'
      BY DEF TypeOK, HandleTypeOK, ClientTypeOK, Crash, Waiting
<1> QED
    BY <1>1, <1>2, <1>3 DEF TypeOK

LEMMA TypeStep == TypeOK /\ [Next]_vars => TypeOK'
<1>1. TypeOK /\ UNCHANGED vars => TypeOK'
      BY DEF TypeOK, LogTypeOK, CallTypeOK, HandleTypeOK, ClientTypeOK, Waiting, Pages, vars,
             serverVars, clientVars
<1>2. ASSUME TypeOK, NEW e \in Drafts, AppendNew(e) \/ AppendAgain(e)
      PROVE  TypeOK'
      BY <1>2, WriterTypes
<1>3. ASSUME TypeOK, NEW a \in Actors,
             (\E m \in Modes : Ask(a, m)) \/ Receive(a) \/ LoseCall(a)
      PROVE  TypeOK'
      BY <1>3, ClientTypes, "list" \in Modes DEF Modes
<1>4. ASSUME TypeOK, NEW a \in Actors, Serve(a) \/ Timeout(a)
      PROVE  TypeOK'
      BY <1>4, ServeTypes
<1> QED
    BY <1>1, <1>2, <1>3, <1>4, CrashTypes DEF Next

\* Every reachable state is well typed: the log holds drafts, all cursors and
\* pages stay within it, and the notifier holds a handle for exactly the calls
\* that wait.
THEOREM FeedTypes == Spec => []TypeOK
<1>1. Init => TypeOK
      BY InitTypeOK
<1>2. TypeOK /\ [Next]_vars => TypeOK'
      BY TypeStep
<1> QED
    BY <1>1, <1>2, PTL DEF Spec
-----------------------------------------------------------------------------
(* Wake-ups *)

\* a step of one reader that does not put it to sleep behind the log's end
LEMMA WakeupFrame ==
    ASSUME NoLostWakeup, NEW a \in Actors, UNCHANGED <<log, unnotified>>,
           \A b \in Actors \ {a} : pc'[b] = pc[b] /\ cursor'[b] = cursor[b],
           (signalled \cup scheduled) \ {a} \subseteq signalled' \cup scheduled',
           pc'[a] = "asleep" => ~(cursor'[a] < Len(log'))
    PROVE  NoLostWakeup'
BY DEF NoLostWakeup

LEMMA WriterWakeups ==
    ASSUME TypeOK, NoLostWakeup, NEW e \in Drafts, AppendNew(e) \/ AppendAgain(e)
    PROVE  NoLostWakeup'
<1>1. /\ e.by \in Actors /\ Len(log) \in Nat
      /\ \A a \in Actors : cursor[a] \in 0..Len(log) /\ unnotified[a] \in 0..Len(log)
      BY FeedAssumption DEF Draft, TypeOK, LogTypeOK, CallTypeOK
<1>2. unnotified \in [Actors -> 0..Len(log)]
      BY DEF TypeOK, LogTypeOK
<1>3. CASE AppendNew(e)
  <2>1. unnotified'[e.by] = Len(log) + 1 /\ cursor' = cursor
        BY <1>1, <1>2, <1>3 DEF AppendNew, serverVars
  <2> QED
      BY <1>1, <2>1 DEF NoLostWakeup
<1>4. CASE AppendAgain(e)
  <2>1. /\ unnotified[e.by] = 0
        /\ \A w \in Actors \ {e.by} : unnotified'[w] = unnotified[w]
        /\ UNCHANGED <<log, serverVars>>
        BY <1>2, <1>4 DEF AppendAgain
  <2>2. \A a, w \in Actors : unnotified[w] > cursor[a] => w # e.by
        BY <1>1, <2>1
  <2> QED
      BY <2>1, <2>2 DEF NoLostWakeup, serverVars
<1> QED
    BY <1>3, <1>4

LEMMA ServeWakeups ==
    ASSUME TypeOK, NoLostWakeup, NEW a \in Actors, Serve(a)
    PROVE  NoLostWakeup'
<1>1. CallTypeOK /\ HandleTypeOK
      BY DEF TypeOK
<1> USE DEF CallTypeOK
<1>2. CASE Scan(a)
  <2>1. CASE Answer(a)
        BY <1>1, <1>2, <2>1, WakeupFrame DEF Scan, Answer, Return, Unregister
  <2>2. CASE SkipEchoes(a)
        BY <1>1, <1>2, <2>2, WakeupFrame DEF Scan, SkipEchoes, Unregister
  <2> QED
      BY <1>1, <1>2, <2>1, <2>2, WakeupFrame DEF Scan
<1>3. CASE Recheck(a)
  <2>1. CASE Answer(a)
        BY <1>1, <1>3, <2>1, WakeupFrame DEF Recheck, Answer, Return, Unregister
  <2>2. CASE SkipEchoes(a)
        BY <1>1, <1>3, <2>2, WakeupFrame DEF Recheck, SkipEchoes, Unregister
  <2>3. CASE NothingNew(a) /\ UNCHANGED <<cursor, scheduled, signalled>>
             /\ pc' = [pc EXCEPT ![a] = "asleep"]
    <3>1. cursor[a] = Len(log) /\ Len(log) \in Nat
          BY <2>3, ReadPage DEF TypeOK, LogTypeOK
    <3> QED
        BY <1>1, <1>3, <2>3, <3>1, WakeupFrame DEF Recheck
  <2> QED
      BY <1>3, <2>1, <2>2, <2>3 DEF Recheck
<1>4. CASE Register(a) \/ FinalScan(a) \/ Refuse(a)
      BY <1>1, <1>4, WakeupFrame
      DEF Register, FinalScan, Answer, Refuse, Return, Unregister
<1>5. CASE Wake(a)
      BY <1>1, <1>5, WakeupFrame DEF Wake, Unregister
<1>6. CASE Notify(a)
  <2>1. \A b \in Actors : pc[b] = "asleep" => b \in registered
        BY <1>1 DEF HandleTypeOK, Waiting
  <2> QED
      BY <1>6, <2>1 DEF Notify, NoLostWakeup
<1>7. CASE SetHandle(a)
      BY <1>7 DEF SetHandle, NoLostWakeup
<1> QED
    BY <1>2, <1>3, <1>4, <1>5, <1>6, <1>7 DEF Serve

LEMMA ClientWakeups ==
    ASSUME TypeOK, NoLostWakeup, NEW a \in Actors,
           (\E m \in Modes : Ask(a, m)) \/ Timeout(a) \/ Receive(a) \/ LoseCall(a)
    PROVE  NoLostWakeup'
<1>1. CallTypeOK
      BY DEF TypeOK
<1>2. CASE \E m \in Modes : Ask(a, m)
      BY <1>1, <1>2, WakeupFrame DEF Ask, CallTypeOK
<1>3. CASE Timeout(a) \/ Receive(a)
      BY <1>1, <1>3, WakeupFrame DEF Timeout, Receive, CallTypeOK
<1>4. CASE LoseCall(a)
      BY <1>1, <1>4, WakeupFrame DEF LoseCall, Return, Unregister, CallTypeOK
<1> QED
    BY <1>2, <1>3, <1>4

\* Nobody sleeps over news: whatever the interleaving of lists, registrations,
\* commits and notifications, a sleeper that has something to read is about to
\* be woken (wait_after and ProcessLocalTableEventNotifier).
THEOREM WakeupsNeverLost == Spec => []NoLostWakeup
<1>1. Init => NoLostWakeup
      BY DEF Init, NoLostWakeup
<1>2. TypeOK /\ NoLostWakeup /\ [Next]_vars => NoLostWakeup'
  <2>1. CASE Crash
        BY <2>1 DEF Crash, NoLostWakeup
  <2>2. CASE UNCHANGED vars
        BY <2>2 DEF vars, serverVars, NoLostWakeup
  <2> QED
      BY <2>1, <2>2, WriterWakeups, ServeWakeups, ClientWakeups DEF Next
<1> QED
    BY <1>1, <1>2, FeedTypes, PTL DEF Spec
-----------------------------------------------------------------------------
(* What clients are given *)

\* event i is not for a, or is its own echo
Spared(a, i) == a \notin log[i].for \/ EchoOf(a, log[i])

\* what a call has passed without a page could be spared
CallSound(a) ==
    pc[a] \in {"scan", "register", "recheck", "asleep", "final"} =>
        /\ position[a] <= cursor[a]
        /\ \A i \in (position[a] + 1)..cursor[a] : Spared(a, i)

\* a page takes its client on from where it stands, and leaves out nothing else
PageSound(a) ==
    pc[a] = "answered" =>
        /\ position[a] <= page[a].cursor
        /\ page[a].events \subseteq (position[a] + 1)..page[a].cursor
        /\ \A i \in page[a].events : a \in log[i].for
        /\ \A i \in (position[a] + 1)..page[a].cursor : i \in page[a].events \/ Spared(a, i)

ClientSound(a) == \A i \in 1..position[a] : i \in given[a] \/ Spared(a, i)

Sound == \A a \in Actors : CallSound(a) /\ PageSound(a) /\ ClientSound(a)

\* what is in the log stays spared or not
LEMMA SparedKept ==
    ASSUME TypeOK, [Next]_vars, NEW a \in Actors, NEW i \in 1..Len(log)
    PROVE  /\ Spared(a, i)' <=> Spared(a, i)
           /\ a \in log'[i].for <=> a \in log[i].for
BY LogGrows DEF Spared, EchoOf

\* an actor whose call and client the step leaves alone
LEMMA SoundFrame ==
    ASSUME TypeOK, Sound, [Next]_vars, NEW a \in Actors,
           pc'[a] = pc[a], cursor'[a] = cursor[a], page'[a] = page[a],
           position'[a] = position[a], given'[a] = given[a]
    PROVE  CallSound(a)' /\ PageSound(a)' /\ ClientSound(a)'
<1>1. /\ Len(log) \in Nat /\ position[a] \in 0..Len(log) /\ cursor[a] \in 0..Len(log)
      /\ pc[a] = "answered" => page[a] \in Pages
      BY DEF TypeOK, LogTypeOK, CallTypeOK, ClientTypeOK
<1>2. CallSound(a)'
      BY <1>1, SparedKept DEF Sound, CallSound
<1>3. PageSound(a)'
  <2> SUFFICES ASSUME pc[a] = "answered" PROVE PageSound(a)'
      BY DEF PageSound
  <2>1. PageSound(a) /\ page[a].cursor \in 0..Len(log)
        BY <1>1 DEF Sound, Pages
  <2>2. page[a].events \subseteq 1..Len(log) /\ (position[a] + 1)..page[a].cursor \subseteq 1..Len(log)
        BY <1>1, <2>1 DEF Pages
  <2>3. \A i \in page[a].events : a \in log'[i].for
        BY <2>1, <2>2, SparedKept DEF PageSound
  <2>4. \A i \in (position[a] + 1)..page[a].cursor : i \in page[a].events \/ Spared(a, i)'
        BY <2>1, <2>2, SparedKept DEF PageSound
  <2> QED
      BY <2>1, <2>3, <2>4 DEF PageSound
<1>4. ClientSound(a)'
      BY <1>1, SparedKept DEF Sound, ClientSound
<1> QED
    BY <1>2, <1>3, <1>4

\* an actor that takes no step of its call keeps what it was given
LEMMA ClientFrame ==
    ASSUME TypeOK, Sound, [Next]_vars, NEW a \in Actors,
           position'[a] = position[a], given'[a] = given[a]
    PROVE  ClientSound(a)'
<1>1. Len(log) \in Nat /\ position[a] \in 0..Len(log)
      BY DEF TypeOK, LogTypeOK, ClientTypeOK
<1> QED
    BY <1>1, SparedKept DEF Sound, ClientSound

LEMMA AnswerSound ==
    ASSUME TypeOK, Sound, NEW a \in Actors, Untouched, Answer(a),
           pc[a] \in {"scan", "recheck", "final"}
    PROVE  CallSound(a)' /\ PageSound(a)'
<1>1. /\ Len(log) \in Nat /\ position[a] \in 0..Len(log) /\ cursor[a] \in 0..Len(log)
      /\ Read(a) \in Pages /\ cursor[a] <= Read(a).cursor
      /\ Read(a).events = Shown(a, mode[a]) \cap (cursor[a] + 1)..Read(a).cursor
      BY ReadPage DEF TypeOK, LogTypeOK, CallTypeOK, ClientTypeOK
<1>2. /\ position[a] <= cursor[a]
      /\ \A i \in (position[a] + 1)..cursor[a] : Spared(a, i)
      BY DEF Sound, CallSound
<1>3. Read(a).cursor \in 0..Len(log)
      BY <1>1 DEF Pages
<1>4. \A i \in (cursor[a] + 1)..Read(a).cursor : i \in Read(a).events \/ Spared(a, i)
      BY <1>1, <1>3 DEF Shown, Spared
<1>5. \A i \in Read(a).events : a \in log[i].for
      BY <1>1 DEF Shown
<1>6. pc'[a] = "answered" /\ page'[a] = Read(a) /\ log' = log /\ position' = position
      BY DEF Answer, Untouched, clientVars, TypeOK, CallTypeOK
<1>7. PageSound(a)'
      BY <1>1, <1>2, <1>3, <1>4, <1>5, <1>6 DEF PageSound, Spared
<1> QED
    BY <1>6, <1>7 DEF CallSound

LEMMA SkipSound ==
    ASSUME TypeOK, Sound, NEW a \in Actors, Untouched, SkipEchoes(a), mode[a] = "quiet",
           pc[a] \in {"scan", "recheck"}
    PROVE  CallSound(a)' /\ PageSound(a)'
<1>1. /\ Len(log) \in Nat /\ position[a] \in 0..Len(log) /\ cursor[a] \in 0..Len(log)
      /\ Read(a) \in Pages /\ cursor[a] <= Read(a).cursor
      /\ Read(a).events = Shown(a, mode[a]) \cap (cursor[a] + 1)..Read(a).cursor
      BY ReadPage DEF TypeOK, LogTypeOK, CallTypeOK, ClientTypeOK
<1>2. /\ position[a] <= cursor[a]
      /\ \A i \in (position[a] + 1)..cursor[a] : Spared(a, i)
      BY DEF Sound, CallSound
<1>3. Read(a).cursor \in 0..Len(log)
      BY <1>1 DEF Pages
<1>4. Read(a).events = {}
      BY DEF SkipEchoes, EndsWait
<1>5. \A i \in (cursor[a] + 1)..Read(a).cursor : Spared(a, i)
      BY <1>1, <1>3, <1>4 DEF Shown, Spared
<1>6. pc'[a] = "scan" /\ cursor'[a] = Read(a).cursor /\ log' = log /\ position' = position
      BY DEF SkipEchoes, Untouched, clientVars, TypeOK, CallTypeOK
<1>7. CallSound(a)'
      BY <1>1, <1>2, <1>3, <1>5, <1>6 DEF CallSound, Spared
<1> QED
    BY <1>6, <1>7 DEF PageSound

\* a step of a's call that keeps its cursor, or ends the call
LEMMA CallKept ==
    ASSUME TypeOK, Sound, NEW a \in Actors, Untouched,
           \/ pc'[a] = "idle"
           \/ /\ cursor'[a] = cursor[a] /\ pc'[a] # "answered"
              /\ pc[a] \in {"scan", "register", "recheck", "asleep", "final"}
    PROVE  CallSound(a)' /\ PageSound(a)'
BY DEF Sound, CallSound, PageSound, Spared, Untouched, clientVars

LEMMA OwnStepSound ==
    ASSUME TypeOK, Sound, [Next]_vars, NEW a \in Actors,
           Scan(a) \/ Register(a) \/ Recheck(a) \/ Wake(a) \/ FinalScan(a) \/ Refuse(a)
           \/ Timeout(a)
    PROVE  CallSound(a)' /\ PageSound(a)' /\ ClientSound(a)'
<1> USE DEF Untouched
<1>0. CallTypeOK
      BY DEF TypeOK
<1>1. ClientSound(a)'
      BY ClientFrame
      DEF Scan, Register, Recheck, Wake, FinalScan, Refuse, Timeout, clientVars
<1>2. CASE Scan(a)
      BY <1>0, <1>1, <1>2, AnswerSound, SkipSound, CallKept DEF Scan, CallTypeOK
<1>3. CASE Recheck(a)
      BY <1>0, <1>1, <1>3, AnswerSound, SkipSound, CallKept DEF Recheck, CallTypeOK
<1>4. CASE FinalScan(a)
      BY <1>1, <1>4, AnswerSound DEF FinalScan
<1>5. CASE Register(a) \/ Wake(a) \/ Refuse(a) \/ Timeout(a)
      BY <1>0, <1>1, <1>5, CallKept DEF Register, Wake, Refuse, Return, Timeout, CallTypeOK
<1> QED
    BY <1>2, <1>3, <1>4, <1>5

LEMMA ReceiveSound ==
    ASSUME TypeOK, Sound, NEW a \in Actors, Receive(a)
    PROVE  CallSound(a)' /\ PageSound(a)' /\ ClientSound(a)'
<1>1. /\ Len(log) \in Nat /\ position[a] \in 0..Len(log) /\ page[a] \in Pages
      /\ given[a] \in SUBSET (1..Len(log))
      BY DEF TypeOK, LogTypeOK, CallTypeOK, ClientTypeOK, Receive
<1>2. /\ pc'[a] = "idle" /\ log' = log
      /\ position'[a] = Higher(position[a], page[a].cursor)
      /\ given'[a] = given[a] \cup page[a].events
  <2>1. CallTypeOK /\ ClientTypeOK
        BY DEF TypeOK
  <2> QED
      BY <2>1 DEF Receive, CallTypeOK, ClientTypeOK
<1>3. PageSound(a) /\ ClientSound(a) /\ pc[a] = "answered"
      BY DEF Sound, Receive
<1>4. page[a].cursor \in 0..Len(log) /\ position'[a] = page[a].cursor
      BY <1>1, <1>2, <1>3 DEF PageSound, Higher, Pages
<1>5. ASSUME NEW i \in 1..page[a].cursor
      PROVE  i \in given'[a] \/ Spared(a, i)
  <2>1. CASE i <= position[a]
        BY <1>1, <1>2, <1>3, <1>4, <2>1 DEF ClientSound
  <2>2. CASE i > position[a]
        BY <1>1, <1>2, <1>3, <1>4, <2>2 DEF PageSound
  <2> QED
      BY <1>1, <1>4, <2>1, <2>2
<1> QED
    BY <1>2, <1>4, <1>5 DEF CallSound, PageSound, ClientSound, Spared

LEMMA SoundStep == TypeOK /\ Sound /\ [Next]_vars => Sound'
<1> SUFFICES ASSUME TypeOK, Sound, [Next]_vars, NEW b \in Actors
             PROVE  CallSound(b)' /\ PageSound(b)' /\ ClientSound(b)'
    BY DEF Sound
<1>0. CallTypeOK /\ ClientTypeOK
      BY DEF TypeOK
<1> USE DEF serverVars, clientVars
<1>1. CASE UNCHANGED <<pc, cursor, page, position, given>>
      BY <1>1, SoundFrame
<1>2. ASSUME NEW a \in Actors, a # b, Serve(a) \/ Timeout(a)
      PROVE  CallSound(b)' /\ PageSound(b)' /\ ClientSound(b)'
  <2>1. /\ pc'[b] = pc[b] /\ cursor'[b] = cursor[b] /\ page'[b] = page[b]
        /\ position'[b] = position[b] /\ given'[b] = given[b]
        BY <1>0, <1>2
        DEF CallTypeOK, Serve, Scan, Register, Recheck, Wake, FinalScan, Refuse, Notify, SetHandle,
            Timeout, Answer, SkipEchoes, Return
  <2> QED
      BY <2>1, SoundFrame
<1>3. ASSUME NEW a \in Actors, a # b, NEW m \in Modes, Ask(a, m) \/ Receive(a) \/ LoseCall(a)
      PROVE  CallSound(b)' /\ PageSound(b)' /\ ClientSound(b)'
      BY <1>0, <1>3, SoundFrame DEF CallTypeOK, ClientTypeOK, Ask, Receive, LoseCall, Return
<1>4. ASSUME NEW m \in Modes, Ask(b, m)
      PROVE  CallSound(b)' /\ PageSound(b)' /\ ClientSound(b)'
  <2>1. ClientSound(b)'
        BY <1>4, ClientFrame DEF Ask
  <2>2. pc'[b] = "scan" /\ cursor'[b] = position[b] /\ position' = position
        BY <1>0, <1>4 DEF Ask, CallTypeOK
  <2>3. position[b] \in Nat
        BY <1>0 DEF ClientTypeOK
  <2> QED
      BY <2>1, <2>2, <2>3 DEF CallSound, PageSound
<1>5. CASE LoseCall(b) \/ Crash
  <2>1. ClientSound(b)'
        BY <1>5, ClientFrame DEF LoseCall, Crash
  <2>2. pc'[b] = "idle"
        BY <1>0, <1>5 DEF LoseCall, Crash, CallTypeOK
  <2> QED
      BY <2>1, <2>2 DEF CallSound, PageSound
<1>6. CASE Notify(b) \/ SetHandle(b)
      BY <1>1, <1>6 DEF Notify, SetHandle
<1>7. ASSUME NEW e \in Drafts, AppendNew(e) \/ AppendAgain(e)
      PROVE  CallSound(b)' /\ PageSound(b)' /\ ClientSound(b)'
      BY <1>1, <1>7 DEF AppendNew, AppendAgain
<1>8. CASE UNCHANGED vars
      BY <1>1, <1>8 DEF vars
<1>9. ASSUME NEW a \in Actors, Serve(a) \/ Timeout(a)
      PROVE  CallSound(b)' /\ PageSound(b)' /\ ClientSound(b)'
      BY <1>2, <1>6, <1>9, OwnStepSound DEF Serve
<1>10. ASSUME NEW a \in Actors, (\E m \in Modes : Ask(a, m)) \/ Receive(a) \/ LoseCall(a)
       PROVE  CallSound(b)' /\ PageSound(b)' /\ ClientSound(b)'
       BY <1>3, <1>4, <1>5, <1>10, ReceiveSound, "list" \in Modes DEF Modes
<1> QED
    BY <1>5, <1>7, <1>8, <1>9, <1>10 DEF Next

LEMMA SoundFeed == Spec => []Sound
<1>1. Init => Sound
      BY DEF Init, Sound, CallSound, PageSound, ClientSound
<1> QED
    BY <1>1, SoundStep, FeedTypes, PTL DEF Spec

\* No client that follows its cursor ever misses an event meant for it, in any
\* Session and with pages of any size (list_after, wait_after).
THEOREM NothingEverSkipped == Spec => []NothingSkipped
<1>1. Sound => NothingSkipped
      BY DEF Sound, ClientSound, NothingSkipped, Spared, EchoOf
<1> QED
    BY <1>1, SoundFeed, PTL
-----------------------------------------------------------------------------
(* The implementation of OrderedFeed: an append of something new is Publish, *)
(* the arrival of a page is Give, every other step is a stutter.             *)

LEMMA AppendPublishes ==
    ASSUME NEW e \in Drafts, AppendNew(e)
    PROVE  Feed!Publish(e)
<1>1. e.ends \in BOOLEAN
      BY FeedAssumption DEF Draft
<1>2. status = "active" /\ status' = IF e.ends THEN "over" ELSE status
      BY DEF AppendNew
<1>3. ~(status = "over") /\ (status' = "over") = e.ends
      BY <1>1, <1>2
<1> QED
    BY <1>3 DEF AppendNew, KeyUsed, clientVars, Feed!Publish

LEMMA ReceiveGives ==
    ASSUME TypeOK, Sound, NEW a \in Actors, Receive(a)
    PROVE  \E to \in position[a]..Len(log), spared \in SUBSET Feed!Echoes(a) :
               Feed!Give(a, to, spared)
<1>1. /\ Len(log) \in Nat /\ position[a] \in 0..Len(log) /\ page[a] \in Pages
      /\ PageSound(a) /\ pc[a] = "answered"
      BY DEF TypeOK, LogTypeOK, CallTypeOK, ClientTypeOK, Receive, Sound
<1> DEFINE to == page[a].cursor
           spared == Feed!Echoes(a) \ page[a].events
<1>2. to \in position[a]..Len(log) /\ Higher(position[a], to) = to
      BY <1>1 DEF PageSound, Pages, Higher
<1>3. page[a].events = (Feed!Meant(a) \cap (position[a] + 1)..to) \ spared
  <2>1. ASSUME NEW i \in page[a].events
        PROVE  i \in Feed!Meant(a) /\ i \in (position[a] + 1)..to
        BY <1>1 DEF PageSound, Pages, Feed!Meant
  <2>2. ASSUME NEW i \in Feed!Meant(a), i \in (position[a] + 1)..to, i \notin page[a].events
        PROVE  i \in Feed!Echoes(a)
        BY <1>1, <2>2 DEF PageSound, Spared, EchoOf, Feed!Meant, Feed!Echoes
  <2> QED
      BY <2>1, <2>2
<1>4. Feed!Give(a, to, spared)
      BY <1>2, <1>3 DEF Receive, Feed!Give
<1> QED
    BY <1>2, <1>4

\* The feed keeps what OrderedFeed promises: one order, one event per key, a
\* final end, and readers given exactly what is meant for them, echoes aside.
THEOREM FeedImplemented == Spec => ImplementsFeed
<1>1. Init => Feed!Init
      BY DEF Init, Feed!Init
<1>2. TypeOK /\ Sound /\ [Next]_vars => [Feed!Next]_(Feed!vars)
  <2> SUFFICES ASSUME TypeOK, Sound, [Next]_vars PROVE [Feed!Next]_(Feed!vars)
      OBVIOUS
  <2>1. ASSUME NEW e \in Drafts, AppendNew(e)
        PROVE  Feed!Next
        BY <2>1, AppendPublishes DEF Feed!Next
  <2>2. ASSUME NEW a \in Actors, Receive(a)
        PROVE  Feed!Next
        BY <2>2, ReceiveGives DEF Feed!Next
  <2>3. CASE UNCHANGED <<log, status, clientVars>>
        BY <2>3 DEF Feed!vars, clientVars
  <2>4. ASSUME NEW a \in Actors,
               (\E m \in Modes : Ask(a, m)) \/ Serve(a) \/ Timeout(a) \/ LoseCall(a)
        PROVE  UNCHANGED <<log, status, clientVars>>
        BY <2>4
        DEF Ask, Serve, Scan, Register, Recheck, Wake, FinalScan, Refuse, Notify, SetHandle,
            Timeout, LoseCall
  <2>5. ASSUME NEW e \in Drafts, AppendAgain(e)
        PROVE  UNCHANGED <<log, status, clientVars>>
        BY <2>5 DEF AppendAgain
  <2> QED
      BY <2>1, <2>2, <2>3, <2>4, <2>5 DEF Next, vars, Crash
<1> QED
    BY <1>1, <1>2, FeedTypes, SoundFeed, PTL DEF Spec, ImplementsFeed, Feed!Spec
-----------------------------------------------------------------------------
(* The pages of FeedPaging *)

Asked == {"asked", "query", "rows", "page"}

Scans == [at : {"idle"} \cup Asked, for : {"none", "resume", "older", "other"},
          before : Nat, limit : 1..ScanLimit, cursor : Nat, below : Nat, left : 0..Chunks,
          rows : SUBSET (1..last), got : SUBSET (1..last), smallest : Nat, after : Nat, top : Nat]

PagingTypeOK ==
    /\ last \in Nat /\ shown \subseteq 1..last
    /\ scan \in Scans
    /\ tail \subseteq [after : Nat, cursor : Nat, events : SUBSET (1..last)]
    /\ reading \in BOOLEAN /\ floor \in Nat /\ head \in Nat /\ merged \subseteq 1..last

\* what lies in a stretch of the log a reader may see
Stretch(from, to) == shown \cap from..to

\* the reader asks no further than it has got
AskInv ==
    /\ scan.for = "older" => reading /\ scan.before = floor + 1 /\ floor > 0
    /\ scan.for = "resume" => ~reading /\ scan.before - 1 <= last
    /\ scan.for # "other" /\ scan.at \in Asked => scan.before >= 1 /\ scan.before - 1 <= last

\* the page ends where it was asked to, or at the head of the log
TopInv ==
    /\ scan.top <= last
    /\ scan.top = 0 \/ scan.top <= scan.before - 1
    /\ scan.for # "other" => scan.top = scan.before - 1 /\ scan.cursor = scan.top

\* n queries reach down to this row, whatever lies there
Reached(n) == scan.top + 1 - n * ScanLimit

\* between two queries: everything from below up is looked at, and not enough
QueryInv ==
    /\ scan.before > 1 /\ last >= 1
    /\ scan.for # "other" => scan.cursor = scan.before - 1
    /\ scan.left = Chunks => scan.got = {} /\ scan.below = scan.before
    /\ scan.left < Chunks =>
          /\ TopInv
          /\ scan.below = Reached(Chunks - scan.left) /\ scan.below >= 2
          /\ scan.smallest = scan.below
          /\ scan.got = Stretch(scan.below, scan.top)
          /\ Cardinality(scan.got) < scan.limit

\* between two rows, of which hi is the next
RowsInv ==
    /\ TopInv /\ scan.left >= 1
    /\ Cardinality(scan.got) < scan.limit
    /\ \E hi \in 1..scan.top :
          /\ Higher(1, Reached(Chunks - scan.left + 1)) <= hi
          /\ scan.rows = Higher(1, Reached(Chunks - scan.left + 1))..hi
          /\ scan.got = Stretch(hi + 1, scan.top)

\* the page is full, or it goes down as far as the budget
Budget == Higher(0, scan.top - Chunks * ScanLimit)

PageInv ==
    /\ TopInv
    /\ scan.after \in Budget..scan.top
    /\ scan.got = Stretch(scan.after + 1, scan.top)
    /\ \/ scan.after < scan.top /\ scan.after + 1 \in shown /\ Cardinality(scan.got) = scan.limit
       \/ scan.after = Budget /\ Cardinality(scan.got) < scan.limit

ScanInv ==
    /\ AskInv
    /\ scan.at = "asked" => scan.got = {} /\ scan.after = 0 /\ scan.top = 0
    /\ scan.at = "query" => QueryInv
    /\ scan.at = "rows" => RowsInv
    /\ scan.at = "page" => PageInv

\* what is on its way begins where the reader is
ReaderInv ==
    /\ reading => head <= last
    /\ ReaderIsWhole
    /\ \A p \in tail :
          /\ reading /\ p.after = head
          /\ p.cursor \in head..last /\ p.events = Stretch(head + 1, p.cursor)

PagingInv == PagingTypeOK /\ ScanInv /\ ReaderInv
-----------------------------------------------------------------------------
LEMMA ChunkSizes ==
    ASSUME NEW n \in Nat
    PROVE  /\ n * ScanLimit \in Nat /\ (n + 1) * ScanLimit = n * ScanLimit + ScanLimit
           /\ n < Chunks => (n + 1) * ScanLimit <= Chunks * ScanLimit
           /\ 1 * ScanLimit = ScanLimit /\ Chunks * ScanLimit \in Nat
<1>1. ScanLimit \in Nat /\ Chunks \in Nat
      BY PageAssumption
<1>2. n * ScanLimit \in Nat /\ (n + 1) * ScanLimit = n * ScanLimit + ScanLimit
      BY <1>1
<1>3. ASSUME n < Chunks
      PROVE  (n + 1) * ScanLimit <= Chunks * ScanLimit
  <2> DEFINE d == Chunks - (n + 1)
  <2>1. d \in Nat /\ Chunks = (n + 1) + d
        BY <1>1, <1>3
  <2>2. d * ScanLimit \in Nat /\ Chunks * ScanLimit = (n + 1) * ScanLimit + d * ScanLimit
        BY <1>1, <2>1
  <2>3. (n + 1) * ScanLimit \in Nat
        BY <1>1
  <2> HIDE DEF d
  <2> QED
      BY <2>2, <2>3
<1>4. 1 * ScanLimit = ScanLimit /\ Chunks * ScanLimit \in Nat
      BY <1>1
<1> QED
    BY <1>2, <1>3, <1>4

\* what is visible in a stretch is finite
LEMMA StretchFinite ==
    ASSUME PagingTypeOK, NEW from \in Nat, NEW to \in Nat
    PROVE  /\ IsFiniteSet(Stretch(from, to)) /\ Cardinality(Stretch(from, to)) \in Nat
           /\ Stretch(from, to) \subseteq shown
<1>1. Stretch(from, to) \in SUBSET (from..to) /\ Stretch(from, to) \subseteq shown
      BY DEF Stretch
<1>2. IsFiniteSet(from..to)
      BY FS_Interval
<1>3. IsFiniteSet(Stretch(from, to))
      BY <1>1, <1>2, FS_Subset
<1> QED
    BY <1>1, <1>3, FS_CardinalityType

\* a longer stretch has at least as many
LEMMA StretchGrows ==
    ASSUME PagingTypeOK, NEW from \in Nat, NEW more \in Nat, NEW to \in Nat, more <= from
    PROVE  /\ Cardinality(Stretch(from, to)) <= Cardinality(Stretch(more, to))
           /\ (\E q \in shown : more <= q /\ q < from /\ q <= to) =>
                  Cardinality(Stretch(from, to)) < Cardinality(Stretch(more, to))
<1>1. Stretch(from, to) \in SUBSET Stretch(more, to)
      BY DEF Stretch
<1>2. /\ Cardinality(Stretch(from, to)) \in Nat /\ Cardinality(Stretch(more, to)) \in Nat
      /\ IsFiniteSet(Stretch(more, to))
      BY StretchFinite
<1>3. /\ Cardinality(Stretch(from, to)) <= Cardinality(Stretch(more, to))
      /\ Cardinality(Stretch(more, to)) = Cardinality(Stretch(from, to)) =>
             Stretch(more, to) = Stretch(from, to)
      BY <1>1, <1>2, FS_Subset
<1>4. ASSUME NEW q \in shown, more <= q, q < from, q <= to
      PROVE  Stretch(more, to) # Stretch(from, to)
  <2>1. q \in Nat
        BY DEF PagingTypeOK
  <2> QED
      BY <1>4, <2>1 DEF Stretch
<1> QED
    BY <1>2, <1>3, <1>4

\* one row more: it counts if it is visible
LEMMA StretchNext ==
    ASSUME PagingTypeOK, NEW q \in Nat, NEW to \in Nat, q <= to
    PROVE  /\ Stretch(q, to) = IF q \in shown THEN Stretch(q + 1, to) \cup {q} ELSE Stretch(q + 1, to)
           /\ Cardinality(Stretch(q, to)) <= Cardinality(Stretch(q + 1, to)) + 1
           /\ q \notin shown => Cardinality(Stretch(q, to)) = Cardinality(Stretch(q + 1, to))
<1>1. Stretch(q, to) = IF q \in shown THEN Stretch(q + 1, to) \cup {q} ELSE Stretch(q + 1, to)
      BY DEF Stretch, PagingTypeOK
<1>2. IsFiniteSet(Stretch(q + 1, to)) /\ Cardinality(Stretch(q + 1, to)) \in Nat
      BY StretchFinite
<1>3. Cardinality(Stretch(q + 1, to) \cup {q}) <= Cardinality(Stretch(q + 1, to)) + 1
      BY <1>2, FS_AddElement
<1> QED
    BY <1>1, <1>2, <1>3

\* the page of EventPages is the only one that ends at top, is full or goes down
\* to the budget
LEMMA PageIsUnique ==
    ASSUME PagingTypeOK, PageInv
    PROVE  ScanIsThePage
<1> DEFINE top == Higher(0, Lower(scan.before - 1, scan.top))
           budget == Higher(0, top - Chunks * ScanLimit)
           full   == {a \in budget..(top - 1) :
                         /\ a + 1 \in shown
                         /\ Cardinality(shown \cap (a + 1)..top) = PageLimit(scan.limit)}
           after  == IF full = {} THEN budget ELSE CHOOSE a \in full : TRUE
<1>1. /\ scan.before \in Nat /\ scan.top \in Nat /\ scan.limit \in 1..ScanLimit
      /\ scan.after \in Nat /\ ScanLimit \in Nat \ {0} /\ Chunks \in Nat \ {0}
      BY PageAssumption DEF PagingTypeOK, Scans
<1>2. top = scan.top /\ PageLimit(scan.limit) = scan.limit
  <2>1. scan.top = 0 \/ scan.top <= scan.before - 1
        BY DEF PageInv, TopInv
  <2> QED
      BY <1>1, <2>1 DEF Higher, Lower, PageLimit
<1>3. budget = Budget
      BY <1>2 DEF Budget
<1>4. Budget \in 0..scan.top /\ (scan.top > 0 => Budget < scan.top)
  <2>1. Chunks * ScanLimit \in Nat \ {0}
    <3>1. 0 < Chunks
          BY <1>1
    <3>2. (0 + 1) * ScanLimit <= Chunks * ScanLimit /\ 1 * ScanLimit = ScanLimit /\ Chunks * ScanLimit \in Nat
          BY <3>1, ChunkSizes
    <3> QED
        BY <1>1, <3>2
  <2> DEFINE budgeted == Chunks * ScanLimit
  <2> HIDE DEF budgeted
  <2>2. budgeted \in Nat \ {0} /\ Budget = Higher(0, scan.top - budgeted)
        BY <2>1 DEF budgeted, Budget
  <2> QED
      BY <1>1, <2>2 DEF Higher
<1> HIDE DEF top, budget
<1>5. full = {a \in Budget..(scan.top - 1) :
                  a + 1 \in shown /\ Cardinality(Stretch(a + 1, scan.top)) = scan.limit}
      BY <1>2, <1>3 DEF Stretch
<1>6. after = scan.after
  <2>1. ASSUME NEW a \in full
        PROVE  /\ a \in Nat /\ a + 1 \in shown /\ a < scan.top /\ Budget <= a
               /\ Cardinality(Stretch(a + 1, scan.top)) = scan.limit
    <3> HIDE DEF full
    <3> QED
        BY <1>1, <1>4, <1>5, <2>1
  <2>2. CASE /\ scan.after < scan.top /\ scan.after + 1 \in shown
             /\ Cardinality(scan.got) = scan.limit
    <3>1. scan.after \in full
          BY <1>1, <1>4, <1>5, <2>2 DEF PageInv
    <3>2. ASSUME NEW a \in full
          PROVE  a = scan.after
      <4> a + 1 \in Nat /\ scan.after + 1 \in Nat
          BY <1>1, <2>1, <3>2
      <4>1. ~(a < scan.after)
        <5>1. ASSUME a < scan.after
              PROVE  FALSE
          <6>1. Cardinality(Stretch(scan.after + 1, scan.top)) < Cardinality(Stretch(a + 1, scan.top))
            <7>1. a + 1 <= scan.after + 1 /\ a + 1 < scan.after + 1 /\ a + 1 <= scan.top
                  BY <1>1, <2>1, <2>2, <3>2, <5>1
            <7> QED
                BY <1>1, <2>1, <3>2, <7>1, StretchGrows
          <6> QED
              BY <1>1, <2>1, <2>2, <3>2, <6>1 DEF PageInv
        <5> QED
            BY <5>1
      <4>2. ~(scan.after < a)
        <5>1. ASSUME scan.after < a
              PROVE  FALSE
          <6>1. Cardinality(Stretch(a + 1, scan.top)) < Cardinality(Stretch(scan.after + 1, scan.top))
            <7>1. /\ scan.after + 1 <= a + 1 /\ scan.after + 1 < a + 1
                  /\ scan.after + 1 <= scan.top
                  BY <1>1, <2>1, <2>2, <3>2, <5>1
            <7> QED
                BY <1>1, <2>2, <7>1, StretchGrows
          <6> QED
              BY <1>1, <2>1, <2>2, <3>2, <6>1 DEF PageInv
        <5> QED
            BY <5>1
      <4> QED
          BY <1>1, <2>1, <3>2, <4>1, <4>2
    <3> HIDE DEF full
    <3> QED
        BY <3>1, <3>2
  <2>3. CASE scan.after = Budget /\ Cardinality(scan.got) < scan.limit
    <3>1. ASSUME NEW a \in full
          PROVE  FALSE
      <4> a + 1 \in Nat /\ scan.after + 1 \in Nat
          BY <1>1, <2>1, <3>1
      <4>1. Cardinality(Stretch(a + 1, scan.top)) <= Cardinality(Stretch(scan.after + 1, scan.top))
            BY <1>1, <2>1, <2>3, <3>1, StretchGrows
      <4>2. Cardinality(Stretch(scan.after + 1, scan.top)) \in Nat
            BY <1>1, StretchFinite
      <4> QED
          BY <1>1, <2>1, <2>3, <3>1, <4>1, <4>2 DEF PageInv
    <3> HIDE DEF full
    <3> QED
        BY <1>3, <2>3, <3>1 DEF after
  <2> QED
      BY <2>2, <2>3 DEF PageInv
<1>7. PageBefore(scan.top, shown, scan.before, scan.limit) =
          [after |-> after, cursor |-> top, events |-> shown \cap (after + 1)..top]
      BY DEF PageBefore, top, budget
<1> HIDE DEF after
<1>8. scan.got = shown \cap (after + 1)..top /\ scan.after = after
      BY <1>2, <1>6 DEF PageInv, Stretch
<1>9. scan.after < scan.top \/ scan.top = 0
      BY <1>1, <1>4 DEF PageInv
<1> QED
    BY <1>7, <1>8, <1>9 DEF ScanIsThePage, PageInv, TopInv
-----------------------------------------------------------------------------
LEMMA NoScanType == NoScan \in Scans
<1>1. 1 \in 1..ScanLimit /\ 0 \in 0..Chunks /\ 0 \in Nat
      BY PageAssumption
<1> QED
    BY <1>1 DEF NoScan, Scans

LEMMA PagingInitInv == PagingInit => PagingInv
<1> SUFFICES ASSUME PagingInit
             PROVE  PagingInv
    OBVIOUS
<1>1. PagingTypeOK
      BY NoScanType DEF PagingInit, PagingTypeOK
<1>2. ScanInv
      BY DEF PagingInit, NoScan, ScanInv, AskInv, Asked
<1>3. ReaderInv
      BY DEF PagingInit, ReaderInv, ReaderIsWhole
<1> QED
    BY <1>1, <1>2, <1>3 DEF PagingInv

\* a row more takes nothing from what has been looked at
LEMMA AppendPaging ==
    ASSUME PagingInv, AppendRow
    PROVE  PagingInv'
<1>1. /\ PagingTypeOK /\ ScanInv /\ ReaderInv
      /\ UNCHANGED <<scan, tail, reading, floor, head, merged>>
      /\ last \in Nat /\ last' = last + 1 /\ 1..last \subseteq 1..last'
      /\ shown' \in {shown, shown \cup {last + 1}} /\ shown \subseteq 1..last
      BY DEF PagingInv, PagingTypeOK, AppendRow, readerVars
<1>2. PagingTypeOK'
      BY <1>1 DEF PagingTypeOK, Scans
<1>3. ASSUME NEW from \in Nat, NEW to \in Nat, to <= last
      PROVE  Stretch(from, to)' = Stretch(from, to)
      BY <1>1, <1>3 DEF Stretch
<1>4. scan \in Scans /\ floor \in Nat /\ head \in Nat
      BY <1>1 DEF PagingTypeOK
<1>5. AskInv' /\ (TopInv => TopInv')
      BY <1>1, <1>4 DEF ScanInv, AskInv, TopInv, Scans
<1>6. QueryInv => QueryInv'
  <2>1. ASSUME QueryInv, scan.left < Chunks
        PROVE  Stretch(scan.below, scan.top)' = Stretch(scan.below, scan.top)
        BY <1>1, <1>3, <1>4, <2>1 DEF QueryInv, TopInv, Scans
  <2> QED
      BY <1>1, <1>4, <1>5, <2>1 DEF QueryInv, Reached
<1>7. RowsInv => RowsInv'
  <2>1. ASSUME RowsInv, NEW hi \in 1..scan.top
        PROVE  Stretch(hi + 1, scan.top)' = Stretch(hi + 1, scan.top)
        BY <1>1, <1>3, <1>4, <2>1 DEF RowsInv, TopInv, Scans
  <2> QED
      BY <1>1, <1>5, <2>1 DEF RowsInv, Reached
<1>8. PageInv => PageInv'
  <2>1. ASSUME PageInv
        PROVE  Stretch(scan.after + 1, scan.top)' = Stretch(scan.after + 1, scan.top)
        BY <1>1, <1>3, <1>4, <2>1 DEF PageInv, TopInv, Scans
  <2> QED
      BY <1>1, <1>5, <2>1 DEF PageInv, Budget
<1>9. ScanInv'
      BY <1>1, <1>5, <1>6, <1>7, <1>8 DEF ScanInv
<1>10. ReaderInv'
  <2>1. ASSUME reading
        PROVE  Stretch(floor + 1, head)' = Stretch(floor + 1, head) /\ head <= last
        BY <1>1, <1>3, <1>4, <2>1 DEF ReaderInv
  <2>2. reading => head' <= last'
        BY <1>1, <1>4, <2>1
  <2>3. ReaderIsWhole'
        BY <1>1, <2>1 DEF ReaderInv, ReaderIsWhole, Stretch
  <2>4. ASSUME NEW p \in tail
        PROVE  p.cursor \in (head..last)' /\ p.events = Stretch(head + 1, p.cursor)'
    <3>1. p.cursor \in head..last /\ p.events = Stretch(head + 1, p.cursor)
          BY <1>1, <2>4 DEF ReaderInv
    <3> QED
        BY <1>1, <1>3, <1>4, <3>1
  <2> QED
      BY <1>1, <2>2, <2>3, <2>4 DEF ReaderInv
<1> QED
    BY <1>2, <1>9, <1>10 DEF PagingInv

\* a step of a scan leaves the log and the reader alone
LEMMA ScanStep ==
    ASSUME PagingInv, UNCHANGED <<last, shown, tail, readerVars>>,
           scan' \in Scans, ScanInv'
    PROVE  PagingInv'
<1>1. PagingTypeOK'
      BY DEF PagingInv, PagingTypeOK, readerVars, Scans
<1>2. ReaderInv'
      BY DEF PagingInv, ReaderInv, ReaderIsWhole, Stretch, readerVars
<1> QED
    BY <1>1, <1>2 DEF PagingInv

LEMMA AskPaging ==
    ASSUME PagingInv, NEW limit \in Limits, NEW before \in Positions,
           AskRecent(limit) \/ AskOlder(limit) \/ AskBefore("other", before, limit)
    PROVE  PagingInv'
<1>1. /\ PagingTypeOK /\ last \in Nat /\ floor \in Nat /\ head \in Nat
      /\ reading => floor <= head /\ head <= last
      BY DEF PagingInv, PagingTypeOK, ReaderInv, ReaderIsWhole
<1>2. PageLimit(limit) \in 1..ScanLimit
      BY PageAssumption DEF Limits, PageLimit, Higher, Lower
<1>3. before \in Nat
      BY DEF Positions
<1>4. PICK for \in {"resume", "older", "other"}, at \in Nat :
          /\ AskBefore(for, at, limit)
          /\ for = "resume" => ~reading /\ at = last + 1
          /\ for = "older" => reading /\ at = floor + 1 /\ floor > 0
      BY <1>1, <1>3 DEF AskRecent, AskOlder
<1>5. scan' = [NoScan EXCEPT !.at = "asked", !.for = for, !.before = at,
                             !.limit = PageLimit(limit)]
      BY <1>4 DEF AskBefore
<1>6. /\ scan' \in Scans /\ scan'.at = "asked" /\ scan'.for = for /\ scan'.before = at
      /\ scan'.got = {} /\ scan'.after = 0 /\ scan'.top = 0
  <2>1. 1 \in 1..ScanLimit /\ 0 \in 0..Chunks /\ 0 \in Nat
        BY PageAssumption
  <2>2. /\ scan' = [at |-> "asked", for |-> for, before |-> at, limit |-> PageLimit(limit),
                    cursor |-> 0, below |-> 0, left |-> 0, rows |-> {}, got |-> {}, smallest |-> 0,
                    after |-> 0, top |-> 0]
        BY <1>5 DEF NoScan
  <2> QED
      BY <1>2, <1>4, <2>1, <2>2 DEF Scans, Asked
<1>7. UNCHANGED <<last, shown, tail, readerVars>>
      BY <1>4 DEF AskBefore
<1>8. ScanInv'
      BY <1>1, <1>4, <1>6, <1>7 DEF ScanInv, AskInv, readerVars
<1> QED
    BY <1>6, <1>7, <1>8, ScanStep
-----------------------------------------------------------------------------
(* The scan *)

LEMMA RuntimePaging ==
    ASSUME PagingInv, ReadRuntime
    PROVE  PagingInv'
<1> DEFINE end == Higher(0, Lower(scan.before - 1, last))
<1>1. /\ last \in Nat /\ scan \in Scans /\ scan.at = "asked" /\ AskInv
      /\ scan.got = {} /\ scan.after = 0 /\ scan.top = 0
      /\ UNCHANGED <<last, shown, tail, readerVars>>
      BY DEF PagingInv, PagingTypeOK, ReadRuntime, ScanInv
<1>2. /\ scan.before \in Nat /\ scan.limit \in 1..ScanLimit /\ ScanLimit \in Nat
      /\ Chunks \in Nat \ {0} /\ Chunks * ScanLimit \in Nat
      BY <1>1, ChunkSizes, PageAssumption DEF Scans
<1>3. /\ end \in 0..last /\ end \in Nat
      /\ scan.for # "other" => end = scan.before - 1 /\ scan.before >= 1
      BY <1>1, <1>2 DEF AskInv, Asked, Higher, Lower
<1>4. CASE scan.before <= 1 \/ last = 0
  <2>1. scan' = [scan EXCEPT !.at = "page", !.cursor = end]
        BY <1>4 DEF ReadRuntime
  <2> HIDE DEF end
  <2>2. scan' \in Scans
    <3>1. "page" \in {"idle"} \cup Asked
          BY DEF Asked
    <3> QED
        BY <1>1, <1>3, <2>1, <3>1 DEF Scans
  <2>3. /\ scan'.at = "page" /\ scan'.cursor = end /\ scan'.for = scan.for
        /\ scan'.before = scan.before /\ scan'.limit = scan.limit
        /\ scan'.got = {} /\ scan'.after = 0 /\ scan'.top = 0
        BY <1>1, <2>1 DEF Scans
  <2>4. AskInv' /\ TopInv'
        BY <1>1, <1>2, <1>3, <1>4, <2>3 DEF AskInv, TopInv, Asked, readerVars
  <2>5. Budget' = 0
    <3> DEFINE budgeted == Chunks * ScanLimit
    <3>1. budgeted \in Nat /\ Budget' = Higher(0, 0 - budgeted)
          BY <1>2, <2>3 DEF Budget
    <3> HIDE DEF budgeted
    <3> QED
        BY <3>1 DEF Higher
  <2>6. PageInv'
    <3>1. Stretch(1, 0)' = {}
          BY DEF Stretch
    <3> QED
        BY <1>2, <2>3, <2>4, <2>5, <3>1, FS_EmptySet DEF PageInv
  <2> QED
      BY <1>1, <2>2, <2>3, <2>4, <2>6, ScanStep DEF ScanInv
<1>5. CASE scan.before > 1 /\ last # 0
  <2>1. scan' = [scan EXCEPT !.at = "query", !.cursor = end, !.below = scan.before, !.left = Chunks]
        BY <1>2, <1>5 DEF ReadRuntime
  <2> HIDE DEF end
  <2>2. scan' \in Scans
    <3>1. "query" \in {"idle"} \cup Asked /\ Chunks \in 0..Chunks
          BY <1>2 DEF Asked
    <3> QED
        BY <1>1, <1>2, <1>3, <2>1, <3>1 DEF Scans
  <2>3. /\ scan'.at = "query" /\ scan'.cursor = end /\ scan'.for = scan.for
        /\ scan'.before = scan.before /\ scan'.left = Chunks /\ scan'.below = scan.before
        /\ scan'.got = {}
        BY <1>1, <2>1 DEF Scans
  <2>4. AskInv' /\ QueryInv'
        BY <1>1, <1>2, <1>3, <1>5, <2>3 DEF AskInv, QueryInv, Asked, readerVars
  <2> QED
      BY <1>1, <2>2, <2>3, <2>4, ScanStep DEF ScanInv
<1> QED
    BY <1>2, <1>4, <1>5

\* the newest rows below
LEMMA RowsAre ==
    ASSUME PagingTypeOK, NEW below \in Nat, below >= 2, last >= 1
    PROVE  LET top == Lower(below - 1, last)
           IN /\ top \in 1..last /\ top <= below - 1
              /\ RowsBefore(below) = Higher(1, top + 1 - ScanLimit)..top
              /\ Higher(1, top + 1 - ScanLimit) <= top
<1>1. last \in Nat /\ ScanLimit \in Nat \ {0}
      BY PageAssumption DEF PagingTypeOK
<1> DEFINE top == Lower(below - 1, last)
<1>2. top \in 1..last /\ top <= below - 1
      BY <1>1 DEF Lower
<1>3. RowsBefore(below) = {q \in 1..top : q > top - ScanLimit}
      BY DEF RowsBefore
<1> HIDE DEF top
<1>4. {q \in 1..top : q > top - ScanLimit} = Higher(1, top + 1 - ScanLimit)..top
      BY <1>1, <1>2 DEF Higher
<1>5. Higher(1, top + 1 - ScanLimit) <= top
      BY <1>1, <1>2 DEF Higher
<1> QED
    BY <1>2, <1>3, <1>4, <1>5 DEF top

LEMMA QueryPaging ==
    ASSUME PagingInv, QueryRows
    PROVE  PagingInv'
<1>1. /\ PagingTypeOK /\ last \in Nat /\ scan \in Scans /\ scan.at = "query" /\ AskInv /\ QueryInv
      /\ UNCHANGED <<last, shown, tail, readerVars>>
      BY DEF PagingInv, PagingTypeOK, QueryRows, ScanInv
<1>2. /\ ScanLimit \in Nat \ {0} /\ Chunks \in Nat \ {0} /\ Chunks * ScanLimit \in Nat
      /\ 1 * ScanLimit = ScanLimit
      BY ChunkSizes, PageAssumption
<1>3. /\ scan.before \in Nat /\ scan.limit \in 1..ScanLimit /\ scan.below \in Nat
      /\ scan.left \in 0..Chunks /\ scan.smallest \in Nat /\ scan.top \in Nat
      BY <1>1 DEF Scans
<1>4. scan.below >= 2 /\ last >= 1
      BY <1>1, <1>2, <1>3 DEF QueryInv
<1>5. PICK end \in Nat : end = Lower(scan.below - 1, last)
      BY <1>1, <1>3, <1>4 DEF Lower
<1>6. PICK lo \in Nat : lo = Higher(1, end + 1 - ScanLimit)
  <2>1. end + 1 - ScanLimit \in Int
        BY <1>2
  <2>2. Higher(1, end + 1 - ScanLimit) \in Nat
        BY <2>1 DEF Higher
  <2> QED
      BY <2>2
<1>7. /\ end \in 1..last /\ end <= scan.below - 1 /\ lo \in 1..end
      /\ RowsBefore(scan.below) = lo..end
  <2>1. /\ end \in 1..last /\ end <= scan.below - 1 /\ lo <= end
        /\ RowsBefore(scan.below) = lo..end
        BY <1>1, <1>3, <1>4, <1>5, <1>6, RowsAre
  <2>2. 1 <= lo
        BY <1>2, <1>6 DEF Higher
  <2> QED
      BY <2>1, <2>2
<1>8. lo..end # {} /\ lo..end \subseteq 1..last
      BY <1>1, <1>7
<1>9. ASSUME NEW a, NEW b
      PROVE  Stretch(a, b)' = Stretch(a, b)
      BY <1>1 DEF Stretch
<1>10. CASE scan.left = 0
  <2>1. scan' = [scan EXCEPT !.at = "page", !.after = Higher(0, scan.smallest - 1), !.rows = {}]
    <3>1. Page(scan.got, Higher(0, scan.smallest - 1))
          BY <1>10 DEF QueryRows
    <3> QED
        BY <1>1, <3>1 DEF Page, Scans
  <2>2. /\ TopInv /\ scan.below = Reached(Chunks) /\ scan.smallest = scan.below
        /\ scan.got = Stretch(scan.below, scan.top) /\ Cardinality(scan.got) < scan.limit
        BY <1>1, <1>2, <1>3, <1>10 DEF QueryInv
  <2>3. PICK rows \in Nat : rows = Chunks * ScanLimit
        BY <1>2
  <2>4. scan.below = scan.top + 1 - rows /\ Budget = Higher(0, scan.top - rows)
        BY <2>2, <2>3 DEF Reached, Budget
  <2>5. Budget = scan.below - 1 /\ Budget \in 0..scan.top
        BY <1>3, <1>4, <2>4 DEF Higher
  <2>6. Higher(0, scan.smallest - 1) = scan.below - 1 /\ scan.below - 1 \in Nat
        BY <1>3, <1>4, <2>2 DEF Higher
  <2>7. scan' \in Scans
        BY <1>1, <2>1, <2>6 DEF Scans, Asked
  <2>8. /\ scan'.at = "page" /\ scan'.for = scan.for /\ scan'.cursor = scan.cursor
        /\ scan'.before = scan.before /\ scan'.limit = scan.limit
        /\ scan'.got = scan.got /\ scan'.top = scan.top /\ scan'.after = scan.below - 1
        BY <1>1, <2>1, <2>6 DEF Scans
  <2>9. AskInv' /\ TopInv' /\ Budget' = Budget
        BY <1>1, <2>2, <2>8 DEF AskInv, TopInv, Budget, Asked, readerVars
  <2>10. PageInv'
    <3>1. Stretch(scan.after + 1, scan.top)' = Stretch(scan.below, scan.top)
          BY <1>1, <1>3, <2>8 DEF Stretch
    <3> QED
        BY <2>2, <2>5, <2>8, <2>9, <3>1 DEF PageInv
  <2> QED
      BY <1>1, <2>7, <2>8, <2>9, <2>10, ScanStep DEF ScanInv
<1>11. CASE scan.left > 0
  <2>1. PICK top \in Nat : top = IF scan.left = Chunks THEN end ELSE scan.top
        BY <1>3
  <2>2. scan' = [scan EXCEPT !.at = "rows", !.rows = lo..end, !.top = top]
    <3>1. scan.left # 0 /\ RowsBefore(scan.below) # {}
          BY <1>3, <1>7, <1>8, <1>11
    <3>2. scan' = [scan EXCEPT !.at = "rows", !.rows = RowsBefore(scan.below),
                               !.top = IF scan.left = Chunks THEN Lower(scan.below - 1, last) ELSE @]
          BY <1>11, <3>1 DEF QueryRows
    <3> QED
        BY <1>5, <1>7, <2>1, <3>2
  <2>3. top <= last /\ end <= top
    <3>1. CASE scan.left = Chunks
          BY <1>7, <2>1, <3>1
    <3>2. CASE scan.left < Chunks
      <4>1. PICK below \in Nat : below = (Chunks - scan.left) * ScanLimit
            BY <1>2, <1>3, ChunkSizes
      <4>2. (Chunks - scan.left) \in Nat \ {0}
            BY <1>2, <1>3, <3>2
      <4>3. below >= 1
            BY <1>2, <4>1, <4>2
      <4>4. scan.below = scan.top + 1 - below /\ scan.top <= last
            BY <1>1, <3>2, <4>1 DEF QueryInv, Reached, TopInv
      <4> QED
          BY <1>3, <1>7, <2>1, <3>2, <4>3, <4>4
    <3> QED
        BY <1>2, <1>3, <3>1, <3>2
  <2>4. scan' \in Scans
        BY <1>1, <1>8, <2>2, <2>1 DEF Scans, Asked
  <2>5. /\ scan'.at = "rows" /\ scan'.for = scan.for /\ scan'.cursor = scan.cursor
        /\ scan'.before = scan.before /\ scan'.limit = scan.limit /\ scan'.left = scan.left
        /\ scan'.got = scan.got /\ scan'.top = top /\ scan'.rows = lo..end
        BY <1>1, <2>2 DEF Scans
  <2>6. AskInv'
        BY <1>1, <2>5 DEF AskInv, Asked, readerVars
  <2>7. TopInv'
    <3>1. CASE scan.left = Chunks
      <4>1. top = end /\ scan.below = scan.before
            BY <1>1, <2>1, <3>1 DEF QueryInv
      <4>2. scan.for # "other" => end = scan.before - 1 /\ scan.cursor = scan.before - 1
            BY <1>1, <1>3, <1>5, <4>1 DEF QueryInv, AskInv, Asked, Lower
      <4> QED
          BY <1>1, <1>7, <2>5, <4>1, <4>2 DEF TopInv
    <3>2. CASE scan.left < Chunks
      <4>1. top = scan.top /\ TopInv
            BY <1>1, <1>2, <1>3, <2>1, <3>2 DEF QueryInv
      <4> QED
          BY <1>1, <2>5, <4>1 DEF TopInv
    <3> QED
        BY <1>2, <1>3, <3>1, <3>2
  <2>8. PICK n \in Nat : n = Chunks - scan.left
        BY <1>2, <1>3
  <2>9. top + 1 - (n + 1) * ScanLimit = end + 1 - ScanLimit
    <3>1. CASE scan.left = Chunks
      <4>1. n + 1 = 1 /\ top = end
            BY <1>2, <2>1, <2>8, <3>1
      <4> QED
          BY <1>2, <4>1
    <3>2. CASE scan.left < Chunks
      <4>1. PICK below \in Nat : below = n * ScanLimit
            BY ChunkSizes
      <4>2. (n + 1) * ScanLimit = below + ScanLimit
            BY <4>1, ChunkSizes
      <4>3. scan.below = scan.top + 1 - below /\ scan.top <= last
            BY <1>1, <2>8, <3>2, <4>1 DEF QueryInv, Reached, TopInv
      <4>4. end = scan.below - 1 /\ top = scan.top
            BY <1>1, <1>3, <1>5, <2>1, <3>2, <4>3 DEF Lower
      <4> QED
          BY <1>2, <1>3, <4>2, <4>3, <4>4
    <3> QED
        BY <1>2, <1>3, <3>1, <3>2
  <2>10. scan.got = Stretch(end + 1, top) /\ Cardinality(scan.got) < scan.limit
    <3>1. CASE scan.left = Chunks
      <4>1. Stretch(end + 1, top) = {} /\ scan.got = {}
            BY <1>1, <1>7, <2>1, <3>1 DEF Stretch, QueryInv
      <4> QED
          BY <1>2, <1>3, <4>1, FS_EmptySet
    <3>2. CASE scan.left < Chunks
      <4>1. end + 1 = scan.below /\ top = scan.top
        <5>1. PICK below \in Nat : below = (Chunks - scan.left) * ScanLimit
              BY <2>8, ChunkSizes
        <5>2. scan.below = scan.top + 1 - below /\ scan.top <= last
              BY <1>1, <3>2, <5>1 DEF QueryInv, Reached, TopInv
        <5> QED
            BY <1>1, <1>3, <1>5, <2>1, <3>2, <5>2 DEF Lower
      <4> QED
          BY <1>1, <3>2, <4>1 DEF QueryInv
    <3> QED
        BY <1>2, <1>3, <3>1, <3>2
  <2>11. RowsInv'
    <3>1. Reached(Chunks - scan.left + 1)' = end + 1 - ScanLimit
          BY <2>5, <2>8, <2>9 DEF Reached
    <3>2. Stretch(end + 1, scan.top)' = Stretch(end + 1, top)
          BY <1>9, <2>5 DEF Stretch
    <3>3. end \in 1..top
          BY <1>7, <2>3
    <3>4. Higher(1, Reached(Chunks - scan.left + 1))' = lo
          BY <1>6, <3>1 DEF Higher
    <3> QED
        BY <1>7, <1>11, <1>3, <2>5, <2>7, <2>10, <3>2, <3>3, <3>4 DEF RowsInv
  <2> QED
      BY <1>1, <2>4, <2>5, <2>6, <2>11, ScanStep DEF ScanInv
<1> QED
    BY <1>3, <1>10, <1>11
\* one row: what has been looked at now begins at q
LEMMA ReadRowPaging ==
    ASSUME PagingInv, ReadRow
    PROVE  PagingInv'
<1>1. /\ PagingTypeOK /\ last \in Nat /\ scan \in Scans /\ scan.at = "rows" /\ AskInv
      /\ TopInv /\ RowsInv /\ scan.left >= 1 /\ Cardinality(scan.got) < scan.limit
      /\ UNCHANGED <<last, shown, tail, readerVars>>
      BY DEF PagingInv, PagingTypeOK, ReadRow, ScanInv, RowsInv
<1>2. ScanLimit \in Nat \ {0} /\ Chunks \in Nat \ {0}
      BY PageAssumption
<1>3. /\ scan.limit \in 1..ScanLimit /\ scan.left \in 1..Chunks /\ scan.top \in Nat
      /\ scan.before \in Nat /\ scan.top <= last
      BY <1>1, <1>2 DEF Scans, TopInv
<1>4. PICK n \in Nat : n = Chunks - scan.left /\ n < Chunks
      BY <1>2, <1>3
<1>5. PICK down \in Nat : down = (n + 1) * ScanLimit /\ down <= Chunks * ScanLimit
      BY <1>4, ChunkSizes
<1>6. PICK q \in 1..scan.top :
          /\ Higher(1, Reached(Chunks - scan.left + 1)) <= q
          /\ scan.rows = Higher(1, Reached(Chunks - scan.left + 1))..q
          /\ scan.got = Stretch(q + 1, scan.top)
      BY <1>1 DEF RowsInv
<1>7. PICK lo \in Nat : lo = Higher(1, scan.top + 1 - down)
  <2>1. Higher(1, scan.top + 1 - down) \in Nat
        BY <1>3, <1>5 DEF Higher
  <2> QED
      BY <2>1
<1>8. lo <= q /\ lo >= 1 /\ scan.rows = lo..q /\ q \in Nat /\ q <= last
  <2>1. Reached(Chunks - scan.left + 1) = scan.top + 1 - down
        BY <1>4, <1>5 DEF Reached
  <2>2. lo >= 1
        BY <1>3, <1>5, <1>7 DEF Higher
  <2> QED
      BY <1>1, <1>3, <1>6, <1>7, <2>1, <2>2
<1>9. PICK got \in SUBSET (1..last) : got = Stretch(q, scan.top)
      BY <1>1 DEF Stretch, PagingTypeOK
<1>10. /\ got = IF q \in shown THEN scan.got \cup {q} ELSE scan.got
       /\ Cardinality(got) \in Nat /\ Cardinality(got) <= scan.limit
       /\ Cardinality(got) = scan.limit => q \in shown
  <2>1. /\ got = IF q \in shown THEN scan.got \cup {q} ELSE scan.got
        /\ Cardinality(got) <= Cardinality(scan.got) + 1
        /\ q \notin shown => Cardinality(got) = Cardinality(scan.got)
    <3>1. q \in Nat /\ q <= scan.top
          BY <1>3, <1>6
    <3> QED
        BY <1>1, <1>3, <1>6, <1>9, <3>1, StretchNext
  <2>2. Cardinality(got) \in Nat /\ Cardinality(scan.got) \in Nat
    <3>1. q + 1 \in Nat
          BY <1>8
    <3> QED
        BY <1>1, <1>3, <1>6, <1>8, <1>9, <3>1, StretchFinite
  <2> QED
      BY <1>1, <1>3, <2>1, <2>2
<1>11. Budget = Higher(0, scan.top - Chunks * ScanLimit) /\ Budget \in Nat /\ Budget <= q - 1
  <2>1. PICK all \in Nat : all = Chunks * ScanLimit /\ down <= all
        BY <1>4, <1>5, ChunkSizes
  <2>2. Budget = Higher(0, scan.top - all)
        BY <2>1 DEF Budget
  <2> QED
      BY <1>3, <1>7, <1>8, <2>1, <2>2 DEF Higher
\* the step is of this row
<1>12. /\ Full(got) => Page(got, Higher(0, q - 1))
       /\ ~Full(got) /\ lo = q /\ q <= 1 => Page(got, 0)
       /\ ~Full(got) /\ lo = q /\ q > 1 =>
              scan' = [scan EXCEPT !.at = "query", !.rows = {}, !.got = got, !.smallest = q,
                                   !.below = q, !.left = @ - 1]
       /\ ~Full(got) /\ lo < q =>
              scan' = [scan EXCEPT !.rows = lo..(q - 1), !.got = got, !.smallest = q]
  <2>1. PICK r \in scan.rows :
            /\ \A s \in scan.rows : s <= r
            /\ LET new == IF r \in shown THEN scan.got \cup {r} ELSE scan.got
                   rows == scan.rows \ {r}
               IN CASE Full(new) -> Page(new, Higher(0, r - 1))
                    [] ~Full(new) /\ rows = {} /\ r <= 1 -> Page(new, 0)
                    [] ~Full(new) /\ rows = {} /\ r > 1 ->
                          scan' = [scan EXCEPT !.at = "query", !.rows = {}, !.got = new, !.smallest = r,
                                               !.below = r, !.left = @ - 1]
                    [] ~Full(new) /\ rows # {} ->
                          scan' = [scan EXCEPT !.rows = rows, !.got = new, !.smallest = r]
        BY DEF ReadRow
  <2>2. r = q
        BY <1>8, <2>1
  <2>3. got = IF r \in shown THEN scan.got \cup {r} ELSE scan.got
        BY <1>10, <2>2
  <2>4. lo..q \ {q} = lo..(q - 1) /\ (lo = q <=> lo..(q - 1) = {})
        BY <1>8
  <2>5. CASE Full(got)
        BY <2>1, <2>2, <2>3, <2>5
  <2>6. CASE ~Full(got) /\ lo = q /\ q <= 1
    <3>1. scan.rows \ {r} = {} /\ r <= 1 /\ ~(r > 1) /\ ~(scan.rows \ {r} # {})
          BY <1>8, <2>2, <2>4, <2>6
    <3>2. Page(got, 0)
          BY <2>1, <2>3, <2>6, <3>1
    <3> QED
        BY <1>8, <2>6, <3>2
  <2>7. CASE ~Full(got) /\ lo = q /\ q > 1
    <3>1. scan.rows \ {r} = {} /\ r > 1 /\ ~(r <= 1)
          BY <1>8, <2>2, <2>4, <2>7
    <3>2. scan' = [scan EXCEPT !.at = "query", !.rows = {}, !.got = got, !.smallest = q,
                               !.below = q, !.left = @ - 1]
          BY <2>1, <2>2, <2>3, <2>7, <3>1
    <3> QED
        BY <1>8, <2>7, <3>2
  <2>8. CASE ~Full(got) /\ lo < q
    <3>1. scan.rows \ {r} = lo..(q - 1) /\ lo..(q - 1) # {} /\ lo # q
      <4>1. lo # q /\ lo..(q - 1) # {}
            BY <1>8, <2>4, <2>8
      <4>2. scan.rows = lo..q /\ r = q
            BY <1>8, <2>2
      <4> QED
          BY <2>4, <4>1, <4>2
    <3>2. scan' = [scan EXCEPT !.rows = lo..(q - 1), !.got = got, !.smallest = q]
          BY <2>1, <2>2, <2>3, <2>8, <3>1
    <3> QED
        BY <1>8, <2>8, <3>1, <3>2
  <2> QED
      BY <1>8, <2>5, <2>6, <2>7, <2>8
\* the pages it ends in
<1>13. ASSUME NEW after \in Nat, Page(got, after), after <= scan.top,
              got = Stretch(after + 1, scan.top), Budget <= after,
              \/ after < scan.top /\ after + 1 \in shown /\ Cardinality(got) = scan.limit
              \/ after = Budget /\ Cardinality(got) < scan.limit
       PROVE  PagingInv'
  <2>1. scan' = [scan EXCEPT !.at = "page", !.got = got, !.after = after, !.rows = {}]
        BY <1>13 DEF Page
  <2>2. scan' \in Scans
        BY <1>1, <1>13, <2>1 DEF Scans, Asked
  <2>3. /\ scan'.at = "page" /\ scan'.for = scan.for /\ scan'.cursor = scan.cursor
        /\ scan'.before = scan.before /\ scan'.limit = scan.limit
        /\ scan'.got = got /\ scan'.top = scan.top /\ scan'.after = after
        BY <1>1, <2>1 DEF Scans
  <2>4. AskInv' /\ TopInv' /\ Budget' = Budget
        BY <1>1, <2>3 DEF AskInv, TopInv, Budget, Asked, readerVars
  <2>5. Stretch(scan.after + 1, scan.top)' = Stretch(after + 1, scan.top)
        BY <1>1, <2>3 DEF Stretch
  <2>6. PageInv'
        BY <1>1, <1>3, <1>11, <1>13, <2>3, <2>4, <2>5 DEF PageInv
  <2> QED
      BY <1>1, <2>2, <2>3, <2>4, <2>6, ScanStep DEF ScanInv
<1>14. CASE Full(got)
  <2>1. Higher(0, q - 1) = q - 1 /\ q - 1 \in Nat /\ (q - 1) + 1 = q
        BY <1>8 DEF Higher
  <2>2. Cardinality(got) = scan.limit /\ q \in shown
        BY <1>10, <1>14 DEF Full
  <2>3. q - 1 < scan.top
        BY <1>3, <1>6
  <2> QED
      BY <1>3, <1>8, <1>9, <1>11, <1>12, <1>13, <1>14, <2>1, <2>2, <2>3
<1>15. ~Full(got) => Cardinality(got) < scan.limit
       BY <1>3, <1>10 DEF Full
<1>16. CASE ~Full(got) /\ lo = q /\ q <= 1
  <2>1. q = 1 /\ Budget = 0
        BY <1>8, <1>11, <1>16
  <2>2. Page(got, 0) /\ got = Stretch(0 + 1, scan.top)
        BY <1>9, <1>12, <1>16, <2>1
  <2> QED
      BY <1>3, <1>13, <1>15, <1>16, <2>1, <2>2
<1>17. CASE ~Full(got) /\ lo = q /\ q > 1
  <2>1. scan' = [scan EXCEPT !.at = "query", !.rows = {}, !.got = got, !.smallest = q,
                             !.below = q, !.left = @ - 1]
        BY <1>12, <1>17
  <2>2. scan.left - 1 \in 0..Chunks /\ scan.left - 1 < Chunks /\ scan.left - 1 # Chunks
        BY <1>2, <1>3
  <2>3. scan' \in Scans
    <3>1. "query" \in {"idle"} \cup Asked
          BY DEF Asked
    <3> QED
        BY <1>1, <1>8, <2>1, <2>2, <3>1 DEF Scans
  <2>4. /\ scan'.at = "query" /\ scan'.for = scan.for /\ scan'.cursor = scan.cursor
        /\ scan'.before = scan.before /\ scan'.limit = scan.limit
        /\ scan'.got = got /\ scan'.top = scan.top /\ scan'.left = scan.left - 1
        /\ scan'.below = q /\ scan'.smallest = q
        BY <1>1, <2>1 DEF Scans
  <2>5. AskInv' /\ TopInv'
        BY <1>1, <2>4 DEF AskInv, TopInv, Asked, readerVars
  <2>6. q = scan.top + 1 - down
        BY <1>3, <1>5, <1>7, <1>17 DEF Higher
  <2>7. Reached(Chunks - scan.left)' = q
    <3>1. Chunks - (scan.left - 1) = n + 1
          BY <1>2, <1>3, <1>4
    <3> QED
        BY <1>5, <2>4, <2>6, <3>1 DEF Reached
  <2>8. Stretch(scan.below, scan.top)' = got
        BY <1>1, <1>9, <2>4 DEF Stretch
  <2>9. scan.before > 1 /\ last >= 1
        BY <1>1, <1>3, <1>8, <1>6, <1>17 DEF TopInv
  <2>10. scan.for # "other" => scan.cursor = scan.before - 1
         BY <1>1 DEF TopInv
  <2>11. QueryInv'
         BY <1>1, <1>8, <1>15, <1>17, <2>2, <2>4, <2>5, <2>7, <2>8, <2>9, <2>10 DEF QueryInv
  <2> QED
      BY <1>1, <2>3, <2>4, <2>5, <2>11, ScanStep DEF ScanInv
<1>18. CASE ~Full(got) /\ lo < q
  <2>1. scan' = [scan EXCEPT !.rows = lo..(q - 1), !.got = got, !.smallest = q]
        BY <1>12, <1>18
  <2>2. lo..(q - 1) \subseteq 1..last
        BY <1>1, <1>8
  <2>3. scan' \in Scans
        BY <1>1, <1>8, <2>1, <2>2 DEF Scans
  <2>4. /\ scan'.at = "rows" /\ scan'.for = scan.for /\ scan'.cursor = scan.cursor
        /\ scan'.before = scan.before /\ scan'.limit = scan.limit
        /\ scan'.got = got /\ scan'.top = scan.top /\ scan'.left = scan.left
        /\ scan'.rows = lo..(q - 1)
        BY <1>1, <2>1 DEF Scans
  <2>5. AskInv' /\ TopInv'
        BY <1>1, <2>4 DEF AskInv, TopInv, Asked, readerVars
  <2>6. Higher(1, Reached(Chunks - scan.left + 1))' = lo
        BY <1>4, <1>5, <1>7, <2>4 DEF Reached, Higher
  <2>7. Stretch((q - 1) + 1, scan.top)' = got
        BY <1>1, <1>8, <1>9, <2>4 DEF Stretch
  <2>8. q - 1 \in 1..scan.top /\ lo <= q - 1
        BY <1>3, <1>6, <1>8, <1>18
  <2>9. RowsInv'
        BY <1>1, <1>15, <1>18, <2>4, <2>5, <2>6, <2>7, <2>8 DEF RowsInv
  <2> QED
      BY <1>1, <2>3, <2>4, <2>5, <2>9, ScanStep DEF ScanInv
<1> QED
    BY <1>8, <1>14, <1>16, <1>17, <1>18

LEMMA LosePaging ==
    ASSUME PagingInv, LosePage
    PROVE  PagingInv'
<1>1. scan' \in Scans /\ scan' = NoScan /\ UNCHANGED <<last, shown, tail, readerVars>>
      BY NoScanType DEF LosePage
<1>2. ScanInv'
      BY <1>1 DEF ScanInv, AskInv, NoScan, Asked
<1> QED
    BY <1>1, <1>2, ScanStep
-----------------------------------------------------------------------------
(* The reader *)

\* the reader's pages join what it has without a gap or an overlap
LEMMA TakePagePaging ==
    ASSUME PagingInv, TakePage
    PROVE  PagingInv'
<1>1. /\ PagingTypeOK /\ last \in Nat /\ shown \subseteq 1..last
      /\ scan \in Scans /\ scan.at = "page" /\ AskInv /\ TopInv /\ PageInv
      /\ scan' = NoScan /\ UNCHANGED <<last, shown, tail>>
      BY DEF PagingInv, PagingTypeOK, TakePage, ScanInv, PageInv
<1>2. /\ scan.before \in Nat /\ scan.top \in Nat /\ scan.after \in Nat /\ scan.cursor \in Nat
      /\ floor \in Nat /\ head \in Nat /\ scan.after <= scan.top /\ scan.top <= last
      BY <1>1 DEF Scans, PagingTypeOK, PageInv, TopInv
<1>3. scan.got = shown \cap (scan.after + 1)..scan.top
      BY <1>1 DEF PageInv, Stretch
<1>4. scan' \in Scans' /\ ScanInv'
  <2>1. Scans' = Scans
        BY <1>1 DEF Scans
  <2> QED
      BY <1>1, <2>1, NoScanType DEF ScanInv, AskInv, NoScan, Asked
<1>5. CASE scan.for = "resume"
  <2>1. /\ reading' = TRUE /\ floor' = scan.after /\ head' = scan.top
        /\ merged' = shown \cap (scan.after + 1)..scan.top
        BY <1>1, <1>3, <1>5 DEF TakePage, TopInv
  <2>2. tail = {}
        BY <1>1, <1>5 DEF AskInv, PagingInv, ReaderInv
  <2>3. ReaderInv'
        BY <1>1, <1>2, <2>1, <2>2 DEF ReaderInv, ReaderIsWhole
  <2>4. PagingTypeOK'
        BY <1>1, <1>2, <1>4, <2>1 DEF PagingTypeOK
  <2> QED
      BY <1>4, <2>3, <2>4 DEF PagingInv
<1>6. CASE scan.for = "older"
  <2>1. /\ reading /\ scan.top = floor /\ scan.cursor = floor
        /\ floor <= head /\ head <= last /\ merged = shown \cap (floor + 1)..head
        BY <1>1, <1>2, <1>6 DEF AskInv, TopInv, PagingInv, ReaderInv, ReaderIsWhole
  <2>2. /\ reading' = reading /\ floor' = scan.after /\ head' = head
        /\ merged' = merged \cup scan.got
    <3>1. Lower(floor, scan.after) = scan.after
          BY <1>2, <2>1 DEF Lower
    <3>2. Higher(head, scan.cursor) = head
          BY <1>2, <2>1 DEF Higher
    <3> QED
        BY <1>6, <3>1, <3>2 DEF TakePage
  <2>3. merged' = shown \cap (scan.after + 1)..head
        BY <1>1, <1>2, <1>3, <2>1, <2>2
  <2>4. ReaderInv'
        BY <1>1, <1>2, <2>1, <2>2, <2>3 DEF PagingInv, ReaderInv, ReaderIsWhole, Stretch
  <2>5. PagingTypeOK'
        BY <1>1, <1>2, <1>4, <2>1, <2>2, <2>3 DEF PagingTypeOK
  <2> QED
      BY <1>4, <2>4, <2>5 DEF PagingInv
<1>7. CASE UNCHANGED readerVars
  <2>1. PagingTypeOK'
        BY <1>1, <1>4, <1>7 DEF PagingTypeOK, readerVars
  <2>2. ReaderInv'
        BY <1>1, <1>7 DEF PagingInv, ReaderInv, ReaderIsWhole, Stretch, readerVars
  <2> QED
      BY <1>4, <2>1, <2>2 DEF PagingInv
<1> QED
    BY <1>5, <1>6, <1>7 DEF TakePage

\* the scan is somebody else's
LEMMA TailStep ==
    ASSUME PagingInv, UNCHANGED <<last, shown, scan, reading, floor>>,
           PagingTypeOK', ReaderInv'
    PROVE  PagingInv'
<1>1. ScanInv'
      BY DEF PagingInv, ScanInv, AskInv, QueryInv, RowsInv, PageInv, TopInv, Reached, Stretch, Budget
<1> QED
    BY <1>1 DEF PagingInv

LEMMA PollPaging ==
    ASSUME PagingInv, NEW limit \in Limits, Poll(limit)
    PROVE  PagingInv'
<1>1. /\ PagingTypeOK /\ last \in Nat /\ shown \subseteq 1..last /\ head \in Nat /\ head <= last
      /\ reading /\ UNCHANGED <<last, shown, scan, reading, floor, head, merged>>
      BY DEF PagingInv, PagingTypeOK, ReaderInv, Poll, readerVars
<1>2. PageLimit(limit) \in Nat \ {0}
      BY PageAssumption, PageLimitPositive DEF Limits
<1>3. PICK end \in Nat : end = IF head < last THEN Lower(head + PageLimit(limit), last) ELSE head
      BY <1>1, <1>2 DEF Lower
<1>4. end \in head..last
      BY <1>1, <1>2, <1>3 DEF Lower
<1>5. tail' = {[after |-> head, cursor |-> end, events |-> shown \cap (head + 1)..end]}
  <2>1. PageAfter(last, shown, head, limit) =
            [after |-> head, cursor |-> end, events |-> shown \cap (head + 1)..end]
        BY <1>3 DEF PageAfter
  <2> QED
      BY <2>1 DEF Poll
<1>6. PagingTypeOK'
  <2>1. shown \cap (head + 1)..end \in SUBSET (1..last)
        BY <1>1
  <2> QED
      BY <1>1, <1>5, <2>1 DEF PagingTypeOK, Scans
<1>7. ReaderInv'
      BY <1>1, <1>4, <1>5 DEF PagingInv, ReaderInv, ReaderIsWhole, Stretch
<1> QED
    BY <1>1, <1>6, <1>7, TailStep

LEMMA TailPaging ==
    ASSUME PagingInv, TakeTail \/ LoseTail
    PROVE  PagingInv'
<1>1. /\ PagingTypeOK /\ last \in Nat /\ shown \subseteq 1..last /\ head \in Nat /\ floor \in Nat
      /\ tail' = {} /\ UNCHANGED <<last, shown, scan, reading, floor>>
      BY DEF PagingInv, PagingTypeOK, TakeTail, LoseTail, readerVars
<1>2. CASE UNCHANGED <<head, merged>>
  <2>1. PagingTypeOK'
        BY <1>1, <1>2 DEF PagingTypeOK, Scans
  <2>2. ReaderInv'
        BY <1>1, <1>2 DEF PagingInv, ReaderInv, ReaderIsWhole
  <2> QED
      BY <1>1, <2>1, <2>2, TailStep
<1>3. CASE TakeTail
  <2>1. PICK p \in tail : head' = Higher(head, p.cursor) /\ merged' = merged \cup p.events
        BY <1>3 DEF TakeTail
  <2>2. /\ reading /\ p.cursor \in head..last /\ p.events = shown \cap (head + 1)..p.cursor
        /\ floor <= head /\ head <= last /\ merged = shown \cap (floor + 1)..head
        BY DEF PagingInv, ReaderInv, ReaderIsWhole, Stretch
  <2>3. head' = p.cursor /\ p.cursor \in Nat
        BY <1>1, <2>1, <2>2 DEF Higher
  <2>4. merged' = shown \cap (floor + 1)..p.cursor
        BY <1>1, <2>1, <2>2, <2>3
  <2>5. PagingTypeOK'
        BY <1>1, <2>3, <2>4 DEF PagingTypeOK, Scans
  <2>6. ReaderInv'
        BY <1>1, <2>2, <2>3, <2>4 DEF ReaderInv, ReaderIsWhole
  <2> QED
      BY <1>1, <2>5, <2>6, TailStep
<1> QED
    BY <1>2, <1>3 DEF LoseTail, readerVars

LEMMA PagingStepInv == PagingInv /\ [PagingNext]_pagingVars => PagingInv'
<1> SUFFICES ASSUME PagingInv, [PagingNext]_pagingVars
             PROVE  PagingInv'
    OBVIOUS
<1>1. ASSUME NEW limit \in Limits, NEW before \in Positions,
             AskRecent(limit) \/ AskOlder(limit) \/ AskBefore("other", before, limit)
      PROVE  PagingInv'
      BY <1>1, AskPaging
<1>2. ASSUME NEW limit \in Limits, Poll(limit)
      PROVE  PagingInv'
      BY <1>2, PollPaging
<1>3. CASE UNCHANGED pagingVars
  <2>1. UNCHANGED <<last, shown, tail, readerVars, scan>>
        BY <1>3 DEF pagingVars
  <2>2. scan' \in Scans
        BY <2>1 DEF PagingInv, PagingTypeOK
  <2>3. ScanInv'
        BY <2>1 DEF PagingInv, ScanInv, AskInv, QueryInv, RowsInv, PageInv, TopInv, Reached,
                    Stretch, Budget, readerVars
  <2> QED
      BY <2>1, <2>2, <2>3, ScanStep
<1>4. \E before \in Positions : TRUE
      BY PagingAssumption DEF Positions
<1> QED
    BY <1>1, <1>2, <1>3, <1>4, AppendPaging, RuntimePaging, QueryPaging, ReadRowPaging,
       TakePagePaging, LosePaging, TailPaging
    DEF PagingNext

LEMMA PagingInvariant == PagingSpec => []PagingInv
<1> QED
    BY PagingInitInv, PagingStepInv, PTL DEF PagingSpec

\* What is asked for, read, returned and held stays what the code takes it for:
\* no position leaves the log, no page is longer than its limit allows.
THEOREM PagingTypes == PagingSpec => []PagingTypeOK
<1>1. PagingInv => PagingTypeOK
      BY DEF PagingInv
<1> QED
    BY <1>1, PagingInvariant, PTL

LEMMA InvIsWhole == PagingInv => PagesAreWhole
<1> SUFFICES ASSUME PagingInv
             PROVE  PagesAreWhole
    OBVIOUS
<1>1. PagingTypeOK /\ last \in Nat /\ scan \in Scans /\ ReaderIsWhole
      BY DEF PagingInv, PagingTypeOK, ReaderInv
<1>2. ScanIsThePage
  <2>1. scan.at = "page" => PageInv
        BY DEF PagingInv, ScanInv
  <2> QED
      BY <1>1, <2>1, PageIsUnique DEF ScanIsThePage
<1>3. ASSUME scan.at = "page", scan.for = "older"
      PROVE  scan.got \cap merged = {}
  <2>1. /\ scan.top = scan.before - 1 /\ scan.before = floor + 1 /\ reading
        /\ scan.got = shown \cap (scan.after + 1)..scan.top
        BY <1>3 DEF PagingInv, ScanInv, PageInv, TopInv, AskInv, Stretch
  <2>2. merged = shown \cap (floor + 1)..head /\ floor \in Nat /\ scan.top = floor
        BY <1>1, <2>1 DEF ReaderIsWhole, PagingTypeOK
  <2> QED
      BY <2>1, <2>2
<1>4. ASSUME NEW p \in tail
      PROVE  p.events \cap merged = {}
  <2>1. p.events = shown \cap (head + 1)..p.cursor /\ reading
        BY DEF PagingInv, ReaderInv, Stretch
  <2>2. merged = shown \cap (floor + 1)..head /\ head \in Nat
        BY <1>1, <2>1 DEF ReaderIsWhole, PagingTypeOK
  <2> QED
      BY <2>1, <2>2
<1> QED
    BY <1>1, <1>2, <1>3, <1>4 DEF PagesAreWhole, NothingTwice

\* Whatever the limits, the size of a query and the budget of a page, and though
\* the log grows between a scan's queries: the scan returns the page EventPages
\* defines, and a reader has every event between its floor and its cursor once.
THEOREM PagesStayWhole == PagingSpec => []PagesAreWhole
    BY PagingInvariant, InvIsWhole, PTL
=============================================================================
