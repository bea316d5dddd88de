---------------------------- MODULE StreamProofs ----------------------------
(***************************************************************************)
(* Whatever the limits and however the answers are ordered: types, what    *)
(* the stream never takes back, and that the stream of one Resume has no   *)
(* hole.                                                                   *)
(***************************************************************************)
EXTENDS SessionStream, TLAPS

LEMMA PageLimitPositive ==
    ASSUME NEW limit \in Nat
    PROVE  PageLimit(limit) \in Nat \ {0}
BY PageAssumption DEF PageLimit, Higher, Lower

\* the pages the server serves
LEMMA AfterSound ==
    ASSUME TypeOK, NEW c \in 0..last, NEW limit \in Nat
    PROVE  /\ Sound(PageAfter(last, shown, c, limit))
           /\ PageAfter(last, shown, c, limit).after = c
<1>1. PageLimit(limit) \in Nat \ {0} /\ last \in Nat /\ shown \subseteq 1..last
      BY PageLimitPositive DEF TypeOK
<1> QED
    BY <1>1 DEF Sound, Pages, PageAfter, Lower

LEMMA BeforeSound ==
    ASSUME TypeOK, NEW before \in 1..(last + 1), NEW limit \in Nat
    PROVE  /\ Sound(PageBefore(last, shown, before, limit))
           /\ PageBefore(last, shown, before, limit).cursor = before - 1
<1>1. last \in Nat /\ shown \subseteq 1..last
      BY DEF TypeOK
<1> DEFINE top == Higher(0, Lower(before - 1, last))
           budget == Higher(0, top - Chunks * ScanLimit)
           full   == {a \in budget..(top - 1) :
                         /\ a + 1 \in shown
                         /\ Cardinality(shown \cap (a + 1)..top) = PageLimit(limit)}
           after  == IF full = {} THEN budget ELSE CHOOSE a \in full : TRUE
<1>2. top = before - 1 /\ top \in 0..last
      BY <1>1 DEF Higher, Lower
<1>3. Chunks * ScanLimit \in Nat
      BY PageAssumption
<1>4. budget \in 0..top
      BY <1>2, <1>3 DEF Higher
<1>5. after \in 0..top
  <2>1. CASE full = {}
        BY <1>4, <2>1
  <2>2. CASE full # {}
    <3>1. (CHOOSE a \in full : TRUE) \in full
          BY <2>2
    <3>2. full \subseteq 0..top
          BY <1>2, <1>4
    <3> HIDE DEF full
    <3> QED
        BY <2>2, <3>1, <3>2
  <2> QED
      BY <2>1, <2>2
<1> DEFINE p == [after |-> after, cursor |-> top, events |-> shown \cap (after + 1)..top]
<1>6. PageBefore(last, shown, before, limit) = p
      BY DEF PageBefore
<1> HIDE DEF top, after
<1>7. Sound(p) /\ p.cursor = before - 1
      BY <1>1, <1>2, <1>5 DEF Sound, Pages
<1> QED
    BY <1>6, <1>7

\* a page once read stays what it was: rows are only added behind it
LEMMA SoundKept ==
    ASSUME TypeOK, NEW p, Sound(p), AppendRow \/ UNCHANGED <<last, shown>>
    PROVE  Sound(p)'
<1>1. CASE AppendRow
  <2>1. last \in Nat /\ last' = last + 1 /\ shown \subseteq shown' /\ shown' \subseteq shown \cup {last + 1}
        BY <1>1 DEF AppendRow, TypeOK
  <2>2. p.after \in Nat /\ p.cursor \in 0..last
        BY <2>1 DEF Sound, Pages
  <2> QED
      BY <2>1, <2>2 DEF Sound
<1>2. CASE UNCHANGED <<last, shown>>
      BY <1>2 DEF Sound
<1> QED
    BY <1>1, <1>2
-----------------------------------------------------------------------------
(* The reducers *)

\* stream s holds nothing but what its stretch of the log has to show
Honest(s) ==
    /\ s \in Stream
    /\ s.floor <= s.cursor /\ s.cursor <= last
    /\ s.events \subseteq shown \cap (s.floor + 1)..s.cursor

\* stream t is s with something more
Grows(s, t) ==
    /\ s.events \subseteq t.events
    /\ s.cursor <= t.cursor
    /\ t.floor <= s.floor

LEMMA FromResumeHonest ==
    ASSUME TypeOK, NEW p, Sound(p)
    PROVE  Honest(FromResume(p)) /\ FromResume(p) # None
<1>1. Honest(FromResume(p))
      BY DEF TypeOK, Sound, Pages, FromResume, Honest, Stream
<1> QED
    BY <1>1, StreamAssumption DEF Honest

LEMMA MergeHonest ==
    ASSUME TypeOK, NEW s, NEW t, Honest(s), Honest(t), s # None, t # None
    PROVE  Honest(Merge(s, t)) /\ Grows(s, Merge(s, t))
<1>1. last \in Nat
      BY DEF TypeOK
<1>2. s.cursor \in Nat /\ s.floor \in Nat /\ t.cursor \in Nat /\ t.floor \in Nat
      BY DEF Honest, Stream
<1> QED
    BY <1>1, <1>2 DEF Merge, Honest, Grows, Stream, Higher, Lower

LEMMA ApplyPageHonest ==
    ASSUME TypeOK, NEW s, NEW p, Honest(s), Sound(p), s.floor <= p.after
    PROVE  Honest(ApplyPage(s, p)) /\ Grows(s, ApplyPage(s, p))
<1>1. last \in Nat /\ s.cursor \in Nat /\ s.floor \in Nat /\ p.cursor \in Nat /\ p.after \in Nat
      BY DEF TypeOK, Honest, Stream, Sound, Pages
<1>2. CASE p.cursor < s.cursor
      BY <1>1, <1>2 DEF ApplyPage, Honest, Grows
<1>3. CASE ~(p.cursor < s.cursor)
  <2>1. ApplyPage(s, p) = [cursor |-> p.cursor, floor |-> s.floor, events |-> s.events \cup p.events]
    <3>1. Higher(s.cursor, p.cursor) = p.cursor /\ s \in Stream
          BY <1>1, <1>3 DEF Higher, Honest
    <3>2. ApplyPage(s, p) = [s EXCEPT !.cursor = p.cursor, !.events = s.events \cup p.events]
          BY <1>3, <3>1 DEF ApplyPage
    <3> QED
        BY <3>1, <3>2 DEF Stream
  <2>2. p.events \subseteq shown \cap (s.floor + 1)..p.cursor
        BY <1>1 DEF Sound
  <2>3. s.events \subseteq shown \cap (s.floor + 1)..p.cursor
        BY <1>1, <1>3 DEF Honest
  <2>4. s.events \in SUBSET Nat /\ p.events \in SUBSET Nat /\ s.floor <= p.cursor /\ p.cursor <= last
        BY <1>1 DEF Honest, Stream, Sound, Pages
  <2> QED
      BY <1>1, <1>3, <2>1, <2>2, <2>3, <2>4 DEF Honest, Grows, Stream
<1> QED
    BY <1>2, <1>3

LEMMA ApplyHistoryHonest ==
    ASSUME TypeOK, NEW s, NEW p, Honest(s), Sound(p)
    PROVE  Honest(ApplyHistory(s, p)) /\ Grows(s, ApplyHistory(s, p))
<1>1. last \in Nat
      BY DEF TypeOK
<1>2. s.cursor \in Nat /\ s.floor \in Nat /\ p.cursor \in Nat /\ p.after \in Nat
      BY DEF Honest, Stream, Sound, Pages
<1> QED
    BY <1>1, <1>2 DEF ApplyHistory, Honest, Grows, Sound, Stream, Pages, Higher, Lower
-----------------------------------------------------------------------------
(* Types *)

LEMMA InitTypeOK == Init => TypeOK
BY StreamAssumption
DEF Init, TypeOK, StreamTypeOK, PollTypeOK, ReloadTypeOK, OlderTypeOK, NoPoll, NoOlder

\* the parts of TypeOK only look at their own component and at the log
LEMMA PartsKept ==
    ASSUME TypeOK, AppendRow \/ UNCHANGED <<last, shown>>
    PROVE  /\ UNCHANGED stream => StreamTypeOK'
           /\ UNCHANGED <<stream, poll>> => PollTypeOK'
           /\ UNCHANGED <<reloads, generation>> => ReloadTypeOK'
           /\ UNCHANGED older => OlderTypeOK'
<1>1. /\ last \in Nat /\ last' \in Nat /\ last <= last' /\ shown \subseteq shown'
      /\ StreamTypeOK /\ PollTypeOK /\ ReloadTypeOK /\ OlderTypeOK
      BY DEF TypeOK, AppendRow
<1>2. UNCHANGED stream => StreamTypeOK'
      BY <1>1 DEF StreamTypeOK, Stream
<1>3. UNCHANGED <<stream, poll>> => PollTypeOK'
      BY <1>1, SoundKept DEF PollTypeOK, Pages
<1>4. UNCHANGED <<reloads, generation>> => ReloadTypeOK'
      BY <1>1, SoundKept DEF ReloadTypeOK, Pages
<1>5. UNCHANGED older => OlderTypeOK'
      BY <1>1, SoundKept DEF OlderTypeOK, Pages
<1> QED
    BY <1>2, <1>3, <1>4, <1>5

LEMMA StreamIsHonest ==
    ASSUME TypeOK, stream # None
    PROVE  Honest(stream)
BY DEF TypeOK, StreamTypeOK, Honest

\* a full Resume is applied: the stream may start, stop or grow
LEMMA ReloadApplyTypes ==
    ASSUME TypeOK, NEW g \in 1..MaxReloads, ReloadApply(g)
    PROVE  /\ TypeOK'
           /\ stream # None /\ stream' # None => Grows(stream, stream')
<1> DEFINE p == reloads[g].page
           merged == Merge(stream, FromResume(p))
<1>1. /\ last \in Nat /\ StreamTypeOK /\ PollTypeOK /\ ReloadTypeOK /\ OlderTypeOK
      BY DEF TypeOK
<1>2. ReloadTypeOK' /\ OlderTypeOK'
  <2>1. OlderTypeOK'
        BY PartsKept DEF ReloadApply
  <2>2. ReloadTypeOK'
        BY <1>1 DEF ReloadApply, ReloadTypeOK, Sound
  <2> QED
      BY <2>1, <2>2
<1>3. \/ stream' = stream
      \/ stream' = None
      \/ /\ p # None /\ stream' = merged
         /\ stream' # None /\ Honest(stream')
         /\ stream # None => Grows(stream, stream')
  <2>1. CASE p # None
    <3>1. Sound(p) /\ Honest(FromResume(p)) /\ FromResume(p) # None
          BY <1>1, <2>1, FromResumeHonest DEF ReloadTypeOK
    <3>2. Honest(merged) /\ (stream # None => Grows(stream, merged))
      <4>1. CASE stream = None
            BY <3>1, <4>1 DEF Merge
      <4>2. CASE stream # None
            BY <3>1, <4>2, MergeHonest, StreamIsHonest
      <4> QED
          BY <4>1, <4>2
    <3>3. merged # None
          BY <3>2, StreamAssumption DEF Honest
    <3> QED
        BY <2>1, <3>2, <3>3 DEF ReloadApply
  <2>2. CASE p = None
        BY <2>2 DEF ReloadApply, Merge
  <2> QED
      BY <2>1, <2>2
<1>4. poll' = PollWith(stream') /\ UNCHANGED <<last, shown, failures>>
      BY DEF ReloadApply
<1>5. StreamTypeOK'
      BY <1>1, <1>3, <1>4 DEF StreamTypeOK, Honest
<1>6. PollTypeOK'
  <2>1. CASE stream' = None
        BY <1>1, <1>4, <2>1 DEF PollTypeOK, PollWith, NoPoll
  <2>2. CASE stream' # None /\ stream = None
    <3>1. Honest(stream')
          BY <1>3, <2>2
    <3> QED
        BY <1>1, <1>4, <2>2, <3>1 DEF PollTypeOK, PollWith, PollFrom, Honest, Stream
  <2>3. CASE stream' # None /\ stream # None
    <3>1. /\ stream'.floor \in Nat /\ stream.floor \in Nat
          /\ stream'.cursor \in Nat /\ stream.cursor \in Nat
          BY <1>1, <1>5, <2>3 DEF StreamTypeOK, Stream
    <3>2. stream'.floor <= stream.floor /\ stream.cursor <= stream'.cursor
          BY <1>3, <2>3, <3>1 DEF Grows
    <3>3. poll' = poll
          BY <1>4, <2>3 DEF PollWith
    <3> QED
        BY <1>1, <1>4, <2>3, <3>1, <3>2, <3>3 DEF PollTypeOK, Sound
  <2> QED
      BY <2>1, <2>2, <2>3
<1>7. stream # None /\ stream' # None => Grows(stream, stream')
  <2> SUFFICES ASSUME stream # None, stream' = stream PROVE Grows(stream, stream')
      BY <1>3
  <2> QED
      BY <1>1 DEF Grows, StreamTypeOK, Stream
<1> QED
    BY <1>2, <1>4, <1>5, <1>6, <1>7 DEF TypeOK

LEMMA PollApplyTypes ==
    ASSUME TypeOK, PollApply
    PROVE  TypeOK' /\ Grows(stream, stream')
<1> DEFINE p == poll.page
<1>1. /\ last \in Nat /\ StreamTypeOK /\ PollTypeOK
      /\ poll.pc = "read" /\ stream # None /\ UNCHANGED <<last, shown, failures>>
      BY DEF TypeOK, PollApply, PollTypeOK
<1>2. /\ Sound(p) /\ p.after = poll.cursor
      /\ stream.floor <= poll.cursor /\ poll.cursor <= stream.cursor
      BY <1>1 DEF PollTypeOK
<1>3. Honest(ApplyPage(stream, p)) /\ Grows(stream, ApplyPage(stream, p))
      BY <1>1, <1>2, ApplyPageHonest, StreamIsHonest
<1>4. Honest(stream') /\ Grows(stream, stream') /\ stream' # None
      BY <1>3, StreamAssumption DEF PollApply, Honest
<1>5. /\ poll.cursor \in 0..last /\ p.cursor \in 0..last /\ poll.cursor <= p.cursor
      /\ stream.floor \in Nat /\ stream.cursor \in Nat
      /\ stream'.floor \in Nat /\ stream'.cursor \in Nat
      BY <1>1, <1>2, <1>4 DEF PollTypeOK, StreamTypeOK, Sound, Pages, Honest, Stream
<1>6. poll' = PollFrom(p.cursor)
      BY <1>5 DEF PollApply, Higher
<1>7. p.cursor <= stream'.cursor
  <2>1. CASE p.cursor < stream.cursor
        BY <1>4, <1>5, <2>1 DEF Grows
  <2>2. CASE ~(p.cursor < stream.cursor)
        BY <1>1, <1>5, <2>2 DEF PollApply, ApplyPage, Higher, StreamTypeOK, Stream
  <2> QED
      BY <2>1, <2>2
<1>8. PollTypeOK'
      BY <1>1, <1>2, <1>4, <1>5, <1>6, <1>7 DEF PollTypeOK, PollFrom, Grows
<1>9. StreamTypeOK'
      BY <1>1, <1>4 DEF StreamTypeOK, Honest
<1>10. ReloadTypeOK' /\ OlderTypeOK'
       BY PartsKept DEF PollApply
<1> QED
    BY <1>1, <1>4, <1>8, <1>9, <1>10 DEF TypeOK

LEMMA OlderApplyTypes ==
    ASSUME TypeOK, OlderApply
    PROVE  /\ TypeOK'
           /\ stream # None /\ stream' # None => Grows(stream, stream')
<1>1. /\ last \in Nat /\ StreamTypeOK /\ PollTypeOK /\ OlderTypeOK
      /\ Sound(older.page) /\ UNCHANGED <<last, shown, poll, failures>>
      BY DEF TypeOK, OlderApply, OlderTypeOK
<1>2. ReloadTypeOK' /\ OlderTypeOK'
  <2>1. OlderTypeOK'
        BY <1>1 DEF OlderApply, OlderTypeOK, NoOlder
  <2> QED
      BY <2>1, PartsKept DEF OlderApply
<1>3. CASE stream = None
  <2>1. UNCHANGED <<stream, poll>>
        BY <1>3 DEF OlderApply
  <2> QED
      BY <1>1, <1>2, <1>3, <2>1, PartsKept DEF TypeOK
<1>4. CASE stream # None
  <2>1. Honest(stream') /\ Grows(stream, stream')
        BY <1>1, <1>4, ApplyHistoryHonest, StreamIsHonest DEF OlderApply
  <2>2. StreamTypeOK' /\ stream' # None
        BY <1>1, <2>1, StreamAssumption DEF StreamTypeOK, Honest
  <2>3. /\ stream.floor \in Nat /\ stream.cursor \in Nat /\ poll.cursor \in Nat
        /\ stream'.floor \in Nat /\ stream'.cursor \in Nat
        BY <1>1, <1>4, <2>1 DEF StreamTypeOK, PollTypeOK, Honest, Stream
  <2>4. PollTypeOK'
        BY <1>1, <1>4, <2>1, <2>2, <2>3 DEF PollTypeOK, Grows, Sound
  <2> QED
      BY <1>1, <1>2, <2>1, <2>2, <2>4 DEF TypeOK
<1> QED
    BY <1>3, <1>4

\* requests asked, read and failed
LEMMA RequestTypes ==
    ASSUME TypeOK,
           \/ \E g \in 1..MaxReloads : ReloadRead(g) \/ ReloadFail(g)
           \/ Reload \/ PollRead \/ PollFail \/ PollFatal \/ AskOlder \/ OlderRead \/ OlderFail
    PROVE  TypeOK'
<1>1. /\ last \in Nat /\ shown \subseteq 1..last /\ last <= MaxEvents
      /\ StreamTypeOK /\ PollTypeOK /\ ReloadTypeOK /\ OlderTypeOK
      /\ failures \in 0..MaxFailures /\ MaxFailures \in Nat
      BY StreamAssumption DEF TypeOK
<1>2. None \notin Pages /\ UNCHANGED <<last, shown, stream>>
      BY StreamAssumption
      DEF Reload, ReloadRead, ReloadFail, PollRead, PollFail, PollFatal, AskOlder, OlderRead, OlderFail
<1>3. failures' \in 0..MaxFailures
      BY <1>1
      DEF Reload, ReloadRead, ReloadFail, PollRead, PollFail, PollFatal, AskOlder, OlderRead, OlderFail
<1>4. StreamTypeOK'
      BY <1>2, PartsKept
<1>5. PollTypeOK'
  <2>1. CASE PollRead
    <3>1. poll.cursor \in 0..last
          BY <1>1 DEF PollTypeOK
    <3>2. /\ Sound(PageAfter(last, shown, poll.cursor, PollLimit))
          /\ PageAfter(last, shown, poll.cursor, PollLimit).after = poll.cursor
          BY <3>1, AfterSound, StreamAssumption
    <3> QED
        BY <1>1, <1>2, <2>1, <3>2 DEF PollRead, PollTypeOK, Sound
  <2>2. CASE PollFail \/ PollFatal
        BY <1>1, <1>2, <2>2 DEF PollFail, PollFatal, PollFrom, PollTypeOK, Sound
  <2>3. CASE UNCHANGED poll
        BY <1>2, <2>3, PartsKept
  <2> QED
      BY <2>1, <2>2, <2>3
      DEF Reload, ReloadRead, ReloadFail, AskOlder, OlderRead, OlderFail
<1>6. ReloadTypeOK'
  <2>1. CASE Reload
    <3> DEFINE next == generation + 1
    <3>1. next \in 1..MaxReloads /\ generation \in Nat /\ generation' = next
          BY <1>1, <2>1, StreamAssumption DEF Reload, ReloadTypeOK
    <3>2. reloads' = [reloads EXCEPT ![next].pc = "asked"]
          BY <2>1 DEF Reload
    <3> HIDE DEF next
    <3>3. /\ reloads' \in [1..MaxReloads -> [pc: {"unused", "asked", "read", "done"},
                                             page: Pages \cup {None}]]
          /\ \A g \in 1..MaxReloads : reloads'[g].page = reloads[g].page
          /\ \A g \in 1..MaxReloads : g # next => reloads'[g].pc = reloads[g].pc
          BY <1>1, <3>1, <3>2 DEF ReloadTypeOK
    <3>4. \A g \in 1..MaxReloads : g > next => g > generation
          BY <3>1 DEF next
    <3> QED
        BY <1>1, <1>2, <3>1, <3>3, <3>4 DEF ReloadTypeOK, Sound
  <2>2. ASSUME NEW g \in 1..MaxReloads, ReloadRead(g)
        PROVE  ReloadTypeOK'
    <3>1. Sound(ResumePage)
          BY <1>1, BeforeSound, StreamAssumption DEF ResumePage
    <3>2. PICK p \in {ResumePage, None} :
              reloads' = [reloads EXCEPT ![g] = [pc |-> "read", page |-> p]]
          BY <2>2 DEF ReloadRead
    <3>3. p \in Pages \cup {None} /\ (p # None => Sound(p))
          BY <3>1 DEF Sound
    <3>4. g <= generation /\ generation' = generation
          BY <1>1, <2>2 DEF ReloadRead, ReloadTypeOK
    <3> QED
        BY <1>1, <1>2, <3>2, <3>3, <3>4 DEF ReloadTypeOK, Sound
  <2>3. ASSUME NEW g \in 1..MaxReloads, ReloadFail(g)
        PROVE  ReloadTypeOK'
        BY <1>1, <1>2, <2>3 DEF ReloadFail, ReloadTypeOK, Sound
  <2>4. CASE UNCHANGED <<reloads, generation>>
        BY <1>2, <2>4, PartsKept
  <2> QED
      BY <2>1, <2>2, <2>3, <2>4 DEF PollRead, PollFail, PollFatal, AskOlder, OlderRead, OlderFail
<1>7. OlderTypeOK'
  <2>1. CASE AskOlder
        BY <1>1, <1>2, <2>1 DEF AskOlder, OlderTypeOK, StreamTypeOK, Stream
  <2>2. CASE OlderRead
    <3>1. older.before \in 1..(last + 1)
          BY <1>1, <2>2 DEF OlderRead, OlderTypeOK
    <3>2. /\ Sound(PageBefore(last, shown, older.before, HistoryLimit))
          /\ PageBefore(last, shown, older.before, HistoryLimit).cursor = older.before - 1
          BY <3>1, BeforeSound, StreamAssumption
    <3> QED
        BY <1>1, <1>2, <2>2, <3>2 DEF OlderRead, OlderTypeOK, Sound
  <2>3. CASE OlderFail
        BY <1>1, <2>3 DEF OlderFail, NoOlder, OlderTypeOK
  <2>4. CASE UNCHANGED older
        BY <1>2, <2>4, PartsKept
  <2> QED
      BY <2>1, <2>2, <2>3, <2>4 DEF Reload, ReloadRead, ReloadFail, PollRead, PollFail, PollFatal
<1> QED
    BY <1>1, <1>2, <1>3, <1>4, <1>5, <1>6, <1>7 DEF TypeOK

LEMMA TypeStep == TypeOK /\ [Next]_vars => TypeOK'
<1> SUFFICES ASSUME TypeOK, [Next]_vars PROVE TypeOK'
    OBVIOUS
<1>1. CASE AppendRow
  <2>1. last' \in 0..MaxEvents /\ shown' \subseteq 1..last' /\ failures' \in 0..MaxFailures
        BY <1>1, StreamAssumption DEF AppendRow, TypeOK
  <2>2. UNCHANGED <<stream, poll, reloads, generation, older>>
        BY <1>1 DEF AppendRow
  <2> QED
      BY <1>1, <2>1, <2>2, PartsKept DEF TypeOK
<1>2. CASE UNCHANGED vars
  <2>1. UNCHANGED <<last, shown, stream, poll, reloads, generation, older, failures>>
        BY <1>2 DEF vars
  <2> QED
      BY <2>1, PartsKept DEF TypeOK
<1>3. ASSUME NEW g \in 1..MaxReloads, ReloadRead(g) \/ ReloadApply(g) \/ ReloadFail(g)
      PROVE  TypeOK'
      BY <1>3, ReloadApplyTypes, RequestTypes
<1> QED
    BY <1>1, <1>2, <1>3, PollApplyTypes, OlderApplyTypes, RequestTypes DEF Next

\* Types, and the honesty of the stream and of every page under way: none holds
\* anything the reader may not see or claims a stretch it does not cover.
THEOREM StreamTypes == Spec => []TypeOK
BY InitTypeOK, TypeStep, PTL DEF Spec
-----------------------------------------------------------------------------
(* What the stream takes back, and what it misses *)

\* all that touches the stream
LEMMA StreamWriters ==
    ASSUME [Next]_vars
    PROVE  \/ stream' = stream
           \/ \E g \in 1..MaxReloads : ReloadApply(g)
           \/ PollApply
           \/ OlderApply
BY DEF Next, vars, AppendRow, Reload, ReloadRead, ReloadFail, PollRead, PollFail, PollFatal,
       AskOlder, OlderRead, OlderFail

\* A late Resume or a late page takes nothing back of what is painted, whatever
\* its order (mergeResumeStream, applySessionEventPage, applySessionHistoryPage).
THEOREM NothingEverErased == Spec => NothingErased
<1> DEFINE Kept == stream # None /\ stream' # None => Grows(stream, stream')
<1>1. TypeOK /\ [Next]_vars => Kept
  <2> SUFFICES ASSUME TypeOK, [Next]_vars, stream # None, stream' # None
               PROVE  Grows(stream, stream')
      OBVIOUS
  <2>1. CASE stream' = stream
        BY <2>1 DEF TypeOK, StreamTypeOK, Stream, Grows
  <2> QED
      BY <2>1, StreamWriters, ReloadApplyTypes, PollApplyTypes, OlderApplyTypes
<1>2. TypeOK /\ [Next]_vars =>
          [stream # None /\ stream' # None =>
              /\ stream.events \subseteq stream'.events
              /\ stream.cursor <= stream'.cursor
              /\ stream'.floor <= stream.floor]_vars
      BY <1>1 DEF Grows
<1> QED
    BY <1>2, StreamTypes, PTL DEF Spec, NothingErased
-----------------------------------------------------------------------------
(* The stream of one Resume *)

\* all there is to see in the stretch stream s covers
Whole(s) == shown \cap (s.floor + 1)..s.cursor \subseteq s.events

\* Until a second Resume, the stream starts once, it is whole, and an older
\* page under way ends where the stream begins or within it.
OneResume ==
    generation <= 1 =>
        /\ stream # None => generation = 1 /\ reloads[1].pc = "done" /\ Whole(stream)
        /\ stream = None => older.pc = "idle"
        /\ stream # None /\ older.pc # "idle" =>
              stream.floor < older.before /\ older.before <= stream.cursor + 1

\* rows appended behind the stream and steps that leave it alone
LEMMA WholeKept ==
    ASSUME TypeOK, stream # None, Whole(stream), UNCHANGED stream,
           AppendRow \/ UNCHANGED <<last, shown>>
    PROVE  Whole(stream)'
<1>1. /\ last \in Nat /\ stream.cursor <= last /\ stream.cursor \in Nat /\ stream.floor \in Nat
      BY DEF TypeOK, StreamTypeOK, Stream
<1>2. shown' \subseteq shown \cup {last + 1}
      BY DEF AppendRow
<1> QED
    BY <1>1, <1>2 DEF Whole

LEMMA PollWhole ==
    ASSUME TypeOK, PollApply, Whole(stream)
    PROVE  Whole(stream)' /\ stream'.floor = stream.floor
<1> DEFINE p == poll.page
<1>1. /\ stream \in Stream /\ Sound(p) /\ p.after <= stream.cursor
      /\ UNCHANGED shown /\ stream' = ApplyPage(stream, p)
      BY DEF TypeOK, StreamTypeOK, PollTypeOK, PollApply
<1>2. stream.cursor \in Nat /\ stream.floor \in Nat /\ p.cursor \in Nat /\ p.after \in Nat
      BY <1>1 DEF Stream, Sound, Pages
<1>3. CASE p.cursor < stream.cursor
      BY <1>1, <1>3 DEF ApplyPage, Whole
<1>4. CASE ~(p.cursor < stream.cursor)
  <2>1. /\ stream'.cursor = p.cursor /\ stream'.floor = stream.floor
        /\ stream'.events = stream.events \cup p.events
        BY <1>1, <1>2, <1>4 DEF ApplyPage, Higher, Stream
  <2>2. ASSUME NEW q \in shown, q \in (stream.floor + 1)..p.cursor
        PROVE  q \in stream'.events
        BY <1>1, <1>2, <2>1, <2>2 DEF Sound, Whole
  <2> QED
      BY <1>1, <2>1, <2>2 DEF Whole
<1> QED
    BY <1>3, <1>4

LEMMA HistoryWhole ==
    ASSUME TypeOK, OlderApply, stream # None, Whole(stream),
           stream.floor < older.before, older.before <= stream.cursor + 1
    PROVE  Whole(stream)'
<1> DEFINE p == older.page
<1>1. /\ stream \in Stream /\ Sound(p) /\ p.cursor = older.before - 1 /\ older.before \in Int
      /\ UNCHANGED shown /\ stream' = ApplyHistory(stream, p)
      BY DEF TypeOK, StreamTypeOK, OlderTypeOK, OlderApply
<1>2. stream.cursor \in Nat /\ stream.floor \in Nat /\ p.cursor \in Nat /\ p.after \in Nat
      BY <1>1 DEF Stream, Sound, Pages
<1>3. /\ stream'.cursor = Higher(stream.cursor, p.cursor)
      /\ stream'.floor = Lower(stream.floor, p.after)
      /\ stream'.events = stream.events \cup p.events
      BY <1>1 DEF ApplyHistory
<1>4. ASSUME NEW q \in shown, q \in (stream'.floor + 1)..stream'.cursor
      PROVE  q \in stream'.events
  <2>1. stream.floor <= p.cursor /\ p.cursor <= stream.cursor
        BY <1>1, <1>2
  <2>2. stream'.cursor = stream.cursor
        BY <1>2, <1>3, <2>1 DEF Higher
  <2>3. q \in shown /\ (q \in (p.after + 1)..p.cursor \/ q \in (stream.floor + 1)..stream.cursor)
        BY <1>1, <1>2, <1>3, <1>4, <2>1, <2>2 DEF Lower
  <2> QED
      BY <1>1, <1>3, <2>3 DEF Sound, Whole
<1> QED
    BY <1>1, <1>4 DEF Whole

LEMMA OneResumeStep == TypeOK /\ OneResume /\ [Next]_vars => OneResume'
<1> SUFFICES ASSUME TypeOK, OneResume, [Next]_vars, generation' <= 1 PROVE OneResume'
    BY DEF OneResume
<1>1. /\ generation \in Nat /\ generation' \in Nat /\ generation <= generation'
      /\ reloads \in [1..MaxReloads -> [pc: {"unused", "asked", "read", "done"},
                                         page: Pages \cup {None}]]
      BY StreamAssumption
      DEF TypeOK, ReloadTypeOK, Next, vars, AppendRow, Reload, ReloadRead, ReloadApply, ReloadFail,
          PollRead, PollApply, PollFail, PollFatal, AskOlder, OlderRead, OlderApply, OlderFail
<1>2. generation <= 1
      BY <1>1
<1>3. ASSUME NEW g \in 1..MaxReloads, ReloadApply(g)
      PROVE  OneResume'
  <2>1. reloads[g].pc = "read" /\ ReloadTypeOK
        BY <1>3 DEF ReloadApply, TypeOK
  <2>2. g <= generation /\ generation' = generation
        BY <1>1, <1>3, <2>1 DEF ReloadTypeOK, ReloadApply
  <2>3. g = 1 /\ generation = 1
        BY <1>1, <1>2, <2>2
  <2>4. stream = None /\ older.pc = "idle" /\ older' = older
        BY <1>2, <1>3, <2>1, <2>3 DEF OneResume, ReloadApply
  <2>5. reloads'[1].pc = "done"
        BY <1>1, <1>3, <2>3 DEF ReloadApply
  <2>6. CASE reloads[g].page = None
        BY <1>3, <2>3, <2>4, <2>6 DEF ReloadApply, Merge, OneResume
  <2>7. CASE reloads[g].page # None
    <3> DEFINE p == reloads[g].page
    <3>1. Sound(p)
          BY <2>1, <2>7 DEF ReloadTypeOK
    <3>2. stream' = FromResume(p) /\ shown' = shown
          BY <1>3, <2>3, <2>4, <2>7 DEF ReloadApply, Merge
    <3>3. Whole(stream)'
          BY <3>1, <3>2 DEF Sound, FromResume, Whole
    <3> QED
        BY <2>2, <2>3, <2>4, <2>5, <3>3 DEF OneResume
  <2> QED
      BY <2>6, <2>7
<1>4. CASE PollApply
  <2>1. stream # None /\ UNCHANGED <<reloads, older, generation>>
        BY <1>4 DEF TypeOK, PollTypeOK, PollApply
  <2>2. Whole(stream)' /\ stream'.floor = stream.floor
        BY <1>2, <1>4, <2>1, PollWhole DEF OneResume
  <2>3. TypeOK' /\ stream.cursor <= stream'.cursor /\ poll'.pc = "asked"
        BY <1>4, PollApplyTypes DEF Grows, PollApply, PollFrom
  <2>4. stream' # None /\ stream'.cursor \in Nat
        BY <2>3 DEF TypeOK, StreamTypeOK, PollTypeOK, Stream
  <2>5. stream.cursor \in Nat /\ older.before \in Int
        BY <2>1 DEF TypeOK, StreamTypeOK, OlderTypeOK, Stream
  <2> QED
      BY <1>2, <2>1, <2>2, <2>3, <2>4, <2>5 DEF OneResume
<1>5. CASE OlderApply
  <2>1. /\ older.pc # "idle" /\ older'.pc = "idle" /\ UNCHANGED <<reloads, generation>>
        BY <1>5 DEF OlderApply, NoOlder
  <2>2. /\ stream # None /\ Whole(stream)
        /\ stream.floor < older.before /\ older.before <= stream.cursor + 1
        BY <1>2, <2>1 DEF OneResume
  <2> QED
      BY <1>2, <1>5, <2>1, <2>2, HistoryWhole DEF OneResume
<1>6. CASE AskOlder
  <2>1. /\ stream # None /\ older'.before = stream.floor + 1
        /\ stream.floor \in Nat /\ stream.cursor \in Nat /\ stream.floor <= stream.cursor
        /\ UNCHANGED <<shown, stream, reloads, generation>>
        BY <1>6 DEF AskOlder, TypeOK, StreamTypeOK, Stream
  <2> QED
      BY <1>2, <2>1 DEF OneResume, Whole
<1>7. CASE OlderRead \/ OlderFail
  <2>1. UNCHANGED <<shown, stream, reloads, generation>> /\ older.pc # "idle"
        BY <1>7 DEF OlderRead, OlderFail
  <2>2. older'.before = older.before \/ older'.pc = "idle"
    <3>1. older \in [pc: {"idle", "asked", "read"}, before: 0..(last + 1), page: Pages \cup {None}]
          BY DEF TypeOK, OlderTypeOK
    <3>2. CASE OlderRead
      <4>1. PICK p : older' = [older EXCEPT !.pc = "read", !.page = p]
            BY <3>2 DEF OlderRead
      <4> QED
          BY <3>1, <4>1
    <3>3. CASE OlderFail
          BY <3>3 DEF OlderFail, NoOlder
    <3> QED
        BY <1>7, <3>2, <3>3
  <2> QED
      BY <1>2, <2>1, <2>2 DEF OneResume, Whole
<1>8. CASE Reload
  <2>1. generation = 0 /\ stream = None /\ UNCHANGED <<stream, older>>
        BY <1>1, <1>2, <1>8 DEF Reload, OneResume
  <2> QED
      BY <1>2, <2>1 DEF OneResume
<1>9. ASSUME NEW g \in 1..MaxReloads, ReloadRead(g) \/ ReloadFail(g)
      PROVE  OneResume'
  <2>1. UNCHANGED <<shown, stream, older, generation>>
        BY <1>9 DEF ReloadRead, ReloadFail
  <2>2. reloads[1].pc = "done" => reloads'[1].pc = "done"
    <3>1. PICK r : reloads' = [reloads EXCEPT ![g] = r]
          BY <1>9 DEF ReloadRead, ReloadFail
    <3>2. reloads[g].pc # "done"
          BY <1>9 DEF ReloadRead, ReloadFail
    <3> QED
        BY <1>1, <3>1, <3>2
  <2> QED
      BY <1>2, <2>1, <2>2 DEF OneResume, Whole
<1>10. CASE PollRead \/ PollFail \/ PollFatal \/ UNCHANGED vars \/ AppendRow
  <2>1. /\ UNCHANGED <<stream, reloads, older, generation>>
        /\ AppendRow \/ UNCHANGED <<last, shown>>
        BY <1>10 DEF PollRead, PollFail, PollFatal, vars, AppendRow
  <2>2. stream # None /\ Whole(stream) => Whole(stream)'
        BY <2>1, WholeKept
  <2> QED
      BY <1>2, <2>1, <2>2 DEF OneResume
<1> QED
    BY <1>3, <1>4, <1>5, <1>6, <1>7, <1>8, <1>9, <1>10 DEF Next

\* The stream of one Resume has no hole: with the poll and any number of older
\* pages it covers its stretch of the log completely (eventStreamFromResume).
THEOREM StreamStaysWhole == Spec => []StreamWhole
<1>1. Init => OneResume
      BY DEF Init, OneResume, NoOlder
<1>2. OneResume => StreamWhole
      BY DEF OneResume, StreamWhole, Whole
<1> QED
    BY <1>1, <1>2, OneResumeStep, StreamTypes, PTL DEF Spec
=============================================================================
