--------------------------- MODULE SessionStream ---------------------------
(***************************************************************************)
(* The Session page of the web client (apps/web/src/features/rooms): how   *)
(* it puts one event stream together from full Resumes (reload), the long  *)
(* poll and older pages asked for by the reader, while all three are under *)
(* way at once.  One active Session and one reader; what the server sends  *)
(* is a page of EventPages read at some moment of the request.             *)
(***************************************************************************)
EXTENDS EventPages

CONSTANTS
    None,
    ResumeLimit, PollLimit, HistoryLimit,   \* RECENT_EVENT_WINDOW, and the limits asked for
    MaxEvents,                              \* bound on the log
    MaxReloads,                             \* bound on full Resumes
    MaxFailures                             \* bound on requests that fail

Stream == [cursor: Nat, floor: Nat, events: SUBSET Nat]
Pages == [after: Nat, cursor: Nat, events: SUBSET Nat]

ASSUME StreamAssumption ==
    /\ None \notin Stream \cup Pages
    /\ ResumeLimit \in Nat /\ PollLimit \in Nat /\ HistoryLimit \in Nat
    /\ MaxEvents \in Nat /\ MaxReloads \in Nat /\ MaxFailures \in Nat

VARIABLES
    last, shown,   \* the Session's log, as in EventPages
    stream,        \* eventStream: the cursor, the history's floor and the events, or None
    poll,          \* runSessionEventPoll: where it stands, its own cursor, its page
    reloads,       \* [1..MaxReloads -> a reload: where it stands, its page]
    generation,    \* reloadGeneration
    older,         \* loadOlderEvents: where it stands, the seq asked for, its page
    failures

vars == <<last, shown, stream, poll, reloads, generation, older, failures>>

NoPoll == [pc |-> "off", cursor |-> 0, page |-> None]
PollFrom(c) == [pc |-> "asked", cursor |-> c, page |-> None]
NoOlder == [pc |-> "idle", before |-> 0, page |-> None]

Init ==
    /\ last = 0 /\ shown = {}
    /\ stream = None
    /\ poll = NoPoll
    /\ reloads = [g \in 1..MaxReloads |-> [pc |-> "unused", page |-> None]]
    /\ generation = 0
    /\ older = NoOlder
    /\ failures = 0

AppendRow ==
    /\ last < MaxEvents
    /\ last' = last + 1
    /\ shown' \in {shown, shown \cup {last + 1}}
    /\ UNCHANGED <<stream, poll, reloads, generation, older, failures>>
-----------------------------------------------------------------------------
(* The stream's reducers, sessionEventStream.ts *)

\* mutant: a Resume counts as the whole history
FromWholeResume(page) == [cursor |-> page.cursor, floor |-> 0, events |-> page.events]

\* eventStreamFromResume
FromResume(page) == [cursor |-> page.cursor, floor |-> page.after, events |-> page.events]

\* mutant: the Resume replaces the stream
Replace(current, next) == next

\* mergeResumeStream
Merge(current, next) ==
    IF current = None \/ next = None THEN next
    ELSE [cursor |-> Higher(current.cursor, next.cursor),
          floor  |-> Lower(current.floor, next.floor),
          events |-> current.events \cup next.events]

\* mutant: the stream's cursor stays where it was
ApplyEvents(current, page) == [current EXCEPT !.events = @ \cup page.events]

\* applySessionEventPage: a page that ends below the stream's cursor is dropped
ApplyPage(current, page) ==
    IF page.cursor < current.cursor THEN current
    ELSE [current EXCEPT !.cursor = Higher(@, page.cursor), !.events = @ \cup page.events]

\* mutant: the floor moves to the seq asked for, not to the last row scanned
ApplyHistoryShort(current, page) ==
    [cursor |-> Higher(current.cursor, page.cursor),
     floor  |-> Lower(current.floor, IF page.events = {} THEN page.cursor ELSE page.after),
     events |-> current.events \cup page.events]

\* applySessionHistoryPage
ApplyHistory(current, page) ==
    [cursor |-> Higher(current.cursor, page.cursor),
     floor  |-> Lower(current.floor, page.after),
     events |-> current.events \cup page.events]
-----------------------------------------------------------------------------
(* reload: mount and every change of the Session's lifecycle *)

Reload ==
    /\ generation < MaxReloads
    /\ generation' = generation + 1
    /\ reloads' = [reloads EXCEPT ![generation + 1].pc = "asked"]
    /\ UNCHANGED <<last, shown, stream, poll, older, failures>>

\* SessionResumeService: the runtime's last seq, then list_before from there
ResumePage == PageBefore(last, shown, last + 1, ResumeLimit)

\* the Resume has a projection, or none if the caller holds no Seat just now
ReloadRead(g) ==
    /\ reloads[g].pc = "asked"
    /\ \E page \in {ResumePage, None} : reloads' = [reloads EXCEPT ![g] = [pc |-> "read", page |-> page]]
    /\ UNCHANGED <<last, shown, stream, poll, generation, older, failures>>

\* the effect on eventStreamReady: a poll starts with the stream and stops with it
PollWith(next) ==
    CASE next = None                     -> NoPoll
      [] next # None /\ stream = None    -> PollFrom(next.cursor)
      [] next # None /\ stream # None    -> poll

ReloadApply(g) ==
    /\ reloads[g].pc = "read"
    /\ reloads' = [reloads EXCEPT ![g] = [pc |-> "done", page |-> None]]
    /\ LET page == reloads[g].page
           next == IF g # generation THEN stream      \* a later reload is under way
                   ELSE Merge(stream, IF page = None THEN None ELSE FromResume(page))
       IN stream' = next /\ poll' = PollWith(next)
    /\ UNCHANGED <<last, shown, generation, older, failures>>

ReloadFail(g) ==
    /\ reloads[g].pc \in {"asked", "read"} /\ failures < MaxFailures
    /\ failures' = failures + 1
    /\ reloads' = [reloads EXCEPT ![g] = [pc |-> "done", page |-> None]]
    /\ UNCHANGED <<last, shown, stream, poll, generation, older>>
-----------------------------------------------------------------------------
(* The long poll.  It has a cursor of its own; a wait that times out brings  *)
(* an empty page and changes nothing, so it is no step.                      *)

PollRead ==
    /\ poll.pc = "asked" /\ poll.cursor < last
    /\ poll' = [poll EXCEPT !.pc = "read",
                            !.page = PageAfter(last, shown, poll.cursor, PollLimit)]
    /\ UNCHANGED <<last, shown, stream, reloads, generation, older, failures>>

PollApply ==
    /\ poll.pc = "read"
    /\ poll' = PollFrom(Higher(poll.cursor, poll.page.cursor))
    /\ stream' = ApplyPage(stream, poll.page)
    /\ UNCHANGED <<last, shown, reloads, generation, older, failures>>

\* reconnecting: the same cursor once more
PollFail ==
    /\ poll.pc = "read" /\ failures < MaxFailures
    /\ failures' = failures + 1
    /\ poll' = PollFrom(poll.cursor)
    /\ UNCHANGED <<last, shown, stream, reloads, generation, older>>

\* 403 or 404 end the poll; the stream stays
PollFatal ==
    /\ poll.pc = "asked" /\ failures < MaxFailures
    /\ failures' = failures + 1
    /\ poll' = [poll EXCEPT !.pc = "fatal"]
    /\ UNCHANGED <<last, shown, stream, reloads, generation, older>>
-----------------------------------------------------------------------------
(* Older pages of this Session, one at a time (historyLoading) *)

AskOlder ==
    /\ older.pc = "idle"
    /\ stream # None
    /\ stream.floor > 0
    /\ older' = [pc |-> "asked", before |-> stream.floor + 1, page |-> None]
    /\ UNCHANGED <<last, shown, stream, poll, reloads, generation, failures>>

OlderRead ==
    /\ older.pc = "asked"
    /\ older' = [older EXCEPT !.pc = "read",
                              !.page = PageBefore(last, shown, older.before, HistoryLimit)]
    /\ UNCHANGED <<last, shown, stream, poll, reloads, generation, failures>>

OlderApply ==
    /\ older.pc = "read"
    /\ older' = NoOlder
    /\ stream' = IF stream = None THEN None ELSE ApplyHistory(stream, older.page)
    /\ UNCHANGED <<last, shown, poll, reloads, generation, failures>>

OlderFail ==
    /\ older.pc # "idle" /\ failures < MaxFailures
    /\ failures' = failures + 1
    /\ older' = NoOlder
    /\ UNCHANGED <<last, shown, stream, poll, reloads, generation>>
-----------------------------------------------------------------------------
Next ==
    \/ AppendRow \/ Reload
    \/ \E g \in 1..MaxReloads : ReloadRead(g) \/ ReloadApply(g) \/ ReloadFail(g)
    \/ PollRead \/ PollApply \/ PollFail \/ PollFatal
    \/ AskOlder \/ OlderRead \/ OlderApply \/ OlderFail

Spec == Init /\ [][Next]_vars

(* The page is mounted (the first Reload runs), requests are served and      *)
(* their answers applied, and the reader keeps asking for older pages while  *)
(* there are any.  No later Reload has to happen.                            *)
FairSpec ==
    /\ Spec
    /\ WF_vars(Reload /\ generation = 0)
    /\ \A g \in 1..MaxReloads : WF_vars(ReloadRead(g)) /\ WF_vars(ReloadApply(g))
    /\ WF_vars(PollRead) /\ WF_vars(PollApply)
    /\ WF_vars(AskOlder) /\ WF_vars(OlderRead) /\ WF_vars(OlderApply)
-----------------------------------------------------------------------------
(* Properties *)

\* a page as it was read: all there is to see in the stretch it covers
Sound(p) ==
    /\ p \in Pages
    /\ p.after <= p.cursor /\ p.cursor <= last
    /\ p.events = shown \cap (p.after + 1)..p.cursor

StreamTypeOK ==
    stream # None =>
        /\ stream \in Stream
        /\ stream.floor <= stream.cursor /\ stream.cursor <= last
        /\ stream.events \subseteq shown \cap (stream.floor + 1)..stream.cursor

PollTypeOK ==
    /\ poll \in [pc: {"off", "asked", "read", "fatal"}, cursor: 0..last, page: Pages \cup {None}]
    /\ poll.pc = "off" <=> stream = None
    /\ poll.pc = "read" => Sound(poll.page) /\ poll.page.after = poll.cursor
    /\ stream # None => stream.floor <= poll.cursor /\ poll.cursor <= stream.cursor

ReloadTypeOK ==
    /\ generation \in 0..MaxReloads
    /\ reloads \in [1..MaxReloads -> [pc: {"unused", "asked", "read", "done"},
                                        page: Pages \cup {None}]]
    /\ \A g \in 1..MaxReloads :
          /\ g > generation => reloads[g].pc = "unused"
          /\ reloads[g].page # None => Sound(reloads[g].page)

OlderTypeOK ==
    /\ older \in [pc: {"idle", "asked", "read"}, before: 0..(last + 1), page: Pages \cup {None}]
    /\ older.pc = "read" => Sound(older.page) /\ older.page.cursor = older.before - 1
    /\ older.pc # "idle" => older.before > 1

\* Types; the stream holds nothing the reader may not see and nothing outside
\* the stretch of the log it claims to cover, and no request under way is
\* answered with more or less than its stretch of the log.
TypeOK ==
    /\ last \in 0..MaxEvents /\ shown \subseteq 1..last
    /\ failures \in 0..MaxFailures
    /\ StreamTypeOK /\ PollTypeOK /\ ReloadTypeOK /\ OlderTypeOK

\* The stream of one Resume is whole: every event the reader may see above the
\* floor, up to the cursor, is in it.  Only what lies below the floor is still
\* to be asked for (sessionEventStream.ts, eventStreamFromResume and
\* nextHistoryRequest).  A second Resume may open a hole: NothingPassedOver.
StreamWhole ==
    stream # None /\ generation = 1 => shown \cap (stream.floor + 1)..stream.cursor \subseteq stream.events

\* What the poll has passed was painted: the poll never asks again for what it
\* has handed over, so a hole below its cursor is one for good.
NothingPassedOver ==
    stream # None => shown \cap (stream.floor + 1)..poll.cursor \subseteq stream.events

\* Nothing painted is ever taken back: neither a late Resume nor a late page
\* removes events, moves the cursor back or makes loaded history unloaded, as
\* long as the reader has a stream at all.
NothingErased ==
    [][stream # None /\ stream' # None =>
          /\ stream.events \subseteq stream'.events
          /\ stream.cursor <= stream'.cursor
          /\ stream'.floor <= stream.floor]_vars

\* Every event reaches a reader that keeps asking for older pages, be it by
\* Resume, by poll or by an older page - unless it has lost its projection or
\* its poll has ended for good, or a second Resume gets in between.
EventuallyPainted ==
    \A q \in 1..MaxEvents :
        (q \in shown) ~>
            \/ stream = None \/ q \in stream.events
            \/ poll.pc = "fatal" \/ generation > 1
=============================================================================
