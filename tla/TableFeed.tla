----------------------------- MODULE TableFeed -----------------------------
(***************************************************************************)
(* The event feed of one Session: writers append, readers list and wait.   *)
(* Appends (persistence/rooms/table_runtime.py) serialize on the Session   *)
(* row; the writer wakes the waiters after its commit, from its own thread *)
(* (domain/rooms/table_events.py, api/rooms/table_event_wait.py).  Waiters *)
(* live in the memory of the one server process; the log outlives it.      *)
(***************************************************************************)
EXTENDS EventPages, Sequences

CONSTANTS
    Actors,        \* bindings of a Session's callers: access sessions and grants
    Agents,        \* those of them that are grants
    Drafts,        \* requests to append, see Draft
    Keys,          \* idempotency keys
    None,          \* no key, no page
    Limit,         \* of the pages asked for
    MaxEvents,     \* bound on the log
    MaxFailures    \* bound on lost calls and server crashes

\* by: the author; for: the actors that _visible admits; echo: the kind is one
\* of OWN_ECHO_EVENT_KINDS; ends: the projection finalizes the Session
Draft == [by: Actors, key: Keys \cup {None}, for: SUBSET Actors, echo: BOOLEAN, ends: BOOLEAN]

ASSUME FeedAssumption ==
    /\ Agents \subseteq Actors
    /\ Drafts \subseteq Draft
    /\ None \notin Keys
    /\ Limit \in Nat /\ MaxEvents \in Nat /\ MaxFailures \in Nat

Modes == {"list", "wait", "quiet"}   \* list_after, wait_after, wait_after(suppress_own)

VARIABLES
    log,         \* session_events in the order of seq
    status,      \* of the Session: "active" or "over"
    unnotified,  \* [Actors -> Nat], seq its writer has committed but not notified, or 0
    pc,          \* [Actors -> where the reader's call stands]
    mode,        \* [Actors -> Modes]
    cursor,      \* [Actors -> Nat], the cursor inside the call
    registered,  \* actors whose call has a handle in the notifier
    scheduled,   \* handles whose event loop was asked to set them
    signalled,   \* handles that are set
    page,        \* [Actors -> page on its way to the client, or None]
    position,    \* [Actors -> Nat], the client's cursor
    given,       \* [Actors -> set of seq], what the client was given
    failures     \* lost calls and crashes so far

serverVars == <<pc, mode, cursor, registered, scheduled, signalled, page>>
clientVars == <<position, given>>
vars == <<log, status, unnotified, serverVars, clientVars, failures>>

\* mutant: an echo is told by its author only, whatever its kind
AuthoredBy(a, e) == a \in Agents /\ e.by = a

EchoOf(a, e) == a \in Agents /\ e.by = a /\ e.echo      \* _is_own_echo

Shown(a, m) ==
    {i \in 1..Len(log) : a \in log[i].for /\ ~(m = "quiet" /\ EchoOf(a, log[i]))}

Read(a) == PageAfter(Len(log), Shown(a, mode[a]), cursor[a], Limit)

Init ==
    /\ log = <<>> /\ status = "active"
    /\ unnotified = [a \in Actors |-> 0]
    /\ pc = [a \in Actors |-> "idle"]
    /\ mode = [a \in Actors |-> "list"]
    /\ cursor = [a \in Actors |-> 0]
    /\ registered = {} /\ scheduled = {} /\ signalled = {}
    /\ page = [a \in Actors |-> None]
    /\ position = [a \in Actors |-> 0]
    /\ given = [a \in Actors |-> {}]
    /\ failures = 0
\* actor_binding_is_current: a grant's binding ends with the Session, an access
\* session's does not
Current(a) == a \in Agents => status = "active"

-----------------------------------------------------------------------------
(* Writers *)

KeyUsed(k) == k # None /\ \E i \in 1..Len(log) : log[i].key = k

\* append_in_transaction and its commit: a new event, at the next seq
AppendNew(e) ==
    /\ unnotified[e.by] = 0 /\ Current(e.by)
    /\ ~KeyUsed(e.key)
    /\ status = "active"
    /\ Len(log) < MaxEvents
    /\ log' = Append(log, e)
    /\ status' = IF e.ends THEN "over" ELSE status
    /\ unnotified' = [unnotified EXCEPT ![e.by] = Len(log) + 1]
    /\ UNCHANGED <<serverVars, clientVars, failures>>

\* the key is known: the stored event is the answer, whatever the request says.
AppendAgain(e) ==
    /\ unnotified[e.by] = 0 /\ Current(e.by)
    /\ KeyUsed(e.key)
    /\ unnotified' = [unnotified EXCEPT ![e.by] =
                        CHOOSE i \in 1..Len(log) : log[i].key = e.key]
    /\ UNCHANGED <<log, status, serverVars, clientVars, failures>>

\* notify: the waiters of this moment are scheduled to be set
Notify(a) ==
    /\ unnotified[a] # 0
    /\ unnotified' = [unnotified EXCEPT ![a] = 0]
    /\ scheduled' = scheduled \cup registered
    /\ UNCHANGED <<log, status, pc, mode, cursor, registered, signalled, page, clientVars, failures>>

\* the event loop runs handle.event.set
SetHandle(a) ==
    /\ a \in scheduled
    /\ scheduled' = scheduled \ {a}
    /\ signalled' = signalled \cup {a}
    /\ UNCHANGED <<log, status, unnotified, pc, mode, cursor, registered, page, clientVars, failures>>
-----------------------------------------------------------------------------
(* Readers *)

\* a call to the server, from the client's cursor
Ask(a, m) ==
    /\ pc[a] = "idle"
    /\ Current(a)
    /\ m = "quiet" => a \in Agents
    /\ pc' = [pc EXCEPT ![a] = "scan"]
    /\ mode' = [mode EXCEPT ![a] = m]
    /\ cursor' = [cursor EXCEPT ![a] = position[a]]
    /\ UNCHANGED <<log, status, unnotified, registered, scheduled, signalled, page, clientVars, failures>>

\* unregister, where the call holds a handle; a set still scheduled hits nothing
Unregister(a) ==
    /\ registered' = registered \ {a}
    /\ scheduled' = scheduled \ {a}
    /\ signalled' = signalled \ {a}

\* the call's frame is gone
Return(a) ==
    /\ Unregister(a)
    /\ mode' = [mode EXCEPT ![a] = "list"]
    /\ cursor' = [cursor EXCEPT ![a] = 0]

Answer(a) ==
    /\ pc' = [pc EXCEPT ![a] = "answered"]
    /\ page' = [page EXCEPT ![a] = Read(a)]
    /\ Return(a)

\* does the page end a wait?  With suppression only events do.
EndsWait(a) ==
    IF mode[a] = "quiet" THEN Read(a).events # {} ELSE Read(a).cursor > cursor[a]

\* mutant: the next round starts where this one did
SkipNothing(a) ==
    /\ ~EndsWait(a)
    /\ Read(a).cursor > cursor[a]
    /\ pc' = [pc EXCEPT ![a] = "scan"]
    /\ Unregister(a)
    /\ UNCHANGED <<mode, cursor, page>>

\* only own echoes were read: on from behind them, with a fresh handle later
SkipEchoes(a) ==
    /\ ~EndsWait(a)
    /\ Read(a).cursor > cursor[a]
    /\ cursor' = [cursor EXCEPT ![a] = Read(a).cursor]
    /\ pc' = [pc EXCEPT ![a] = "scan"]
    /\ Unregister(a)
    /\ UNCHANGED <<mode, page>>

NothingNew(a) == Read(a).cursor = cursor[a]

\* the first list of a call, and of every round with suppression; the deadline
\* of a suppressed wait may have passed
Scan(a) ==
    /\ pc[a] = "scan" /\ Current(a)
    /\ \/ mode[a] = "list" /\ Answer(a)
       \/ mode[a] # "list" /\ EndsWait(a) /\ Answer(a)
       \/ mode[a] = "quiet" /\ SkipEchoes(a)
       \/ mode[a] = "quiet" /\ NothingNew(a) /\ Answer(a)
       \/ /\ mode[a] # "list" /\ NothingNew(a)
          /\ pc' = [pc EXCEPT ![a] = "register"]
          /\ UNCHANGED <<mode, cursor, registered, scheduled, signalled, page>>
    /\ UNCHANGED <<log, status, unnotified, clientVars, failures>>

Register(a) ==
    /\ pc[a] = "register"
    /\ registered' = registered \cup {a}
    /\ pc' = [pc EXCEPT ![a] = "recheck"]
    /\ UNCHANGED <<log, status, unnotified, mode, cursor, scheduled, signalled, page, clientVars, failures>>

\* mutant: no second list between registration and sleep
NoRecheck(a) ==
    /\ pc[a] = "recheck" /\ Current(a)
    /\ pc' = [pc EXCEPT ![a] = "asleep"]
    /\ UNCHANGED <<log, status, unnotified, mode, cursor, registered, scheduled, signalled, page,
                   clientVars, failures>>

\* the list after registration
Recheck(a) ==
    /\ pc[a] = "recheck" /\ Current(a)
    /\ \/ EndsWait(a) /\ Answer(a)
       \/ mode[a] = "quiet" /\ SkipEchoes(a)
       \/ /\ NothingNew(a)
          /\ pc' = [pc EXCEPT ![a] = "asleep"]
          /\ UNCHANGED <<mode, cursor, registered, scheduled, signalled, page>>
    /\ UNCHANGED <<log, status, unnotified, clientVars, failures>>

\* notifier.wait returns True: list once more, or start a new round
Wake(a) ==
    /\ pc[a] = "asleep" /\ a \in signalled
    /\ IF mode[a] = "quiet"
       THEN pc' = [pc EXCEPT ![a] = "scan"] /\ Unregister(a)
       ELSE pc' = [pc EXCEPT ![a] = "final"] /\ UNCHANGED <<registered, scheduled, signalled>>
    /\ UNCHANGED <<log, status, unnotified, mode, cursor, page, clientVars, failures>>

\* notifier.wait returns False
Timeout(a) ==
    /\ pc[a] = "asleep" /\ a \notin signalled
    /\ pc' = [pc EXCEPT ![a] = "final"]
    /\ UNCHANGED <<log, status, unnotified, mode, cursor, registered, scheduled, signalled, page,
                   clientVars, failures>>

\* the last list, whatever it finds
FinalScan(a) ==
    /\ pc[a] = "final" /\ Current(a)
    /\ Answer(a)
    /\ UNCHANGED <<log, status, unnotified, clientVars, failures>>

\* require_actor_current refuses: the call ends, and leaves through finally
Refuse(a) ==
    /\ pc[a] \in {"scan", "recheck", "final"} /\ ~Current(a)
    /\ pc' = [pc EXCEPT ![a] = "idle"]
    /\ Return(a)
    /\ UNCHANGED <<log, status, unnotified, page, clientVars, failures>>

\* the answer arrives; the client goes on from the page's cursor
Receive(a) ==
    /\ pc[a] = "answered"
    /\ given' = [given EXCEPT ![a] = @ \cup page[a].events]
    /\ position' = [position EXCEPT ![a] = Higher(@, page[a].cursor)]
    /\ pc' = [pc EXCEPT ![a] = "idle"]
    /\ page' = [page EXCEPT ![a] = None]
    /\ UNCHANGED <<log, status, unnotified, mode, cursor, registered, scheduled, signalled, failures>>
-----------------------------------------------------------------------------
(* Failures: a call is cancelled or lost with its answer, ... *)
\* mutant: a cancelled wait leaves its handle behind
CancelCall(a) ==
    /\ pc[a] # "idle" /\ failures < MaxFailures
    /\ failures' = failures + 1
    /\ pc' = [pc EXCEPT ![a] = "idle"]
    /\ page' = [page EXCEPT ![a] = None]
    /\ mode' = [mode EXCEPT ![a] = "list"]
    /\ cursor' = [cursor EXCEPT ![a] = 0]
    /\ UNCHANGED <<log, status, unnotified, registered, scheduled, signalled, clientVars>>

LoseCall(a) ==
    /\ pc[a] # "idle" /\ failures < MaxFailures
    /\ failures' = failures + 1
    /\ pc' = [pc EXCEPT ![a] = "idle"]
    /\ page' = [page EXCEPT ![a] = None]
    /\ Return(a)
    /\ UNCHANGED <<log, status, unnotified, clientVars>>

\* ... or the server stops, with its calls and what they had still to notify
Crash ==
    /\ failures < MaxFailures
    /\ failures' = failures + 1
    /\ unnotified' = [a \in Actors |-> 0]
    /\ pc' = [a \in Actors |-> "idle"]
    /\ page' = [a \in Actors |-> None]
    /\ mode' = [a \in Actors |-> "list"] /\ cursor' = [a \in Actors |-> 0]
    /\ registered' = {} /\ scheduled' = {} /\ signalled' = {}
    /\ UNCHANGED <<log, status, clientVars>>

Serve(a) ==
    Scan(a) \/ Register(a) \/ Recheck(a) \/ Wake(a) \/ FinalScan(a) \/ Refuse(a)
    \/ Notify(a) \/ SetHandle(a)

Next ==
    \/ \E e \in Drafts : AppendNew(e) \/ AppendAgain(e)
    \/ \E a \in Actors :
          \/ \E m \in Modes : Ask(a, m)
          \/ Serve(a) \/ Timeout(a) \/ Receive(a) \/ LoseCall(a)
    \/ Crash

Spec == Init /\ [][Next]_vars

(* The server runs its threads and its event loop, clients ask again and take *)
(* what they are sent.  Nobody has to write, and no time-out has to happen.   *)
Fairness == \A a \in Actors :
    /\ WF_vars(\E m \in Modes : Ask(a, m))
    /\ WF_vars(Scan(a)) /\ WF_vars(Register(a)) /\ WF_vars(Recheck(a))
    /\ WF_vars(Wake(a)) /\ WF_vars(FinalScan(a)) /\ WF_vars(Refuse(a)) /\ WF_vars(Receive(a))
    /\ WF_vars(Notify(a)) /\ WF_vars(SetHandle(a))

FairSpec == Spec /\ Fairness
-----------------------------------------------------------------------------
(* Properties *)

Pages == [after: 0..Len(log), cursor: 0..Len(log), events: SUBSET (1..Len(log))]

Waiting(a) == pc[a] \in {"recheck", "asleep", "final"}

LogTypeOK ==
    /\ log \in Seq(Drafts)
    /\ status \in {"active", "over"}
    /\ unnotified \in [Actors -> 0..Len(log)]
    /\ failures \in 0..MaxFailures

CallTypeOK ==
    /\ pc \in [Actors -> {"idle", "scan", "register", "recheck", "asleep", "final", "answered"}]
    /\ mode \in [Actors -> Modes]
    /\ cursor \in [Actors -> 0..Len(log)]
    /\ page \in [Actors -> Pages \cup {None}]
    /\ \A a \in Actors : pc[a] = "answered" => page[a] \in Pages

HandleTypeOK ==
    /\ registered = {a \in Actors : Waiting(a)}
    /\ scheduled \subseteq registered /\ signalled \subseteq registered

ClientTypeOK ==
    /\ position \in [Actors -> 0..Len(log)]
    /\ given \in [Actors -> SUBSET (1..Len(log))]

\* Types, cursors within the log, and a handle exactly while a call waits: no
\* way out of wait_after, a cancelled call included, leaves one behind.
TypeOK == LogTypeOK /\ CallTypeOK /\ HandleTypeOK /\ ClientTypeOK

\* A client that follows the cursors it is sent has been given every event it
\* may see up to its cursor, but for its own echoes: nothing that is skipped on
\* the way (rows it may not see, echoes, lost answers, restarts) takes an event
\* with it that was not to be skipped.
NothingSkipped ==
    \A a \in Actors : \A i \in 1..position[a] :
        \/ i \in given[a]
        \/ a \notin log[i].for
        \/ a \in Agents /\ log[i].by = a /\ log[i].echo

\* A sleeping waiter with news in the log will be woken without its time-out:
\* its handle is set or about to be, or the writer of the news has still to
\* notify.  An event committed between the list and the registration is the
\* classic way to miss it.
NoLostWakeup ==
    \A a \in Actors :
        pc[a] = "asleep" /\ cursor[a] < Len(log) =>
            \/ a \in signalled \cup scheduled
            \/ \E w \in Actors : unnotified[w] > cursor[a]

Feed == INSTANCE OrderedFeed WITH
            Readers <- Actors, feed <- log, closed <- (status = "over")

\* One order for all, one event per key under retries, nothing after the end of
\* the Session, and readers given what is meant for them as they move forward.
ImplementsFeed == Feed!Spec

\* Every event reaches every client it is meant for that keeps asking, woken by
\* the notifier alone: no time-out is assumed to happen.  Only a grant is shut
\* out when the Session ends.
Delivered ==
    \A a \in Actors : \A i \in 1..MaxEvents :
        (i <= Len(log) /\ a \in log[i].for /\ ~EchoOf(a, log[i])) ~>
            (i \in given[a] \/ ~Current(a))
=============================================================================
