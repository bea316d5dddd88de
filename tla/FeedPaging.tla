----------------------------- MODULE FeedPaging -----------------------------
(***************************************************************************)
(* TableEventService._scan_before as the code runs it, query by query and  *)
(* row by row, while the Session goes on; and the reader of a Session's    *)
(* page that starts from a Resume, pages back to the beginning and polls   *)
(* forward, with answers that may be lost.                                 *)
(***************************************************************************)
EXTENDS EventPages

CONSTANT MaxRows    \* bound on the length of the log

ASSUME PagingAssumption == MaxRows \in Nat

VARIABLES
    last,       \* session_table_runtime.last_event_seq
    shown,      \* the sequence numbers the reader may see
    scan,       \* the call of _scan_before at work
    tail,       \* the pages of list_after on their way: none or one
    reading,    \* the reader has its Resume
    floor,      \* its historyFloorSeq
    head,       \* its cursor
    merged      \* the events it has

readerVars == <<reading, floor, head, merged>>
pagingVars == <<last, shown, scan, tail, readerVars>>

\* at: the statement it has reached; for: who asked, a Resume, the reader for older
\* events, or anybody; rows: those of the query's answer not looked at; top
\* (history): the newest row the first query could read
NoScan == [at |-> "idle", for |-> "none", before |-> 0, limit |-> 1, cursor |-> 0, below |-> 0,
           left |-> 0, rows |-> {}, got |-> {}, smallest |-> 0, after |-> 0, top |-> 0]

PagingInit ==
    /\ last = 0 /\ shown = {}
    /\ scan = NoScan /\ tail = {}
    /\ reading = FALSE /\ floor = 0 /\ head = 0 /\ merged = {}

\* append_in_transaction, for an event this reader may see or not
AppendRow ==
    /\ last < MaxRows
    /\ last' = last + 1
    /\ shown' \in {shown, shown \cup {last + 1}}
    /\ UNCHANGED <<scan, tail, readerVars>>
-----------------------------------------------------------------------------
(* A call of _scan_before *)

AskBefore(for, before, limit) ==
    /\ scan.at = "idle"
    /\ scan' = [NoScan EXCEPT !.at = "asked", !.for = for, !.before = before, !.limit = PageLimit(limit)]
    /\ UNCHANGED <<last, shown, tail, readerVars>>

\* the page is made
Page(got, after) == scan' = [scan EXCEPT !.at = "page", !.got = got, !.after = after, !.rows = {}]

\* current_runtime: the cursor is of this moment
ReadRuntime ==
    /\ scan.at = "asked"
    /\ LET cursor == Higher(0, Lower(scan.before - 1, last))
       IN scan' = IF scan.before <= 1 \/ last = 0
                  THEN [scan EXCEPT !.at = "page", !.cursor = cursor]
                  ELSE [scan EXCEPT !.at = "query", !.cursor = cursor, !.below = scan.before, !.left = Chunks]
    /\ UNCHANGED <<last, shown, tail, readerVars>>

\* mutant: the query does not order by seq descending
OldestRows(below) == {q \in 1..Lower(ScanLimit, last) : q < below}

\* persistence list_before: the newest rows below, one query long
RowsBefore(below) ==
    LET top == Lower(below - 1, last)
    IN {q \in 1..top : q > top - ScanLimit}

\* one turn of the outer loop
QueryRows ==
    /\ scan.at = "query"
    /\ LET rows == RowsBefore(scan.below)
       IN CASE scan.left = 0 -> Page(scan.got, Higher(0, scan.smallest - 1))
            [] scan.left > 0 /\ rows = {} -> Page(scan.got, 0)
            [] scan.left > 0 /\ rows # {} ->
                  scan' = [scan EXCEPT !.at = "rows", !.rows = rows,
                                       !.top = IF scan.left = Chunks THEN Lower(scan.below - 1, last) ELSE @]
    /\ UNCHANGED <<last, shown, tail, readerVars>>

\* mutant: the page is full one event late
OneMore(got) == Cardinality(got) > scan.limit

Full(got) == Cardinality(got) = scan.limit

\* one turn of the inner loop, downwards, and what follows the last one
ReadRow ==
    /\ scan.at = "rows"
    /\ \E q \in scan.rows :
          /\ \A r \in scan.rows : r <= q
          /\ LET got == IF q \in shown THEN scan.got \cup {q} ELSE scan.got
                 rows == scan.rows \ {q}
             IN CASE Full(got) -> Page(got, Higher(0, q - 1))
                  [] ~Full(got) /\ rows = {} /\ q <= 1 -> Page(got, 0)
                  [] ~Full(got) /\ rows = {} /\ q > 1 ->
                        scan' = [scan EXCEPT !.at = "query", !.rows = {}, !.got = got, !.smallest = q,
                                             !.below = q, !.left = @ - 1]
                  [] ~Full(got) /\ rows # {} ->
                        scan' = [scan EXCEPT !.rows = rows, !.got = got, !.smallest = q]
    /\ UNCHANGED <<last, shown, tail, readerVars>>
-----------------------------------------------------------------------------
(* The reader *)

\* SessionResumeService: the head of the log, then a page of what is below it
AskRecent(limit) == ~reading /\ AskBefore("resume", last + 1, limit)

\* nextHistoryRequest
AskOlder(limit) == reading /\ floor > 0 /\ AskBefore("older", floor + 1, limit)

\* eventStreamFromResume, applySessionHistoryPage; others keep no page
TakePage ==
    /\ scan.at = "page"
    /\ scan' = NoScan
    /\ \/ /\ scan.for = "resume"
          /\ reading' = TRUE /\ floor' = scan.after /\ head' = scan.cursor /\ merged' = scan.got
       \/ /\ scan.for = "older"
          /\ floor' = Lower(floor, scan.after) /\ head' = Higher(head, scan.cursor)
          /\ merged' = merged \cup scan.got
          /\ UNCHANGED reading
       \/ scan.for = "other" /\ UNCHANGED readerVars
    /\ UNCHANGED <<last, shown, tail>>

LosePage ==
    /\ scan.at # "idle"
    /\ scan' = NoScan
    /\ UNCHANGED <<last, shown, tail, readerVars>>

\* runSessionEventPoll asks from its cursor; list_after answers
Poll(limit) ==
    /\ reading /\ tail = {}
    /\ tail' = {PageAfter(last, shown, head, limit)}
    /\ UNCHANGED <<last, shown, scan, readerVars>>

\* applySessionEventPage
TakeTail ==
    /\ \E page \in tail :
          /\ head' = Higher(head, page.cursor)
          /\ merged' = merged \cup page.events
    /\ tail' = {}
    /\ UNCHANGED <<last, shown, scan, reading, floor>>

LoseTail ==
    /\ tail # {} /\ tail' = {}
    /\ UNCHANGED <<last, shown, scan, readerVars>>

\* every longer page is as long as the longest, any position above the log at its head
Limits == 0..(ScanLimit + 1)
Positions == 0..(MaxRows + 2)

PagingNext ==
    \/ AppendRow
    \/ ReadRuntime \/ QueryRows \/ ReadRow \/ TakePage \/ LosePage \/ TakeTail \/ LoseTail
    \/ \E limit \in Limits :
          \/ AskRecent(limit) \/ AskOlder(limit) \/ Poll(limit)
          \/ \E before \in Positions : AskBefore("other", before, limit)

PagingSpec == PagingInit /\ [][PagingNext]_pagingVars
-----------------------------------------------------------------------------
(* Properties *)

\* The chunked scan, with its budget and its early exits, returns the page that
\* EventPages defines by what a reader should get, for every position and limit
\* and though rows are appended between its queries; it moves on whenever there
\* is anything below; and its cursor is the newest row it may have read, unless
\* somebody asked for a position above the head.
ScanIsThePage ==
    scan.at = "page" =>
        LET page == PageBefore(scan.top, shown, scan.before, scan.limit)
        IN /\ scan.got = page.events /\ scan.after = page.after
           /\ scan.after < scan.top \/ scan.top = 0
           /\ scan.for # "other" => scan.cursor = scan.top

\* Between its floor and its cursor a reader has every event it may see, however
\* many rows it may not see lie between (pages that are empty included), ...
ReaderIsWhole == reading => floor <= head /\ merged = shown \cap (floor + 1)..head

\* ... and no page brings it an event it has.
NothingTwice ==
    /\ scan.at = "page" /\ scan.for = "older" => scan.got \cap merged = {}
    /\ \A page \in tail : page.events \cap merged = {}

PagesAreWhole == ScanIsThePage /\ ReaderIsWhole /\ NothingTwice
=============================================================================
