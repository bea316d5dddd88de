----------------------------- MODULE EventPages -----------------------------
(***************************************************************************)
(* The pages every reader of a Session's events is served.  Sequence       *)
(* numbers of a Session are 1..last with no hole (append_in_transaction    *)
(* counts last_event_seq up under the Session's lock and rows are never    *)
(* deleted); shown is the set of those a reader may see: _visible,         *)
(* _present and, for an AI that asks for it, not _is_own_echo.             *)
(***************************************************************************)
EXTENDS Integers, FiniteSets

CONSTANTS
    ScanLimit,    \* MAX_EVENT_SCAN_LIMIT, rows read by one query
    Chunks        \* MAX_HISTORY_SCAN_CHUNKS, queries made for one page of history

ASSUME PageAssumption == ScanLimit \in Nat \ {0} /\ Chunks \in Nat \ {0}

Lower(a, b)  == IF a < b THEN a ELSE b
Higher(a, b) == IF a < b THEN b ELSE a

\* bounded_limit
PageLimit(limit) == Higher(1, Lower(limit, ScanLimit))

\* mutant: the cursor jumps to the head, not to the last row read
HeadPage(last, shown, after, limit) ==
    LET end == IF after < last THEN Lower(after + PageLimit(limit), last) ELSE after
    IN [after |-> after, cursor |-> Higher(after, last), events |-> shown \cap (after + 1)..end]

\* TableEventService.list_after: the cursor is the last row read, shown or not
PageAfter(last, shown, after, limit) ==
    LET end == IF after < last THEN Lower(after + PageLimit(limit), last) ELSE after
    IN [after |-> after, cursor |-> end, events |-> shown \cap (after + 1)..end]

\* TableEventService._scan_before: the newest limit events below before, as
\* far as the budget of rows goes; after is the row below the oldest one read
PageBefore(last, shown, before, limit) ==
    LET top    == Higher(0, Lower(before - 1, last))
        budget == Higher(0, top - Chunks * ScanLimit)
        full   == {a \in budget..(top - 1) :
                      /\ a + 1 \in shown
                      /\ Cardinality(shown \cap (a + 1)..top) = PageLimit(limit)}
        after  == IF full = {} THEN budget ELSE CHOOSE a \in full : TRUE
    IN [after |-> after, cursor |-> top, events |-> shown \cap (after + 1)..top]
=============================================================================
