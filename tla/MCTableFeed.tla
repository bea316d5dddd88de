---------------------------- MODULE MCTableFeed ----------------------------
(***************************************************************************)
(* For TLC, in two scenes: a Session with an AI DM and a human Player; and *)
(* every log of a few events, of which a reader may see any part, that     *)
(* grows while the reader pages through it (FeedPaging).                   *)
(***************************************************************************)
EXTENDS TableFeed, FeedPaging, TLC

CONSTANTS ai, human, k1

VARIABLE scene

Request(by, key, for, echo, ends) ==
    [by |-> by, key |-> key, for |-> for, echo |-> echo, ends |-> ends]

\* what a wait with suppression tells apart - the AI's own echo, its own event of
\* another kind, behind the screen, an event of an echo's kind that somebody else
\* wrote, with a key, so that it may be retried, even when the Session is over -
\* and the end, by the Owner
FeedDrafts ==
    { Request(ai, None, {ai, human}, TRUE, FALSE),
      Request(ai, None, {ai}, FALSE, FALSE),
      Request(human, k1, {ai}, TRUE, FALSE),
      Request(human, None, {ai, human}, FALSE, TRUE) }

\* the calls both make by default: the human's page waits, the AI waits with
\* suppression
FeedNext ==
    \/ \E e \in Drafts : AppendNew(e) \/ AppendAgain(e)
    \/ Ask(human, "wait") \/ Ask(ai, "quiet")
    \/ \E a \in Actors : Serve(a) \/ Timeout(a) \/ Receive(a) \/ LoseCall(a)
    \/ Crash

\* anybody's pages while there is no reader, then the reader's
OnePager == scan.for = "other" => ~reading

\* the log of the second scene is full at MaxRows
PagingStep ==
    /\ PagingNext \/ (last = MaxRows /\ UNCHANGED pagingVars)
    /\ OnePager'
    /\ UNCHANGED vars

FeedInit == Init /\ PagingInit /\ scene \in {"feed", "paging"}

FeedSpec ==
    /\ FeedInit
    /\ [][/\ \/ scene = "feed" /\ FeedNext /\ UNCHANGED pagingVars
             \/ scene = "paging" /\ PagingStep
          /\ UNCHANGED scene]_<<vars, scene, pagingVars>>
    /\ scene = "feed" => Fairness
=============================================================================
