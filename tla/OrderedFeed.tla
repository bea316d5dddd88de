---------------------------- MODULE OrderedFeed ----------------------------
(***************************************************************************)
(* What a Session's event feed promises.  Events have one order for        *)
(* everybody; a key names one event for ever; a closed feed is final.  A   *)
(* reader moves forward over the feed and is given, of what it passes,     *)
(* everything meant for it and nothing else - except that an agent may be  *)
(* spared the echo of what it has written itself.                          *)
(***************************************************************************)
EXTENDS Naturals, Sequences

CONSTANTS
    Readers,
    Agents,     \* the readers that may be spared their echoes
    Drafts,     \* what may be published: records with the fields by, key, for,
                \* echo and ends
    None        \* no key

VARIABLES
    feed,      \* sequence of events
    closed,
    position,  \* [Readers -> Nat], what the reader has passed
    given      \* [Readers -> sets of positions], what it was given

vars == <<feed, closed, position, given>>

Init ==
    /\ feed = <<>>
    /\ closed = FALSE
    /\ position = [r \in Readers |-> 0]
    /\ given = [r \in Readers |-> {}]

Meant(r) == {i \in 1..Len(feed) : r \in feed[i].for}

Echoes(r) == {i \in 1..Len(feed) : r \in Agents /\ feed[i].by = r /\ feed[i].echo}

Publish(e) ==
    /\ ~closed
    /\ e.key # None => \A i \in 1..Len(feed) : feed[i].key # e.key
    /\ feed' = Append(feed, e)
    /\ closed' = e.ends
    /\ UNCHANGED <<position, given>>

Give(r, to, spared) ==
    /\ position' = [position EXCEPT ![r] = to]
    /\ given' = [given EXCEPT ![r] =
                    @ \cup ((Meant(r) \cap (position[r] + 1)..to) \ spared)]
    /\ UNCHANGED <<feed, closed>>

Next ==
    \/ \E e \in Drafts : Publish(e)
    \/ \E r \in Readers : \E to \in position[r]..Len(feed), spared \in SUBSET Echoes(r) :
          Give(r, to, spared)

Spec == Init /\ [][Next]_vars
=============================================================================
