--------------------------- MODULE ExclusiveLease ---------------------------
(***************************************************************************)
(* What Character leases promise: a Character is played in at most one     *)
(* running Session, over all Campaigns of the Room; a Session takes        *)
(* Characters only while they are free and gives all of them back at once, *)
(* when it is over, for good.                                              *)
(***************************************************************************)
CONSTANTS Characters, Sessions

VARIABLES
    users,    \* [Characters -> SUBSET Sessions], who is playing it now
    over      \* the Sessions that have ended

vars == <<users, over>>

Init ==
    /\ users = [ch \in Characters |-> {}]
    /\ over = {}

Acquire(n, chs) ==
    /\ n \notin over
    /\ \A ch \in chs : users[ch] = {}
    /\ users' = [ch \in Characters |-> IF ch \in chs THEN {n} ELSE users[ch]]
    /\ UNCHANGED over

Release(n) ==
    /\ n \notin over
    /\ over' = over \cup {n}
    /\ users' = [ch \in Characters |-> users[ch] \ {n}]

Next == \E n \in Sessions :
    \/ Release(n)
    \/ \E chs \in SUBSET Characters : Acquire(n, chs)

Spec == Init /\ [][Next]_vars
=============================================================================
