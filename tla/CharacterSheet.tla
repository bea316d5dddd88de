--------------------------- MODULE CharacterSheet ---------------------------
(***************************************************************************)
(* What the Characters of a Room promise those who play and edit them: a   *)
(* write changes one field of the sheet that is there now and leaves the   *)
(* others; a new Build is one nobody had, and costs nothing of the sheet;  *)
(* a Character at the table stays as it is until it leaves, and one that   *)
(* was ever played is never deleted, nor does a deleted one come back.     *)
(***************************************************************************)
CONSTANTS Characters, Builds, Fields, Writers, None

VARIABLES
    life,     \* of each Character: "none", "active", "archived", "deleted"
    play,     \* "no", "leased" while it is at the table, "past" afterwards
    build,    \* its Build, or None
    used,     \* the Builds there have ever been
    sheet     \* [Characters -> [Fields -> Writers \cup {None}]]

vars == <<life, play, build, used, sheet>>

Alive(c) == life[c] \in {"active", "archived"}

Init ==
    /\ life \in [Characters -> {"none", "deleted"}]
    /\ play = [c \in Characters |-> "no"]
    /\ build = [c \in Characters |-> None]
    /\ used = {}
    /\ sheet = [c \in Characters |-> [f \in Fields |-> None]]

Compile(c, b) ==
    /\ b \notin used
    /\ used' = used \cup {b}
    /\ build' = [build EXCEPT ![c] = b]

Create(c, b) ==
    /\ life[c] = "none"
    /\ Compile(c, b)
    /\ life' = [life EXCEPT ![c] = "active"]
    /\ UNCHANGED <<play, sheet>>

Rebuild(c, b) ==
    /\ Alive(c)
    /\ Compile(c, b)
    /\ UNCHANGED <<life, play, sheet>>

Write(c, f, w) ==
    /\ life[c] = "active"
    /\ sheet' = [sheet EXCEPT ![c][f] = w]
    /\ UNCHANGED <<life, play, build, used>>

Archive(c) ==
    /\ life[c] = "active" /\ play[c] # "leased"
    /\ life' = [life EXCEPT ![c] = "archived"]
    /\ UNCHANGED <<play, build, used, sheet>>

Unarchive(c) ==
    /\ life[c] = "archived"
    /\ life' = [life EXCEPT ![c] = "active"]
    /\ UNCHANGED <<play, build, used, sheet>>

TakeToTable(c) ==
    /\ life[c] = "active" /\ play[c] # "leased"
    /\ play' = [play EXCEPT ![c] = "leased"]
    /\ UNCHANGED <<life, build, used, sheet>>

Leave(c) ==
    /\ play[c] = "leased"
    /\ play' = [play EXCEPT ![c] = "past"]
    /\ UNCHANGED <<life, build, used, sheet>>

Delete(c) ==
    /\ Alive(c) /\ play[c] = "no"
    /\ life' = [life EXCEPT ![c] = "deleted"]
    /\ build' = [build EXCEPT ![c] = None]
    /\ UNCHANGED <<play, used, sheet>>

Next == \E c \in Characters :
    \/ \E b \in Builds : Create(c, b) \/ Rebuild(c, b)
    \/ \E f \in Fields, w \in Writers : Write(c, f, w)
    \/ Archive(c) \/ Unarchive(c) \/ TakeToTable(c) \/ Leave(c) \/ Delete(c)

Spec == Init /\ [][Next]_vars
=============================================================================
