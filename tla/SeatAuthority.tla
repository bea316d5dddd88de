---------------------------- MODULE SeatAuthority ----------------------------
(***************************************************************************)
(* What Seats promise about who may act for them (P3-D rule 16): a Seat    *)
(* has one holder and a term that only grows, every change of holder opens *)
(* a new term, and an AI grant is installed at most once, ever - so a      *)
(* (grant, term) pair shown by an old AI can never become valid again.     *)
(***************************************************************************)
EXTENDS Naturals

CONSTANTS Seats, Humans, AIs, NoOne

VARIABLES
    holder,   \* [Seats -> Humans \cup AIs \cup {NoOne}]
    term,     \* [Seats -> Nat]
    spent,    \* the AI grants installed so far
    closed    \* Seats that are gone

vars == <<holder, term, spent, closed>>

Init ==
    /\ holder = [s \in Seats |-> NoOne]
    /\ term = [s \in Seats |-> 0]
    /\ spent = {}
    /\ closed = {}

\* the Seats ss change hands together (several when a Session ends)
HandOver(ss) ==
    /\ ss # {}
    /\ ss \cap closed = {}
    /\ holder' \in [Seats -> Humans \cup AIs \cup {NoOne}]
    /\ \A s \in ss : holder'[s] # holder[s] /\ holder'[s] \notin spent
    /\ \A s \in Seats \ ss : holder'[s] = holder[s]
    /\ term' = [s \in Seats |-> IF s \in ss THEN term[s] + 1 ELSE term[s]]
    /\ spent' = spent \cup ({holder'[s] : s \in ss} \cap AIs)
    /\ UNCHANGED closed

Close(ss) ==
    /\ ss # {}
    /\ closed' = closed \cup ss
    /\ holder' = [s \in Seats |-> IF s \in ss THEN NoOne ELSE holder[s]]
    /\ UNCHANGED <<term, spent>>

Next == \E ss \in SUBSET Seats : HandOver(ss) \/ Close(ss)

Spec == Init /\ [][Next]_vars
=============================================================================
