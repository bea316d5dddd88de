-------------------------- MODULE CredentialChains --------------------------
(***************************************************************************)
(* What an authorization server promises whoever grants access: the        *)
(* credentials of an authorization form one chain, each of them exchanged  *)
(* for the next at most once; a new chain ends those the grant had before; *)
(* a grant that is over gets none.  A chain that has ended is not carried  *)
(* on.  Only its first credential, on its way when the end came, may still *)
(* arrive: nothing is exchanged for it.                                    *)
(***************************************************************************)
CONSTANTS Grants, Chains, Credentials, None

VARIABLES
    over,     \* the grants that are over
    holder,   \* the grant a chain belongs to, or None
    ended,    \* the chains that have ended
    chain,    \* the chain a credential belongs to, or None
    from,     \* what it was exchanged for: another, or None, the chain's first
    due       \* the chains whose first credential is on its way

vars == <<over, holder, ended, chain, from, due>>

ChainsOf(g) == {l \in Chains : holder[l] = g}

Init ==
    /\ over = {}
    /\ holder = [l \in Chains |-> None]
    /\ ended = {}
    /\ chain = [p \in Credentials |-> None]
    /\ from = [p \in Credentials |-> None]
    /\ due = {}

Open(g, l) ==
    /\ g \notin over /\ holder[l] = None
    /\ holder' = [holder EXCEPT ![l] = g]
    /\ ended' = ended \cup ChainsOf(g)
    /\ UNCHANGED <<over, chain, from, due>>

Exchanged(l, o) == \E p \in Credentials : chain[p] = l /\ from[p] = o

Add(l, o, p) ==
    /\ chain[p] = None
    /\ chain' = [chain EXCEPT ![p] = l]
    /\ from' = [from EXCEPT ![p] = o]

\* the first credential: promised while the chain stands, perhaps late
Promise(l) ==
    /\ holder[l] # None /\ l \notin ended
    /\ l \notin due /\ ~Exchanged(l, None)
    /\ due' = due \cup {l}
    /\ UNCHANGED <<over, holder, ended, chain, from>>

First(l, p) ==
    /\ l \in due
    /\ Add(l, None, p)
    /\ due' = due \ {l}
    /\ UNCHANGED <<over, holder, ended>>

\* what was on its way is lost
Forget ==
    /\ due' = {}
    /\ UNCHANGED <<over, holder, ended, chain, from>>

\* each further one for the one before it
Exchange(l, o, p) ==
    /\ holder[l] # None /\ l \notin ended
    /\ chain[o] = l /\ ~Exchanged(l, o)
    /\ Add(l, o, p)
    /\ UNCHANGED <<over, holder, ended, due>>

End(l) ==
    /\ ended' = ended \cup {l}
    /\ UNCHANGED <<over, holder, chain, from, due>>

\* a grant goes, with its chains or without
Dismiss(g) ==
    /\ over' = over \cup {g}
    /\ ended' \in {ended, ended \cup ChainsOf(g)}
    /\ UNCHANGED <<holder, chain, from, due>>

Next ==
    \/ \E g \in Grants : Dismiss(g) \/ \E l \in Chains : Open(g, l)
    \/ \E l \in Chains :
          \/ End(l) \/ Promise(l)
          \/ \E p \in Credentials : First(l, p) \/ \E o \in Credentials : Exchange(l, o, p)
    \/ Forget

Spec == Init /\ [][Next]_vars
=============================================================================
