---------------------------- MODULE OAuthFamilies ----------------------------
(***************************************************************************)
(* OAuth for AI clients: mcp/oauth.py, mcp/auth.py, persistence/mcp.  An   *)
(* authorization (a token family) belongs to one AI controller grant.  Its *)
(* code is exchanged for a first pair of tokens, every refresh token for   *)
(* the next pair.  The endpoints run one short transaction after another;  *)
(* each of them is a step of a call.  A call whose caller has gone runs on *)
(* unless the server stops.                                                *)
(*                                                                         *)
(* Of the grant the endpoints see three conditions: in force; out of scope *)
(* but not yet revoked (its time is over, its Seat's epoch has moved);     *)
(* revoked.  One client per grant; hashes, PKCE and redirect URIs are left *)
(* out, the client sends back what it was given.                           *)
(***************************************************************************)
EXTENDS Naturals, FiniteSets

CONSTANTS
    Grants,        \* ai_controller_grants
    Calls,         \* requests under way at once
    MaxFamilies,   \* bound on ai_oauth_authorizations
    MaxPairs,      \* bound on pairs of ai_oauth_tokens
    MaxFaults      \* bound on lost answers, restarts, expiries and disconnects

None == 0

ASSUME OAuthAssumption ==
    /\ None \notin Grants /\ None \notin Calls
    /\ MaxFamilies \in Nat /\ MaxPairs \in Nat /\ MaxFaults \in Nat

Families == 1..MaxFamilies
Pairs == 1..MaxPairs
Origins == {None} \cup Pairs     \* None: the family's code
GrantIds == Grants \cup {None}
CallIds == Calls \cup {None}

VARIABLES
    grant,      \* [Grants -> "current" | "lapsed" | "revoked"]
    owner,      \* authorization.grant_id, None while the row does not exist
    revoked,    \* authorization.revoked_at is set
    code,       \* the authorization's code: "none", "fresh", "consumed", "expired"
    family,     \* token.authorization_id of a pair, None while it does not exist
    origin,     \* history: what the pair was exchanged for
    refresh,    \* its refresh token: "live", "spent" (revoked_at is set), "expired"
    access,     \* its access token: "live", "expired"
    call,       \* [Calls -> what the request asked for and where it stands]
    client,     \* [Grants -> what the client of the grant holds and waits for]
    faults

rows == <<owner, revoked, code, family, origin, refresh, access>>
vars == <<grant, rows, call, client, faults>>

Idle == [op |-> "none", at |-> "idle", g |-> None, a |-> None, p |-> None, dead |-> FALSE]
Nothing == [code |-> None, pair |-> None, refused |-> FALSE, waits |-> None]

Init ==
    /\ grant = [g \in Grants |-> "current"]
    /\ owner = [a \in Families |-> None]
    /\ revoked = [a \in Families |-> FALSE]
    /\ code = [a \in Families |-> "none"]
    /\ family = [p \in Pairs |-> None]
    /\ origin = [p \in Pairs |-> None]
    /\ refresh = [p \in Pairs |-> "live"]
    /\ access = [p \in Pairs |-> "live"]
    /\ call = [k \in Calls |-> Idle]
    /\ client = [g \in Grants |-> Nothing]
    /\ faults = 0
-----------------------------------------------------------------------------
(* Rows *)

FamiliesOf(g) == {a \in Families : owner[a] = g}

\* revoke_grant_authorizations_in_transaction, revoke_authorization
RevokedAll(A) == [a \in Families |-> a \in A \/ revoked[a]]

NewFamily(a) == a \in Families /\ owner[a] = None /\ \A b \in 1..(a - 1) : owner[b] # None
NewPair(p) == p \in Pairs /\ family[p] = None /\ \A q \in 1..(p - 1) : family[q] # None

\* insert an access and a refresh token
InsertPair(p, a, from) ==
    /\ NewPair(p)
    /\ family' = [family EXCEPT ![p] = a]
    /\ origin' = [origin EXCEPT ![p] = from]

At(k, op, step) == call[k].op = op /\ call[k].at = step
Goto(k, step) == call' = [call EXCEPT ![k].at = step]
GotoWith(k, step, a, p) == call' = [call EXCEPT ![k].at = step, ![k].a = a, ![k].p = p]
-----------------------------------------------------------------------------
(* The grant's own life, in RoomTable *)

\* AIControllerGrantRepository, M04BSeatRepository, M04BSessionRepository
RevokeGrant(g) ==
    /\ grant[g] # "revoked"
    /\ grant' = [grant EXCEPT ![g] = "revoked"]
    /\ revoked' = RevokedAll(FamiliesOf(g))
    /\ UNCHANGED <<owner, code, family, origin, refresh, access, call, client, faults>>

\* CampaignRepository._revoke_unbound_ai_dm_grants: the families stay as they are
RevokeGrantOnly(g) ==
    /\ grant[g] # "revoked"
    /\ grant' = [grant EXCEPT ![g] = "revoked"]
    /\ UNCHANGED <<rows, call, client, faults>>

LapseGrant(g) ==
    /\ grant[g] = "current"
    /\ grant' = [grant EXCEPT ![g] = "lapsed"]
    /\ UNCHANGED <<rows, call, client, faults>>
-----------------------------------------------------------------------------
(* The steps the endpoints share *)

\* mutant: the family's own rows are enough, the grant is not asked
TrustFamily(k, next, denied) ==
    /\ Goto(k, IF call[k].a # None /\ revoked[call[k].a] THEN denied ELSE next)
    /\ UNCHANGED <<grant, rows, client, faults>>

\* authenticate_grant(touch=True): a grant that is out of scope is revoked, its
\* families with it
Validate(k, next, denied) ==
    LET g == call[k].g
    IN /\ Goto(k, IF grant[g] = "current" THEN next ELSE denied)
       /\ grant' = [grant EXCEPT ![g] = IF @ = "lapsed" THEN "revoked" ELSE @]
       /\ revoked' = IF grant[g] = "lapsed" THEN RevokedAll(FamiliesOf(g)) ELSE revoked
       /\ UNCHANGED <<owner, code, family, origin, refresh, access, client, faults>>

\* revoke_authorization, before the refusal
Kill(k) ==
    /\ call[k].at = "kill"
    /\ revoked' = RevokedAll({call[k].a})
    /\ Goto(k, "denied")
    /\ UNCHANGED <<grant, owner, code, family, origin, refresh, access, client, faults>>
-----------------------------------------------------------------------------
(* authorize_post *)

AuthorizeValidate(k) == At(k, "authorize", "validate") /\ Validate(k, "replace", "denied")

\* mutant: the families before it are kept
AddFamily(k, a) ==
    /\ owner' = [owner EXCEPT ![a] = call[k].g]
    /\ GotoWith(k, "code", a, None)
    /\ UNCHANGED <<grant, revoked, code, family, origin, refresh, access, client, faults>>

\* mutant: the row is inserted first and revoked with the others
ReplaceEveryFamily(k, a) ==
    /\ owner' = [owner EXCEPT ![a] = call[k].g]
    /\ revoked' = RevokedAll(FamiliesOf(call[k].g) \cup {a})
    /\ GotoWith(k, "code", a, None)
    /\ UNCHANGED <<grant, code, family, origin, refresh, access, client, faults>>

\* mutant: the others are revoked, the row is not inserted
ReplaceWithNothing(k, a) ==
    /\ revoked' = RevokedAll(FamiliesOf(call[k].g))
    /\ GotoWith(k, "code", a, None)
    /\ UNCHANGED <<grant, owner, code, family, origin, refresh, access, client, faults>>

ReplaceFamily(k, a) ==
    /\ owner' = [owner EXCEPT ![a] = call[k].g]
    /\ revoked' = RevokedAll(FamiliesOf(call[k].g))
    /\ GotoWith(k, "code", a, None)
    /\ UNCHANGED <<grant, code, family, origin, refresh, access, client, faults>>

\* replace_authorization_for_grant holds the grant's row
AuthorizeReplace(k) ==
    /\ At(k, "authorize", "replace")
    /\ \/ /\ grant[call[k].g] # "revoked"
          /\ \E a \in Families : NewFamily(a) /\ ReplaceFamily(k, a)
       \/ /\ grant[call[k].g] = "revoked"
          /\ Goto(k, "denied")
          /\ UNCHANGED <<grant, rows, client, faults>>

\* create_authorization_code
AuthorizeCode(k) ==
    /\ At(k, "authorize", "code")
    /\ code' = [code EXCEPT ![call[k].a] = "fresh"]
    /\ Goto(k, "ok")
    /\ UNCHANGED <<grant, owner, revoked, family, origin, refresh, access, client, faults>>
-----------------------------------------------------------------------------
(* _authorization_code_exchange *)

\* get_authorization_code
ExchangeReadCode(k) ==
    /\ At(k, "exchange", "read")
    /\ Goto(k, IF code[call[k].a] = "fresh" THEN "family" ELSE "denied")
    /\ UNCHANGED <<grant, rows, client, faults>>

\* get_authorization
ExchangeReadFamily(k) ==
    /\ At(k, "exchange", "family")
    /\ Goto(k, IF revoked[call[k].a] THEN "denied" ELSE "validate")
    /\ UNCHANGED <<grant, rows, client, faults>>

ExchangeValidate(k) == At(k, "exchange", "validate") /\ Validate(k, "consume", "kill")

\* mutant: the row is marked, who marked it first is not asked
MarkCode(k) ==
    /\ code' = [code EXCEPT ![call[k].a] = "consumed"]
    /\ Goto(k, "issue")

\* consume_authorization_code: one conditional UPDATE
ConsumeCode(k) ==
    /\ code' = [code EXCEPT ![call[k].a] = IF @ = "fresh" THEN "consumed" ELSE @]
    /\ Goto(k, IF code[call[k].a] = "fresh" THEN "issue" ELSE "denied")

ExchangeConsume(k) ==
    /\ At(k, "exchange", "consume")
    /\ ConsumeCode(k)
    /\ UNCHANGED <<grant, owner, revoked, family, origin, refresh, access, client, faults>>

\* issue_token_pair: a SELECT that locks nothing ...
ExchangeIssue(k) ==
    /\ At(k, "exchange", "issue")
    /\ Goto(k, IF revoked[call[k].a] THEN "denied" ELSE "insert")
    /\ UNCHANGED <<grant, rows, client, faults>>

\* ... and the INSERT, whatever became of the family since
ExchangeInsert(k) ==
    /\ At(k, "exchange", "insert")
    /\ \E p \in Pairs : InsertPair(p, call[k].a, None) /\ GotoWith(k, "ok", call[k].a, p)
    /\ UNCHANGED <<grant, owner, revoked, code, refresh, access, client, faults>>
-----------------------------------------------------------------------------
(* _refresh_exchange *)

\* get_token; the row read here decides after the next read
RefreshReadToken(k) ==
    /\ At(k, "refresh", "read")
    /\ Goto(k, CASE refresh[call[k].p] = "live"    -> "family"
                 [] refresh[call[k].p] = "spent"   -> "kill"
                 [] refresh[call[k].p] = "expired" -> "denied")
    /\ UNCHANGED <<grant, rows, client, faults>>

\* get_authorization
RefreshReadFamily(k) ==
    /\ At(k, "refresh", "family")
    /\ Goto(k, IF revoked[call[k].a] THEN "denied" ELSE "validate")
    /\ UNCHANGED <<grant, rows, client, faults>>

RefreshValidate(k) == At(k, "refresh", "validate") /\ Validate(k, "rotate", "kill")

\* replace_refresh_token holds the token's and the authorization's row
Rotate(k, p) ==
    /\ refresh[call[k].p] = "live"
    /\ ~revoked[call[k].a]
    /\ InsertPair(p, call[k].a, call[k].p)
    /\ refresh' = [refresh EXCEPT ![call[k].p] = "spent"]
    /\ GotoWith(k, "ok", call[k].a, p)
    /\ UNCHANGED <<grant, owner, revoked, code, access, client, faults>>

\* mutant: the second of two presentations is refused, and that is all
RefuseReplay(k) ==
    /\ refresh[call[k].p] = "spent"
    /\ Goto(k, "denied")
    /\ UNCHANGED <<grant, rows, client, faults>>

Replay(k) ==
    /\ refresh[call[k].p] = "spent"
    /\ revoked' = RevokedAll({call[k].a})
    /\ Goto(k, "denied")
    /\ UNCHANGED <<grant, owner, code, family, origin, refresh, access, client, faults>>

RefuseRefresh(k) ==
    /\ refresh[call[k].p] = "expired" \/ (refresh[call[k].p] = "live" /\ revoked[call[k].a])
    /\ Goto(k, "denied")
    /\ UNCHANGED <<grant, rows, client, faults>>

RefreshRotate(k) ==
    /\ At(k, "refresh", "rotate")
    /\ (\E p \in Pairs : Rotate(k, p)) \/ Replay(k) \/ RefuseRefresh(k)
-----------------------------------------------------------------------------
(* authenticate_request with an access token *)

\* resolve_active_access
UseResolve(k) ==
    /\ At(k, "use", "read")
    /\ Goto(k, IF access[call[k].p] = "live" /\ ~revoked[call[k].a] THEN "validate" ELSE "denied")
    /\ UNCHANGED <<grant, rows, client, faults>>

UseValidate(k) == At(k, "use", "validate") /\ Validate(k, "ok", "kill")

\* revoke_endpoint: revoke_token_family
Disconnect(k) ==
    /\ At(k, "revoke", "read")
    /\ revoked' = RevokedAll({call[k].a})
    /\ Goto(k, "ok")
    /\ UNCHANGED <<grant, owner, code, family, origin, refresh, access, client, faults>>

Serve(k) ==
    \/ AuthorizeValidate(k) \/ AuthorizeReplace(k) \/ AuthorizeCode(k)
    \/ ExchangeReadCode(k) \/ ExchangeReadFamily(k) \/ ExchangeValidate(k)
    \/ ExchangeConsume(k) \/ ExchangeIssue(k) \/ ExchangeInsert(k)
    \/ RefreshReadToken(k) \/ RefreshReadFamily(k) \/ RefreshValidate(k) \/ RefreshRotate(k)
    \/ UseResolve(k) \/ UseValidate(k) \/ Disconnect(k) \/ Kill(k)
-----------------------------------------------------------------------------
(* The client.  It authorizes when it holds nothing, exchanges a code at   *)
(* once, uses its access token until that is refused or over, and then     *)
(* refreshes.  It knows an answer it received, and repeats what was lost.  *)

FirstStep(op) == IF op = "authorize" THEN "validate" ELSE "read"

\* what is presented is dead already when the request comes in
DeadNow(op, g, a, p) ==
    \/ grant[g] # "current"
    \/ op # "authorize" /\ revoked[a]
    \/ op = "exchange" /\ code[a] # "fresh"
    \/ op = "refresh" /\ refresh[p] # "live"
    \/ op = "use" /\ access[p] # "live"

Begin(g, k, op, a, p) ==
    /\ call[k].at = "idle"
    /\ client[g].waits = None
    /\ call' = [call EXCEPT ![k] = [op |-> op, at |-> FirstStep(op), g |-> g, a |-> a, p |-> p,
                                   dead |-> DeadNow(op, g, a, p)]]
    /\ client' = [client EXCEPT ![g].waits = k]
    /\ UNCHANGED <<grant, rows>>

Authorize(g, k) ==
    /\ client[g].code = None /\ client[g].pair = None
    /\ Begin(g, k, "authorize", None, None)
    /\ UNCHANGED faults

Exchange(g, k) ==
    /\ client[g].code # None
    /\ Begin(g, k, "exchange", client[g].code, None)
    /\ UNCHANGED faults

TokenOver(g) == client[g].refused \/ access[client[g].pair] = "expired"

Use(g, k) ==
    /\ client[g].pair # None /\ ~TokenOver(g)
    /\ Begin(g, k, "use", family[client[g].pair], client[g].pair)
    /\ UNCHANGED faults

Refresh(g, k) ==
    /\ client[g].pair # None /\ TokenOver(g)
    /\ Begin(g, k, "refresh", family[client[g].pair], client[g].pair)
    /\ UNCHANGED faults

Revoke(g, k) ==
    /\ client[g].pair # None /\ faults < MaxFaults
    /\ Begin(g, k, "revoke", family[client[g].pair], client[g].pair)
    /\ faults' = faults + 1

Ask(g) == \E k \in Calls : Authorize(g, k) \/ Exchange(g, k) \/ Use(g, k) \/ Refresh(g, k)

\* what the client holds after the answer to call k
Learns(g, k) ==
    LET c == call[k]
    IN CASE c.op = "use" -> [client[g] EXCEPT !.refused = c.at = "denied", !.waits = None]
         [] c.op = "authorize" /\ c.at = "ok" -> [Nothing EXCEPT !.code = c.a]
         [] c.op \in {"exchange", "refresh"} /\ c.at = "ok" -> [Nothing EXCEPT !.pair = c.p]
         [] OTHER -> Nothing

\* the answer goes to a client that waits for it, or to nobody
Answer(k) ==
    /\ call[k].at \in {"ok", "denied"}
    /\ client' = [g \in Grants |-> IF client[g].waits = k THEN Learns(g, k) ELSE client[g]]
    /\ call' = [call EXCEPT ![k] = Idle]
    /\ UNCHANGED <<grant, rows, faults>>

\* the client gives up on the call, the server does not
LoseAnswer(g) ==
    /\ client[g].waits # None /\ faults < MaxFaults
    /\ client' = [client EXCEPT ![g].waits = None]
    /\ faults' = faults + 1
    /\ UNCHANGED <<grant, rows, call>>

\* the server stops between two transactions of every call
Crash ==
    /\ faults < MaxFaults
    /\ \E k \in Calls : call[k].at # "idle"
    /\ call' = [k \in Calls |-> Idle]
    /\ client' = [g \in Grants |-> [client[g] EXCEPT !.waits = None]]
    /\ faults' = faults + 1
    /\ UNCHANGED <<grant, rows>>

\* AUTHORIZATION_CODE_TTL, ACCESS_TOKEN_TTL, REFRESH_TOKEN_TTL
Expire ==
    /\ faults < MaxFaults
    /\ faults' = faults + 1
    /\ \/ /\ \E a \in Families : code[a] = "fresh" /\ code' = [code EXCEPT ![a] = "expired"]
          /\ UNCHANGED <<refresh, access>>
       \/ /\ \E p \in Pairs : /\ family[p] # None /\ access[p] = "live"
                              /\ access' = [access EXCEPT ![p] = "expired"]
          /\ UNCHANGED <<code, refresh>>
       \/ /\ \E p \in Pairs : /\ family[p] # None /\ refresh[p] = "live"
                              /\ refresh' = [refresh EXCEPT ![p] = "expired"]
          /\ UNCHANGED <<code, access>>
    /\ UNCHANGED <<grant, owner, revoked, family, origin, call, client>>

Next ==
    \/ \E k \in Calls : Serve(k) \/ Answer(k)
    \/ \E g \in Grants :
          \/ Ask(g) \/ LoseAnswer(g)
          \/ RevokeGrant(g) \/ RevokeGrantOnly(g) \/ LapseGrant(g)
          \/ \E k \in Calls : Revoke(g, k)
    \/ Crash \/ Expire

Spec == Init /\ [][Next]_vars

\* the server runs its calls and answers them; the client goes on asking
FairSpec ==
    /\ Spec
    /\ \A k \in Calls : WF_vars(Serve(k)) /\ WF_vars(Answer(k))
    /\ \A g \in Grants : WF_vars(Ask(g))
-----------------------------------------------------------------------------
(* Properties *)

Steps == {"idle", "validate", "replace", "code", "read", "family", "consume", "issue", "insert",
          "rotate", "kill", "ok", "denied"}

CallRecords ==
    [op : {"none", "authorize", "exchange", "refresh", "use", "revoke"}, at : Steps,
     g : GrantIds, a : Families \cup {None}, p : Origins, dead : BOOLEAN]

ClientRecords ==
    [code : Families \cup {None}, pair : Origins, refused : BOOLEAN, waits : CallIds]

RowsTyped ==
    /\ grant \in [Grants -> {"current", "lapsed", "revoked"}]
    /\ owner \in [Families -> GrantIds]
    /\ revoked \in [Families -> BOOLEAN]
    /\ code \in [Families -> {"none", "fresh", "consumed", "expired"}]
    /\ family \in [Pairs -> Families \cup {None}]
    /\ origin \in [Pairs -> Origins]
    /\ refresh \in [Pairs -> {"live", "spent", "expired"}]
    /\ access \in [Pairs -> {"live", "expired"}]

ForeignKeys ==
    \A a \in Families : owner[a] = None => code[a] = "none" /\ \A p \in Pairs : family[p] # a

\* Types: a code's and a token's authorization exists (foreign keys).
TypeOK ==
    /\ RowsTyped
    /\ ForeignKeys
    /\ call \in [Calls -> CallRecords]
    /\ client \in [Grants -> ClientRecords]
    /\ faults \in Nat

\* A family's tokens are one chain: its code and each of its refresh tokens were
\* exchanged for at most one pair, however the copies of a request interleave
\* (consume_authorization_code, replace_refresh_token).
TokensFormAChain ==
    \A p, q \in Pairs :
        family[p] # None /\ family[p] = family[q] /\ origin[p] = origin[q] => p = q

\* Nothing is honoured that was dead when it was presented: a code or refresh
\* token used up, a family revoked, a grant revoked or out of scope, with or
\* without its families (_authorization_code_exchange, _refresh_exchange,
\* authenticate_request).
DeadIsRefused ==
    \A k \in Calls : call[k].at = "ok" /\ call[k].op # "revoke" => ~call[k].dead

\* A refresh token that is refused before its time ends its family, so that a
\* copy of the family in other hands ends with it (_refresh_exchange,
\* replace_refresh_token).
RefusalEndsFamily ==
    \A k \in Calls :
        At(k, "refresh", "denied") => revoked[call[k].a] \/ refresh[call[k].p] = "expired"

\* A grant has one family at most that is not revoked
\* (replace_authorization_for_grant; uq_ai_oauth_authorizations_active_grant).
OneFamilyPerGrant ==
    \A a, b \in Families : owner[a] # None /\ owner[a] = owner[b] /\ ~revoked[a] /\ ~revoked[b] => a = b

\* One chain per family, one family per grant: of all copies of a code or a
\* token at most one leads on.
OneChainPerGrant == TokensFormAChain /\ OneFamilyPerGrant

\* the families whose first pair was found allowed and is not yet inserted
Due == {a \in Families : \E k \in Calls : At(k, "exchange", "insert") /\ call[k].a = a}

\* Whatever copies of requests, Disconnects, restarts and ends of grants overlap,
\* the authorizations are CredentialChains: a code and each refresh token have
\* one exchange at most; a family that is revoked gets no further pair, except
\* the one for its code when the family was found in force before it was revoked
\* (issue_token_pair reads without a lock), and that pair leads to no other; a
\* Connect ends the families before it in the step that adds its own, and no
\* family is added to a grant that is revoked (replace_authorization_for_grant,
\* replace_refresh_token).
Ledger == INSTANCE CredentialChains WITH
    Chains <- Families, Credentials <- Pairs,
    over <- {g \in Grants : grant[g] = "revoked"}, holder <- owner,
    ended <- {a \in Families : revoked[a]}, chain <- family, from <- origin, due <- Due

ImplementsChains == Ledger!Spec

Connected(g) ==
    LET p == client[g].pair
    IN p # None /\ access[p] = "live" /\ ~revoked[family[p]]

\* As long as its grant is current, a client ends up with an access token that
\* works, whatever was lost, expired, disconnected or cut off by a restart:
\* between consuming a code and issuing its tokens, or with the answer to a
\* refresh, whose repetition revokes the family.
Reconnects == \A g \in Grants : <>[](Connected(g) \/ grant[g] # "current")
=============================================================================
