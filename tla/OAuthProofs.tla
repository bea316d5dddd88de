----------------------------- MODULE OAuthProofs -----------------------------
(***************************************************************************)
(* Type correctness and the safety of OAuthFamilies, and that it           *)
(* implements CredentialChains, for any number of grants, calls under way, *)
(* families and tokens.                                                    *)
(***************************************************************************)
EXTENDS OAuthFamilies, TLAPS

USE DEF Origins, GrantIds, CallIds

LEMMA NoneApart ==
    None \notin Grants /\ None \notin Calls /\ None \notin Families /\ None \notin Pairs
BY OAuthAssumption DEF None, Families, Pairs

\* what a call and a client name exists, and belongs together
CallSound(c) ==
    /\ c.op = "none" <=> c.at = "idle"
    /\ c.at # "idle" => c.g \in Grants
    /\ c.op = "authorize" => c.at \in {"validate", "replace", "code", "ok", "denied"}
    /\ c.op = "authorize" /\ c.at \in {"code", "ok"} => c.a \in Families /\ owner[c.a] # None
    /\ c.op = "authorize" /\ c.at = "ok" => code[c.a] # "none"
    /\ c.op \in {"exchange", "refresh", "use", "revoke"} => c.a \in Families /\ owner[c.a] # None
    /\ c.op = "exchange" => code[c.a] # "none"
    /\ c.op = "exchange" /\ c.at = "ok" => c.p \in Pairs /\ family[c.p] = c.a
    /\ c.op \in {"refresh", "use", "revoke"} => c.p \in Pairs /\ family[c.p] = c.a

ClientSound(h) ==
    /\ h.code # None => owner[h.code] # None /\ code[h.code] # "none"
    /\ h.pair # None => family[h.pair] \in Families

Safe ==
    /\ TypeOK
    /\ \A k \in Calls : CallSound(call[k])
    /\ \A g \in Grants : ClientSound(client[g])
-----------------------------------------------------------------------------
(* How a step moves the call it belongs to *)

LEMMA RevokedAllIs ==
    ASSUME RowsTyped, NEW A
    PROVE  /\ RevokedAll(A) \in [Families -> BOOLEAN]
           /\ \A a \in Families : RevokedAll(A)[a] <=> a \in A \/ revoked[a]
BY Zenon DEF RowsTyped, RevokedAll

\* step, family and pair of call k change, the other calls and the rest of k do not
Moved(k, step, a, p) ==
    /\ call' \in [Calls -> CallRecords]
    /\ call'[k].at = step /\ call'[k].a = a /\ call'[k].p = p
    /\ call'[k].op = call[k].op /\ call'[k].g = call[k].g /\ call'[k].dead = call[k].dead
    /\ \A j \in Calls : j # k => call'[j] = call[j]

LEMMA GotoMoves ==
    ASSUME TypeOK, NEW k \in Calls, NEW step \in Steps, Goto(k, step)
    PROVE  Moved(k, step, call[k].a, call[k].p)
<1>1. call \in [Calls -> CallRecords]
      BY DEF TypeOK
<1> QED
    BY <1>1 DEF Moved, Goto, CallRecords

LEMMA GotoWithMoves ==
    ASSUME TypeOK, NEW k \in Calls, NEW step \in Steps,
           NEW a \in Families \cup {None}, NEW p \in Origins, GotoWith(k, step, a, p)
    PROVE  Moved(k, step, a, p)
<1>1. call \in [Calls -> CallRecords]
      BY DEF TypeOK
<1> QED
    BY <1>1 DEF Moved, GotoWith, CallRecords

Begun(g, k, op, a, p) ==
    /\ call[k].at = "idle"
    /\ call' \in [Calls -> CallRecords]
    /\ call'[k].op = op /\ call'[k].at = FirstStep(op)
    /\ call'[k].g = g /\ call'[k].a = a /\ call'[k].p = p
    /\ call'[k].dead <=> DeadNow(op, g, a, p)
    /\ \A j \in Calls : j # k => call'[j] = call[j]
    /\ client' \in [Grants -> ClientRecords]
    /\ \A h \in Grants : client'[h].code = client[h].code /\ client'[h].pair = client[h].pair
    /\ UNCHANGED <<grant, rows>>

LEMMA WaitsTyped ==
    ASSUME TypeOK, NEW g \in Grants, NEW w \in CallIds, client' = [client EXCEPT ![g].waits = w]
    PROVE  /\ client' \in [Grants -> ClientRecords]
           /\ \A h \in Grants : client'[h].code = client[h].code /\ client'[h].pair = client[h].pair
<1>1. client \in [Grants -> ClientRecords]
      BY DEF TypeOK
<1> QED
    BY <1>1 DEF ClientRecords

LEMMA BeginBegins ==
    ASSUME TypeOK, NEW g \in Grants, NEW k \in Calls, NEW a \in Families \cup {None}, NEW p \in Origins,
           NEW op \in {"authorize", "exchange", "refresh", "use", "revoke"}, Begin(g, k, op, a, p)
    PROVE  Begun(g, k, op, a, p)
<1>1. DeadNow(op, g, a, p) \in BOOLEAN
      BY DEF DeadNow
<1>2. FirstStep(op) \in Steps
      BY DEF FirstStep, Steps
<1> DEFINE c == [op |-> op, at |-> FirstStep(op), g |-> g, a |-> a, p |-> p, dead |-> DeadNow(op, g, a, p)]
<1>3. c \in CallRecords
      BY <1>1, <1>2, Zenon DEF CallRecords
<1>4. call' = [call EXCEPT ![k] = c] /\ call[k].at = "idle"
      BY DEF Begin
<1>5. client' = [client EXCEPT ![g].waits = k] /\ UNCHANGED <<grant, rows>>
      BY DEF Begin
<1>6. /\ client' \in [Grants -> ClientRecords]
      /\ \A h \in Grants : client'[h].code = client[h].code /\ client'[h].pair = client[h].pair
      BY <1>5, WaitsTyped
<1>7. /\ c.op = op /\ c.at = FirstStep(op) /\ c.g = g /\ c.a = a /\ c.p = p
      /\ c.dead <=> DeadNow(op, g, a, p)
      OBVIOUS
<1> HIDE DEF c
<1>8. call' \in [Calls -> CallRecords] /\ call'[k] = c /\ \A j \in Calls : j # k => call'[j] = call[j]
      BY <1>3, <1>4 DEF TypeOK
<1> QED
    BY <1>4, <1>5, <1>6, <1>7, <1>8 DEF Begun

Over(g) == grant' = [grant EXCEPT ![g] = "revoked"]

\* what authenticate_grant leaves behind
Validated(k, next, denied) ==
    /\ Moved(k, IF grant[call[k].g] = "current" THEN next ELSE denied, call[k].a, call[k].p)
    /\ grant' \in [Grants -> {"current", "lapsed", "revoked"}]
    /\ \A g \in Grants : grant'[g] = "current" <=> grant[g] = "current"
    /\ revoked' \in [Families -> BOOLEAN]
    /\ \A a \in Families : revoked[a] => revoked'[a]
    /\ \/ UNCHANGED <<grant, revoked>>
       \/ Over(call[k].g) /\ revoked' = RevokedAll(FamiliesOf(call[k].g))
    /\ UNCHANGED <<owner, code, family, origin, refresh, access, client, faults>>

LEMMA ValidateMoves ==
    ASSUME Safe, NEW k \in Calls, call[k].at # "idle", NEW next \in Steps, NEW denied \in Steps,
           Validate(k, next, denied)
    PROVE  Validated(k, next, denied)
<1>1. TypeOK /\ RowsTyped /\ call[k].g \in Grants
      BY DEF Safe, TypeOK, CallSound
<1> DEFINE step == IF grant[call[k].g] = "current" THEN next ELSE denied
<1>2. step \in Steps /\ Goto(k, step)
      BY DEF Validate
<1>3. Moved(k, step, call[k].a, call[k].p)
      BY <1>1, <1>2, GotoMoves
<1>4. grant' = [grant EXCEPT ![call[k].g] = IF @ = "lapsed" THEN "revoked" ELSE @]
      BY DEF Validate
<1>5. revoked' = RevokedAll(FamiliesOf(call[k].g)) \/ revoked' = revoked
      BY DEF Validate
<1>6. /\ revoked' \in [Families -> BOOLEAN]
      /\ \A a \in Families : revoked[a] => revoked'[a]
      BY <1>1, <1>5, RevokedAllIs DEF RowsTyped
<1>7. /\ grant' \in [Grants -> {"current", "lapsed", "revoked"}]
      /\ \A g \in Grants : grant'[g] = "current" <=> grant[g] = "current"
      BY <1>1, <1>4 DEF RowsTyped
<1>8. \/ UNCHANGED <<grant, revoked>>
      \/ Over(call[k].g) /\ revoked' = RevokedAll(FamiliesOf(call[k].g))
      BY <1>1, <1>4 DEF Over, Validate, RowsTyped
<1> QED
    BY <1>3, <1>6, <1>7, <1>8 DEF Validated, Validate

\* revoke_authorization, revoke_token_family
Revoking(k, step) ==
    /\ Moved(k, step, call[k].a, call[k].p)
    /\ revoked' \in [Families -> BOOLEAN]
    /\ \A a \in Families : revoked'[a] <=> a = call[k].a \/ revoked[a]
    /\ UNCHANGED <<grant, owner, code, family, origin, refresh, access, client, faults>>

LEMMA RevokingMoves ==
    ASSUME TypeOK, NEW k \in Calls, NEW step \in Steps, Goto(k, step), revoked' = RevokedAll({call[k].a}),
           UNCHANGED <<grant, owner, code, family, origin, refresh, access, client, faults>>
    PROVE  Revoking(k, step)
BY GotoMoves, RevokedAllIs DEF Revoking, TypeOK

\* a read, or a refusal
Read(k, step) ==
    /\ Moved(k, step, call[k].a, call[k].p)
    /\ UNCHANGED <<grant, rows, client, faults>>

LEMMA ReadMoves ==
    ASSUME TypeOK, NEW k \in Calls, NEW step \in Steps, Goto(k, step), UNCHANGED <<grant, rows, client, faults>>
    PROVE  Read(k, step)
BY GotoMoves DEF Read

Replaced(k, a) ==
    /\ owner[a] = None /\ call[k].g \in Grants /\ grant[call[k].g] # "revoked"
    /\ owner' = [owner EXCEPT ![a] = call[k].g]
    /\ revoked' \in [Families -> BOOLEAN]
    /\ \A b \in Families : revoked'[b] <=> owner[b] = call[k].g \/ revoked[b]
    /\ Moved(k, "code", a, None)
    /\ UNCHANGED <<grant, code, family, origin, refresh, access, client, faults>>

LEMMA ReplaceMoves ==
    ASSUME Safe, NEW k \in Calls, AuthorizeReplace(k)
    PROVE  (\E a \in Families : Replaced(k, a)) \/ Read(k, "denied")
<1>1. TypeOK /\ RowsTyped /\ call[k].g \in Grants
      BY DEF Safe, TypeOK, CallSound, AuthorizeReplace, At
<1>2. ASSUME NEW a \in Families, NewFamily(a), ReplaceFamily(k, a), grant[call[k].g] # "revoked"
      PROVE  Replaced(k, a)
  <2>1. Moved(k, "code", a, None)
        BY <1>1, <1>2, GotoWithMoves DEF ReplaceFamily, Steps
  <2>2. /\ revoked' \in [Families -> BOOLEAN]
        /\ \A b \in Families : revoked'[b] <=> owner[b] = call[k].g \/ revoked[b]
        BY <1>1, <1>2, RevokedAllIs DEF ReplaceFamily, FamiliesOf
  <2> QED
      BY <1>1, <1>2, <2>1, <2>2 DEF Replaced, ReplaceFamily, NewFamily
<1>3. ASSUME Goto(k, "denied"), UNCHANGED <<grant, rows, client, faults>>
      PROVE  Read(k, "denied")
      BY <1>1, <1>3, ReadMoves DEF Steps
<1> QED
    BY <1>2, <1>3 DEF AuthorizeReplace

\* a pair is issued for a code (from None) or for another pair's refresh token
Issued(k, p, from) ==
    /\ family[p] = None
    /\ family' = [family EXCEPT ![p] = call[k].a]
    /\ origin' = [origin EXCEPT ![p] = from]
    /\ Moved(k, "ok", call[k].a, p)
    /\ UNCHANGED <<grant, owner, revoked, code, access, client, faults>>

LEMMA InsertMoves ==
    ASSUME Safe, NEW k \in Calls, ExchangeInsert(k)
    PROVE  (\E p \in Pairs : Issued(k, p, None)) /\ refresh' = refresh
<1>1. TypeOK /\ call[k].a \in Families \cup {None}
      BY DEF Safe, TypeOK, CallRecords
<1>2. ASSUME NEW p \in Pairs, InsertPair(p, call[k].a, None), GotoWith(k, "ok", call[k].a, p),
             UNCHANGED <<grant, owner, revoked, code, refresh, access, client, faults>>
      PROVE  Issued(k, p, None)
  <2>1. Moved(k, "ok", call[k].a, p)
        BY <1>1, <1>2, GotoWithMoves DEF Steps
  <2> QED
      BY <1>2, <2>1 DEF Issued, InsertPair, NewPair
<1> QED
    BY <1>2 DEF ExchangeInsert

LEMMA RotateMoves ==
    ASSUME Safe, NEW k \in Calls, RefreshRotate(k)
    PROVE  \/ /\ \E p \in Pairs : Issued(k, p, call[k].p)
              /\ refresh[call[k].p] = "live" /\ ~revoked[call[k].a]
              /\ refresh' = [refresh EXCEPT ![call[k].p] = "spent"]
           \/ Revoking(k, "denied")
           \/ /\ Read(k, "denied")
              /\ refresh[call[k].p] = "expired" \/ revoked[call[k].a]
<1>1. TypeOK /\ call[k].a \in Families \cup {None}
      BY DEF Safe, TypeOK, CallRecords
<1>2. ASSUME NEW p \in Pairs, Rotate(k, p)
      PROVE  Issued(k, p, call[k].p)
  <2>1. Moved(k, "ok", call[k].a, p)
        BY <1>1, <1>2, GotoWithMoves DEF Steps, Rotate
  <2> QED
      BY <1>2, <2>1 DEF Issued, InsertPair, NewPair, Rotate
<1>3. Replay(k) => Revoking(k, "denied")
      BY <1>1, RevokingMoves DEF Replay, Steps
<1>4. RefuseRefresh(k) => Read(k, "denied")
      BY <1>1, ReadMoves DEF RefuseRefresh, Steps
<1> QED
    BY <1>2, <1>3, <1>4 DEF RefreshRotate, Rotate, RefuseRefresh

Answered(k) ==
    /\ call[k].at \in {"ok", "denied"}
    /\ call' \in [Calls -> CallRecords] /\ call'[k] = Idle
    /\ \A j \in Calls : j # k => call'[j] = call[j]
    /\ client' \in [Grants -> ClientRecords]
    /\ \A g \in Grants :
          \/ client'[g].code \in {client[g].code, None} /\ client'[g].pair \in {client[g].pair, None}
          \/ /\ call[k].op = "authorize" /\ call[k].at = "ok"
             /\ client'[g].code = call[k].a /\ client'[g].pair = None
          \/ /\ call[k].op \in {"exchange", "refresh"} /\ call[k].at = "ok"
             /\ client'[g].code = None /\ client'[g].pair = call[k].p
    /\ UNCHANGED <<grant, rows, faults>>

LEMMA AnswerMoves ==
    ASSUME TypeOK, NEW k \in Calls, Answer(k)
    PROVE  Answered(k)
<1>1. Idle \in CallRecords
      BY DEF Idle, CallRecords, Steps
<1> DEFINE Outcome(g, h) ==
      /\ h \in ClientRecords
      /\ \/ h.code \in {client[g].code, None} /\ h.pair \in {client[g].pair, None}
         \/ call[k].op = "authorize" /\ call[k].at = "ok" /\ h.code = call[k].a /\ h.pair = None
         \/ /\ call[k].op \in {"exchange", "refresh"} /\ call[k].at = "ok"
            /\ h.code = None /\ h.pair = call[k].p
<1>2. ASSUME NEW g \in Grants
      PROVE  Outcome(g, Learns(g, k))
  <2>1. call[k].a \in Families \cup {None} /\ call[k].p \in Origins /\ client[g] \in ClientRecords
        BY DEF TypeOK, CallRecords
  <2>2. CASE call[k].op = "use"
        BY <2>1, <2>2 DEF Learns, ClientRecords
  <2>3. CASE call[k].op = "authorize" /\ call[k].at = "ok"
        BY <2>1, <2>3 DEF Learns, ClientRecords, Nothing
  <2>4. CASE call[k].op \in {"exchange", "refresh"} /\ call[k].at = "ok"
        BY <2>1, <2>4 DEF Learns, ClientRecords, Nothing
  <2>5. CASE /\ call[k].op # "use"
             /\ ~(call[k].op = "authorize" /\ call[k].at = "ok")
             /\ ~(call[k].op \in {"exchange", "refresh"} /\ call[k].at = "ok")
        BY <2>1, <2>5 DEF Learns, ClientRecords, Nothing
  <2> QED
      BY <2>2, <2>3, <2>4, <2>5
<1>3. /\ call' = [call EXCEPT ![k] = Idle]
      /\ client' = [g \in Grants |-> IF client[g].waits = k THEN Learns(g, k) ELSE client[g]]
      BY DEF Answer
<1>4. ASSUME NEW g \in Grants
      PROVE  Outcome(g, client'[g])
      BY <1>2, <1>3 DEF TypeOK
<1>5. client' = [g \in Grants |-> client'[g]]
      BY <1>3
<1>6. client' \in [Grants -> ClientRecords]
      BY <1>4, <1>5
<1>7. call' \in [Calls -> CallRecords] /\ call'[k] = Idle /\ \A j \in Calls : j # k => call'[j] = call[j]
      BY <1>1, <1>3 DEF TypeOK
<1> QED
    BY <1>4, <1>6, <1>7 DEF Answer, Answered

\* create_authorization_code, consume_authorization_code
CodeSet(k, step, value) ==
    /\ Moved(k, step, call[k].a, call[k].p)
    /\ code' = [code EXCEPT ![call[k].a] = value]
    /\ UNCHANGED <<grant, owner, revoked, family, origin, refresh, access, client, faults>>

\* every step of a call, by where the call stands
LEMMA ServeMoves ==
    ASSUME Safe, NEW k \in Calls, Serve(k)
    PROVE  \/ At(k, "authorize", "validate") /\ Validated(k, "replace", "denied")
           \/ At(k, "authorize", "replace") /\ ((\E a \in Families : Replaced(k, a)) \/ Read(k, "denied"))
           \/ At(k, "authorize", "code") /\ CodeSet(k, "ok", "fresh")
           \/ At(k, "exchange", "read") /\ code[call[k].a] = "fresh" /\ Read(k, "family")
           \/ At(k, "exchange", "family") /\ ~revoked[call[k].a] /\ Read(k, "validate")
           \/ At(k, "exchange", "validate") /\ Validated(k, "consume", "kill")
           \/ At(k, "exchange", "consume") /\ code[call[k].a] = "fresh" /\ CodeSet(k, "issue", "consumed")
           \/ At(k, "exchange", "issue") /\ ~revoked[call[k].a] /\ Read(k, "insert")
           \/ /\ At(k, "exchange", "insert")
              /\ (\E p \in Pairs : Issued(k, p, None)) /\ refresh' = refresh
           \/ At(k, "refresh", "read") /\ refresh[call[k].p] = "live" /\ Read(k, "family")
           \/ At(k, "refresh", "read") /\ Read(k, "kill")
           \/ /\ call[k].op = "refresh" /\ Read(k, "denied")
              /\ refresh[call[k].p] = "expired" \/ revoked[call[k].a]
           \/ At(k, "refresh", "family") /\ ~revoked[call[k].a] /\ Read(k, "validate")
           \/ At(k, "refresh", "validate") /\ Validated(k, "rotate", "kill")
           \/ /\ At(k, "refresh", "rotate")
              /\ \E p \in Pairs : Issued(k, p, call[k].p)
              /\ refresh[call[k].p] = "live" /\ ~revoked[call[k].a]
              /\ refresh' = [refresh EXCEPT ![call[k].p] = "spent"]
           \/ /\ At(k, "use", "read") /\ Read(k, "validate")
              /\ access[call[k].p] = "live" /\ ~revoked[call[k].a]
           \/ At(k, "use", "validate") /\ Validated(k, "ok", "kill")
           \/ At(k, "revoke", "read") /\ Revoking(k, "ok")
           \/ call[k].op \in {"exchange", "use"} /\ call[k].at # "insert" /\ Read(k, "denied")
           \/ (At(k, "refresh", "rotate") \/ call[k].at = "kill") /\ Revoking(k, "denied")
<1>0. TypeOK /\ call[k].at # "idle" /\ RowsTyped
      BY DEF Safe, TypeOK, CallSound, Serve, AuthorizeValidate, AuthorizeReplace, AuthorizeCode,
         ExchangeReadCode, ExchangeReadFamily, ExchangeValidate, ExchangeConsume, ExchangeIssue, ExchangeInsert,
         RefreshReadToken, RefreshReadFamily, RefreshValidate, RefreshRotate, UseResolve, UseValidate,
         Disconnect, Kill, At
<1> USE <1>0 DEF At, Steps
<1>1. AuthorizeValidate(k) => At(k, "authorize", "validate") /\ Validated(k, "replace", "denied")
      BY ValidateMoves DEF AuthorizeValidate
<1>2. AuthorizeReplace(k) =>
          At(k, "authorize", "replace") /\ ((\E a \in Families : Replaced(k, a)) \/ Read(k, "denied"))
      BY ReplaceMoves DEF AuthorizeReplace
<1>3. AuthorizeCode(k) => At(k, "authorize", "code") /\ CodeSet(k, "ok", "fresh")
      BY GotoMoves DEF AuthorizeCode, CodeSet
<1>4. ExchangeReadCode(k) =>
          \/ At(k, "exchange", "read") /\ code[call[k].a] = "fresh" /\ Read(k, "family")
          \/ call[k].op = "exchange" /\ call[k].at # "insert" /\ Read(k, "denied")
      BY ReadMoves DEF ExchangeReadCode
<1>5. ExchangeReadFamily(k) =>
          \/ At(k, "exchange", "family") /\ ~revoked[call[k].a] /\ Read(k, "validate")
          \/ call[k].op = "exchange" /\ call[k].at # "insert" /\ Read(k, "denied")
      BY ReadMoves DEF ExchangeReadFamily
<1>6. ExchangeValidate(k) => At(k, "exchange", "validate") /\ Validated(k, "consume", "kill")
      BY ValidateMoves DEF ExchangeValidate
<1>7. ExchangeConsume(k) =>
          \/ At(k, "exchange", "consume") /\ code[call[k].a] = "fresh" /\ CodeSet(k, "issue", "consumed")
          \/ call[k].op = "exchange" /\ call[k].at # "insert" /\ Read(k, "denied")
  <2>1. ASSUME ExchangeConsume(k), code[call[k].a] = "fresh"
        PROVE  At(k, "exchange", "consume") /\ CodeSet(k, "issue", "consumed")
        BY <2>1, GotoMoves DEF ExchangeConsume, ConsumeCode, CodeSet
  <2>2. ASSUME ExchangeConsume(k), code[call[k].a] # "fresh"
        PROVE  call[k].op = "exchange" /\ call[k].at # "insert" /\ Read(k, "denied")
    <3>1. code' = code
          BY <2>2 DEF ExchangeConsume, ConsumeCode, RowsTyped
    <3> QED
        BY <2>2, <3>1, ReadMoves DEF ExchangeConsume, ConsumeCode, rows
  <2> QED
      BY <2>1, <2>2
<1>8. /\ ExchangeIssue(k) =>
             \/ At(k, "exchange", "issue") /\ ~revoked[call[k].a] /\ Read(k, "insert")
             \/ call[k].op = "exchange" /\ call[k].at # "insert" /\ Read(k, "denied")
      /\ ExchangeInsert(k) =>
             At(k, "exchange", "insert") /\ (\E p \in Pairs : Issued(k, p, None)) /\ refresh' = refresh
      BY ReadMoves, InsertMoves DEF ExchangeIssue, ExchangeInsert
<1>9. RefreshReadToken(k) =>
          \/ At(k, "refresh", "read") /\ refresh[call[k].p] = "live" /\ Read(k, "family")
          \/ At(k, "refresh", "read") /\ Read(k, "kill")
          \/ call[k].op = "refresh" /\ Read(k, "denied") /\ refresh[call[k].p] = "expired"
  <2>1. RefreshReadToken(k) => refresh[call[k].p] \in {"live", "spent", "expired"}
        BY DEF RefreshReadToken, Safe, CallSound, RowsTyped
  <2> QED
      BY <2>1, ReadMoves DEF RefreshReadToken
<1>10. RefreshReadFamily(k) =>
          \/ At(k, "refresh", "family") /\ ~revoked[call[k].a] /\ Read(k, "validate")
          \/ call[k].op = "refresh" /\ Read(k, "denied") /\ revoked[call[k].a]
      BY ReadMoves DEF RefreshReadFamily
<1>11. RefreshValidate(k) => At(k, "refresh", "validate") /\ Validated(k, "rotate", "kill")
      BY ValidateMoves DEF RefreshValidate
<1>12. RefreshRotate(k) =>
          \/ /\ At(k, "refresh", "rotate")
             /\ \E p \in Pairs : Issued(k, p, call[k].p)
             /\ refresh[call[k].p] = "live" /\ ~revoked[call[k].a]
             /\ refresh' = [refresh EXCEPT ![call[k].p] = "spent"]
          \/ At(k, "refresh", "rotate") /\ Revoking(k, "denied")
          \/ /\ call[k].op = "refresh" /\ Read(k, "denied")
             /\ refresh[call[k].p] = "expired" \/ revoked[call[k].a]
      BY RotateMoves DEF RefreshRotate
<1>13. UseResolve(k) =>
          \/ /\ At(k, "use", "read") /\ Read(k, "validate")
             /\ access[call[k].p] = "live" /\ ~revoked[call[k].a]
          \/ call[k].op = "use" /\ call[k].at # "insert" /\ Read(k, "denied")
      BY ReadMoves DEF UseResolve
<1>14. UseValidate(k) => At(k, "use", "validate") /\ Validated(k, "ok", "kill")
      BY ValidateMoves DEF UseValidate
<1>15. Disconnect(k) => At(k, "revoke", "read") /\ Revoking(k, "ok")
      BY RevokingMoves DEF Disconnect
<1>16. Kill(k) => call[k].at = "kill" /\ Revoking(k, "denied")
      BY RevokingMoves DEF Kill
<1> HIDE DEF At
<1> QED
    BY <1>1, <1>2, <1>3, <1>4, <1>5, <1>6, <1>7, <1>8, <1>9, <1>10, <1>11, <1>12, <1>13, <1>14, <1>15,
       <1>16 DEF Serve

LEMMA AskMoves ==
    ASSUME Safe, NEW g \in Grants, NEW k \in Calls,
           Authorize(g, k) \/ Exchange(g, k) \/ Use(g, k) \/ Refresh(g, k) \/ Revoke(g, k)
    PROVE  /\ faults' \in Nat
           /\ \/ Begun(g, k, "authorize", None, None)
              \/ /\ client[g].code # None
                 /\ Begun(g, k, "exchange", client[g].code, None)
              \/ /\ client[g].pair # None
                 /\ \E op \in {"use", "refresh", "revoke"} :
                       Begun(g, k, op, family[client[g].pair], client[g].pair)
<1>1. TypeOK /\ client[g].code \in Families \cup {None} /\ client[g].pair \in Origins
      BY DEF Safe, TypeOK, ClientRecords
<1>2. client[g].pair # None => family[client[g].pair] \in Families \cup {None}
      BY <1>1 DEF Safe, ClientSound
<1>3. faults \in Nat
      BY <1>1 DEF TypeOK
<1>4. Authorize(g, k) => Begun(g, k, "authorize", None, None)
      BY <1>1, BeginBegins DEF Authorize
<1>5. Exchange(g, k) => client[g].code # None /\ Begun(g, k, "exchange", client[g].code, None)
      BY <1>1, BeginBegins DEF Exchange
<1>6. ASSUME NEW op \in {"use", "refresh", "revoke"}, client[g].pair # None,
             Begin(g, k, op, family[client[g].pair], client[g].pair)
      PROVE  Begun(g, k, op, family[client[g].pair], client[g].pair)
      BY <1>1, <1>2, <1>6, BeginBegins
<1>7. faults' \in Nat
      BY <1>3 DEF Authorize, Exchange, Use, Refresh, Revoke
<1> QED
    BY <1>4, <1>5, <1>6, <1>7 DEF Use, Refresh, Revoke
-----------------------------------------------------------------------------
(* Types, and that what a call or a client names stays what it is *)

LEMMA InitSafe == Init => Safe
<1> SUFFICES ASSUME Init PROVE Safe
    OBVIOUS
<1>1. Idle \in CallRecords /\ Nothing \in ClientRecords
      BY DEF Idle, Nothing, CallRecords, ClientRecords, Steps
<1>2. TypeOK
      BY <1>1, NoneApart DEF Init, TypeOK, RowsTyped, ForeignKeys
<1> QED
    BY <1>2 DEF Init, Safe, CallSound, ClientSound, Idle, Nothing

\* rows are inserted and marked, never taken away
RowsGrow ==
    /\ RowsTyped' /\ ForeignKeys'
    /\ \A a \in Families : owner[a] # None => owner'[a] = owner[a]
    /\ \A a \in Families : code[a] # "none" => code'[a] # "none"
    /\ \A p \in Pairs : family[p] # None => family'[p] = family[p]

LEMMA RowsGrowStep == Safe /\ [Next]_vars => RowsGrow
<1> SUFFICES ASSUME Safe, [Next]_vars PROVE RowsGrow
    OBVIOUS
<1> USE NoneApart DEF RowsTyped, ForeignKeys, RowsGrow, rows
<1>0. TypeOK /\ RowsTyped /\ ForeignKeys
      BY DEF Safe, TypeOK
<1>1. ASSUME NEW k \in Calls, Serve(k)
      PROVE  RowsGrow
  <2>1. ASSUME NEW step, Read(k, step) PROVE RowsGrow
        BY <1>0, <2>1 DEF Read
  <2>2. ASSUME NEW step, Revoking(k, step) PROVE RowsGrow
        BY <1>0, <2>2 DEF Revoking
  <2>3. ASSUME NEW next, NEW denied, Validated(k, next, denied) PROVE RowsGrow
        BY <1>0, <2>3 DEF Validated
  <2>4. ASSUME NEW a \in Families, Replaced(k, a) PROVE RowsGrow
        BY <1>0, <2>4 DEF Replaced
  <2>5. ASSUME At(k, "authorize", "code"), CodeSet(k, "ok", "fresh") PROVE RowsGrow
        BY <1>0, <2>5 DEF CodeSet, At, Safe, CallSound
  <2>6. ASSUME At(k, "exchange", "consume"), CodeSet(k, "issue", "consumed") PROVE RowsGrow
        BY <1>0, <2>6 DEF CodeSet, At, Safe, CallSound
  <2>7. ASSUME NEW p \in Pairs, Issued(k, p, None), refresh' = refresh, At(k, "exchange", "insert")
        PROVE  RowsGrow
        BY <1>0, <2>7 DEF Issued, At, Safe, CallSound
  <2>8. ASSUME NEW p \in Pairs, Issued(k, p, call[k].p), At(k, "refresh", "rotate"),
               refresh' = [refresh EXCEPT ![call[k].p] = "spent"]
        PROVE  RowsGrow
        BY <1>0, <2>8 DEF Issued, At, Safe, CallSound
  <2> QED
      BY <1>1, <2>1, <2>2, <2>3, <2>4, <2>5, <2>6, <2>7, <2>8, ServeMoves
<1>2. ASSUME NEW k \in Calls, Answer(k)
      PROVE  RowsGrow
      BY <1>0, <1>2 DEF Answer
<1>3. ASSUME NEW g \in Grants, NEW k \in Calls,
             Authorize(g, k) \/ Exchange(g, k) \/ Use(g, k) \/ Refresh(g, k) \/ Revoke(g, k)
      PROVE  RowsGrow
      BY <1>0, <1>3 DEF Authorize, Exchange, Use, Refresh, Revoke, Begin
<1>4. ASSUME NEW g \in Grants, RevokeGrant(g)
      PROVE  RowsGrow
  <2>1. revoked' \in [Families -> BOOLEAN]
        BY <1>0, <1>4, RevokedAllIs DEF RevokeGrant
  <2> QED
      BY <1>0, <1>4, <2>1 DEF RevokeGrant
<1>5. ASSUME NEW g \in Grants, RevokeGrantOnly(g) \/ LapseGrant(g) \/ LoseAnswer(g)
      PROVE  RowsGrow
      BY <1>0, <1>5 DEF RevokeGrantOnly, LapseGrant, LoseAnswer
<1>6. ASSUME Crash PROVE RowsGrow
      BY <1>0, <1>6 DEF Crash
<1>7. ASSUME Expire PROVE RowsGrow
      BY <1>0, <1>7 DEF Expire
<1>8. CASE UNCHANGED vars
      BY <1>0, <1>8 DEF vars
<1> QED
    BY <1>1, <1>2, <1>3, <1>4, <1>5, <1>6, <1>7, <1>8 DEF Next, Ask

LEMMA SafeStep == Safe /\ [Next]_vars => Safe'
<1> SUFFICES ASSUME Safe, [Next]_vars PROVE Safe'
    OBVIOUS
<1>1. RowsGrow
      BY RowsGrowStep
<1> USE NoneApart
<1>0. TypeOK /\ call \in [Calls -> CallRecords] /\ client \in [Grants -> ClientRecords] /\ faults \in Nat
      BY DEF Safe, TypeOK
\* a call that did not move, and a client that learnt nothing
<1>2. ASSUME NEW k \in Calls, call'[k] = call[k]
      PROVE  CallSound(call[k])'
      BY <1>1, <1>2 DEF Safe, CallSound, RowsGrow
<1>3. ASSUME NEW g \in Grants, client'[g].code \in {client[g].code, None},
             client'[g].pair \in {client[g].pair, None}
      PROVE  ClientSound(client[g])'
  <2>1. client[g].code \in Families \cup {None} /\ client[g].pair \in Pairs \cup {None}
        BY <1>0 DEF ClientRecords
  <2> QED
      BY <1>1, <1>3, <2>1 DEF Safe, ClientSound, RowsGrow
<1>4. ASSUME NEW k \in Calls, Serve(k)
      PROVE  Safe'
  <2>1. client' = client /\ faults' = faults
        BY <1>4, ServeMoves DEF Read, Revoking, Validated, Replaced, CodeSet, Issued
  <2>2. call' \in [Calls -> CallRecords] /\ \A j \in Calls : j # k => call'[j] = call[j]
        BY <1>4, ServeMoves DEF Read, Revoking, Validated, Replaced, CodeSet, Issued, Moved
  <2>3. CallSound(call[k])
        BY DEF Safe
  <2>4. CallSound(call[k])'
    <3>1. ASSUME NEW step \in {"family", "validate", "insert", "kill", "denied"}, Read(k, step),
                 call[k].op \in {"exchange", "refresh", "use"} \/ step = "denied",
                 call[k].at # "idle"
          PROVE  CallSound(call[k])'
          BY <1>1, <2>3, <3>1 DEF Read, Moved, CallSound, RowsGrow
    <3>2. ASSUME NEW step \in {"ok", "denied"}, Revoking(k, step),
                 At(k, "revoke", "read") \/ (step = "denied" /\ call[k].at # "idle")
          PROVE  CallSound(call[k])'
          BY <1>1, <2>3, <3>2 DEF Revoking, Moved, CallSound, RowsGrow, At
    <3>3. ASSUME At(k, "authorize", "validate"), Validated(k, "replace", "denied")
          PROVE  CallSound(call[k])'
          BY <1>1, <2>3, <3>3 DEF Validated, Moved, CallSound, RowsGrow, At
    <3>4. ASSUME NEW op \in {"exchange", "refresh", "use"}, NEW next \in {"consume", "rotate", "ok"},
                 At(k, op, "validate"), Validated(k, next, "kill"), next = "ok" => op = "use"
          PROVE  CallSound(call[k])'
          BY <1>1, <2>3, <3>4 DEF Validated, Moved, CallSound, RowsGrow, At
    <3>5. ASSUME NEW a \in Families, Replaced(k, a), At(k, "authorize", "replace")
          PROVE  CallSound(call[k])'
      <4>1. owner'[a] # None
            BY <1>0, <3>5 DEF Replaced, TypeOK, RowsTyped
      <4> QED
          BY <1>1, <2>3, <3>5, <4>1 DEF Replaced, Moved, CallSound, RowsGrow, At
    <3>6. ASSUME At(k, "authorize", "code"), CodeSet(k, "ok", "fresh")
          PROVE  CallSound(call[k])'
      <4>1. code'[call[k].a] = "fresh" /\ call[k].a \in Families
            BY <1>0, <2>3, <3>6 DEF CodeSet, TypeOK, RowsTyped, CallSound, At
      <4> QED
          BY <1>1, <2>3, <3>6, <4>1 DEF CodeSet, Moved, CallSound, RowsGrow, At
    <3>7. ASSUME At(k, "exchange", "consume"), CodeSet(k, "issue", "consumed")
          PROVE  CallSound(call[k])'
          BY <1>1, <2>3, <3>7 DEF CodeSet, Moved, CallSound, RowsGrow, At
    <3>8. ASSUME NEW p \in Pairs, NEW from, Issued(k, p, from),
                 At(k, "exchange", "insert") \/ At(k, "refresh", "rotate")
          PROVE  CallSound(call[k])'
      <4>1. family'[p] = call[k].a
            BY <1>0, <3>8 DEF Issued, TypeOK, RowsTyped
      <4> QED
          BY <1>1, <2>3, <3>8, <4>1 DEF Issued, Moved, CallSound, RowsGrow, At
    <3>9. At(k, "authorize", "replace") /\ Read(k, "denied") => CallSound(call[k])'
          BY <3>1 DEF At
    <3>10. call[k].at # "idle"
           BY <1>4, <2>3 DEF CallSound, Serve, AuthorizeValidate, AuthorizeReplace, AuthorizeCode,
              ExchangeReadCode, ExchangeReadFamily, ExchangeValidate, ExchangeConsume, ExchangeIssue, ExchangeInsert,
              RefreshReadToken, RefreshReadFamily, RefreshValidate, RefreshRotate, UseResolve,
              UseValidate, Disconnect, Kill, At
    <3>11. \A op, step : At(k, op, step) => call[k].op = op
           BY DEF At
    <3> QED
        BY <1>4, <3>1, <3>2, <3>3, <3>4, <3>5, <3>6, <3>7, <3>8, <3>9, <3>10, <3>11, ServeMoves
  <2> QED
      BY <1>0, <1>1, <1>2, <1>3, <2>1, <2>2, <2>4 DEF Safe, TypeOK, RowsGrow
<1>5. ASSUME NEW k \in Calls, Answer(k)
      PROVE  Safe'
  <2>1. Answered(k)
        BY <1>0, <1>5, AnswerMoves
  <2>2. CallSound(call[k]) /\ call[k] \in CallRecords
        BY <1>0 DEF Safe
  <2>3. CallSound(call[k])'
        BY <2>1 DEF Answered, Idle, CallSound
  <2>4. ASSUME NEW g \in Grants
        PROVE  ClientSound(client[g])'
    <3>1. CASE client'[g].code \in {client[g].code, None} /\ client'[g].pair \in {client[g].pair, None}
          BY <1>3, <3>1
    <3>2. CASE /\ call[k].op = "authorize" /\ call[k].at = "ok"
               /\ client'[g].code = call[k].a /\ client'[g].pair = None
          BY <1>1, <2>2, <3>2 DEF CallSound, ClientSound, RowsGrow
    <3>3. CASE /\ call[k].op \in {"exchange", "refresh"} /\ call[k].at = "ok"
               /\ client'[g].code = None /\ client'[g].pair = call[k].p
          BY <1>1, <2>2, <3>3 DEF CallSound, ClientSound, RowsGrow
    <3> QED
        BY <2>1, <3>1, <3>2, <3>3 DEF Answered
  <2> QED
      BY <1>0, <1>1, <1>2, <2>1, <2>3, <2>4 DEF Safe, TypeOK, RowsGrow, Answered
<1>6. ASSUME NEW g \in Grants, NEW k \in Calls,
             Authorize(g, k) \/ Exchange(g, k) \/ Use(g, k) \/ Refresh(g, k) \/ Revoke(g, k)
      PROVE  Safe'
  <2>1. faults' \in Nat
        BY <1>6, AskMoves
  <2>2. ClientSound(client[g]) /\ client[g].code \in Families \cup {None} /\ client[g].pair \in Pairs \cup {None}
        BY <1>0 DEF Safe, ClientRecords
  <2>3. ASSUME NEW op, NEW a, NEW p, Begun(g, k, op, a, p),
               \/ op = "authorize"
               \/ op = "exchange" /\ client[g].code # None /\ a = client[g].code
               \/ /\ op \in {"use", "refresh", "revoke"} /\ client[g].pair # None
                  /\ p = client[g].pair /\ a = family[p]
        PROVE  Safe'
    <3>1. CallSound(call[k])'
          BY <1>0, <1>1, <2>2, <2>3 DEF Begun, CallSound, ClientSound, RowsGrow, FirstStep, TypeOK, RowsTyped,
             ForeignKeys, rows
    <3> QED
        BY <1>1, <1>2, <1>3, <2>1, <2>3, <3>1 DEF Begun, Safe, TypeOK, RowsGrow
  <2> QED
      BY <1>6, <2>3, AskMoves
<1>7. ASSUME NEW g \in Grants, RevokeGrant(g) \/ RevokeGrantOnly(g) \/ LapseGrant(g)
      PROVE  Safe'
  <2>1. UNCHANGED <<call, client, faults>>
        BY <1>7 DEF RevokeGrant, RevokeGrantOnly, LapseGrant
  <2> QED
      BY <1>0, <1>1, <1>2, <1>3, <2>1 DEF Safe, TypeOK, RowsGrow
<1>8. ASSUME NEW g \in Grants, LoseAnswer(g)
      PROVE  Safe'
  <2>1. client' = [client EXCEPT ![g].waits = None] /\ call' = call /\ faults' = faults + 1
        BY <1>8 DEF LoseAnswer
  <2>2. /\ client' \in [Grants -> ClientRecords]
        /\ \A h \in Grants : client'[h].code = client[h].code /\ client'[h].pair = client[h].pair
        BY <1>0, <2>1, WaitsTyped
  <2> QED
      BY <1>0, <1>1, <1>2, <1>3, <2>1, <2>2 DEF Safe, TypeOK, RowsGrow
<1>9. ASSUME Crash
      PROVE  Safe'
  <2>1. /\ call' = [k \in Calls |-> Idle] /\ faults' = faults + 1
        /\ client' = [g \in Grants |-> [client[g] EXCEPT !.waits = None]]
        BY <1>9 DEF Crash
  <2>2. Idle \in CallRecords
        BY DEF Idle, CallRecords, Steps
  <2>3. \A g \in Grants : [client[g] EXCEPT !.waits = None] \in ClientRecords
        BY <1>0 DEF ClientRecords
  <2>4. \A g \in Grants : client'[g].code = client[g].code /\ client'[g].pair = client[g].pair
        BY <1>0, <2>1 DEF ClientRecords
  <2>5. \A k \in Calls : CallSound(call[k])'
        BY <2>1 DEF CallSound, Idle
  <2> QED
      BY <1>0, <1>1, <1>3, <2>1, <2>2, <2>3, <2>4, <2>5 DEF Safe, TypeOK, RowsGrow
<1>10. ASSUME Expire
       PROVE  Safe'
  <2>1. UNCHANGED <<call, client>> /\ faults' = faults + 1
        BY <1>10 DEF Expire
  <2> QED
      BY <1>0, <1>1, <1>2, <1>3, <2>1 DEF Safe, TypeOK, RowsGrow
<1>11. CASE UNCHANGED vars
  <2>1. UNCHANGED <<call, client, faults>>
        BY <1>11 DEF vars
  <2> QED
      BY <1>0, <1>1, <1>2, <1>3, <2>1 DEF Safe, TypeOK, RowsGrow
<1> QED
    BY <1>4, <1>5, <1>6, <1>7, <1>8, <1>9, <1>10, <1>11 DEF Next, Ask
-----------------------------------------------------------------------------
(* What holds whatever the order of the steps *)

\* nothing that is over begins again
OverStays ==
    /\ \A g \in Grants : grant[g] # "current" => grant'[g] # "current"
    /\ \A a \in Families : revoked[a] => revoked'[a]
    /\ \A a \in Families : code[a] \in {"consumed", "expired"} => code'[a] = code[a]
    /\ \A p \in Pairs : refresh[p] \in {"spent", "expired"} => refresh'[p] = refresh[p]
    /\ \A p \in Pairs : access[p] # "live" => access'[p] = access[p]

\* a code is made once
CodesFresh ==
    /\ \A k \in Calls : At(k, "authorize", "code") => code[call[k].a] = "none"
    /\ \A j, k \in Calls :
          At(j, "authorize", "code") /\ At(k, "authorize", "code") /\ call[j].a = call[k].a => j = k

LEMMA CodesFreshStep == Safe /\ CodesFresh /\ [Next]_vars => CodesFresh'
<1> SUFFICES ASSUME Safe, CodesFresh, [Next]_vars PROVE CodesFresh'
    OBVIOUS
<1> USE NoneApart DEF CodesFresh, rows, At
<1>0. /\ TypeOK /\ RowsTyped /\ ForeignKeys
      /\ \A k \in Calls : CallSound(call[k])
      BY DEF Safe, TypeOK
<1>1. ASSUME NEW k \in Calls, Serve(k)
      PROVE  CodesFresh'
  <2>1. ASSUME NEW step \in Steps, step # "code", Moved(k, step, call[k].a, call[k].p), code' = code
        PROVE  CodesFresh'
        BY <2>1 DEF Moved
  <2>2. ASSUME NEW a \in Families, Replaced(k, a)
        PROVE  CodesFresh'
    <3>1. code[a] = "none" /\ code' = code
          BY <1>0, <2>2 DEF Replaced, ForeignKeys
    <3>2. \A j \in Calls : At(j, "authorize", "code") => call[j].a # a
          BY <1>0, <2>2 DEF Replaced, CallSound
    <3> QED
        BY <2>2, <3>1, <3>2 DEF Replaced, Moved
  <2>3. ASSUME CodeSet(k, "ok", "fresh"), At(k, "authorize", "code")
        PROVE  CodesFresh'
        BY <1>0, <2>3 DEF CodeSet, Moved, RowsTyped, CallSound
  <2>4. ASSUME CodeSet(k, "issue", "consumed"), code[call[k].a] = "fresh"
        PROVE  CodesFresh'
        BY <1>0, <2>4 DEF CodeSet, Moved, RowsTyped
  <2>5. ASSUME NEW p, NEW from, Issued(k, p, from)
        PROVE  CodesFresh'
        BY <2>5 DEF Issued, Moved
  <2>6. ASSUME NEW step \in {"family", "validate", "insert", "kill", "denied"}, Read(k, step)
        PROVE  CodesFresh'
        BY <2>1, <2>6 DEF Read, Steps
  <2>7. ASSUME NEW step \in {"ok", "denied"}, Revoking(k, step)
        PROVE  CodesFresh'
        BY <2>1, <2>7 DEF Revoking, Steps
  <2>8. ASSUME NEW next \in {"replace", "consume", "rotate", "ok"}, NEW denied \in {"denied", "kill"},
               Validated(k, next, denied)
        PROVE  CodesFresh'
        BY <2>1, <2>8 DEF Validated, Steps
  <2> QED
      BY <1>1, <2>2, <2>3, <2>4, <2>5, <2>6, <2>7, <2>8, ServeMoves
<1>2. ASSUME NEW k \in Calls, Answer(k)
      PROVE  CodesFresh'
      BY <1>0, <1>2, AnswerMoves DEF Answered, Idle
<1>3. ASSUME NEW g \in Grants, NEW k \in Calls,
             Authorize(g, k) \/ Exchange(g, k) \/ Use(g, k) \/ Refresh(g, k) \/ Revoke(g, k)
      PROVE  CodesFresh'
      BY <1>3, AskMoves DEF Begun, FirstStep
<1>4. ASSUME NEW g \in Grants, RevokeGrant(g) \/ RevokeGrantOnly(g) \/ LapseGrant(g) \/ LoseAnswer(g)
      PROVE  CodesFresh'
      BY <1>4 DEF RevokeGrant, RevokeGrantOnly, LapseGrant, LoseAnswer
<1>5. ASSUME Crash PROVE CodesFresh'
      BY <1>5 DEF Crash, Idle
<1>6. ASSUME Expire PROVE CodesFresh'
  <2>1. call' = call /\ (code' = code \/ \E a \in Families : code[a] = "fresh" /\ code' = [code EXCEPT ![a] = "expired"])
        BY <1>6 DEF Expire
  <2>2. \A a \in Families : code[a] = "none" => code'[a] = "none"
        BY <1>0, <2>1 DEF RowsTyped
  <2>3. \A k \in Calls : At(k, "authorize", "code") => call[k].a \in Families
        BY <1>0 DEF CallSound
  <2> QED
      BY <2>1, <2>2, <2>3
<1>7. CASE UNCHANGED vars
      BY <1>7 DEF vars
<1> QED
    BY <1>1, <1>2, <1>3, <1>4, <1>5, <1>6, <1>7 DEF Next, Ask

LEMMA OverStaysStep == Safe /\ CodesFresh /\ [Next]_vars => OverStays
<1> SUFFICES ASSUME Safe, CodesFresh, [Next]_vars PROVE OverStays
    OBVIOUS
<1> USE NoneApart DEF OverStays, RowsTyped, rows
<1>0. RowsTyped /\ \A k \in Calls : CallSound(call[k])
      BY DEF Safe, TypeOK
<1>1. ASSUME NEW k \in Calls, Serve(k)
      PROVE  OverStays
  <2>1. ASSUME NEW step, Read(k, step) PROVE OverStays
        BY <2>1 DEF Read
  <2>2. ASSUME NEW step, Revoking(k, step) PROVE OverStays
        BY <2>2 DEF Revoking
  <2>3. ASSUME NEW next, NEW denied, Validated(k, next, denied) PROVE OverStays
        BY <2>3 DEF Validated
  <2>4. ASSUME NEW a \in Families, Replaced(k, a) PROVE OverStays
        BY <2>4 DEF Replaced
  <2>5. ASSUME At(k, "authorize", "code"), CodeSet(k, "ok", "fresh") PROVE OverStays
        BY <1>0, <2>5 DEF CodeSet, CodesFresh
  <2>6. ASSUME code[call[k].a] = "fresh", CodeSet(k, "issue", "consumed") PROVE OverStays
        BY <1>0, <2>6 DEF CodeSet
  <2>7. ASSUME NEW p \in Pairs, Issued(k, p, None), refresh' = refresh PROVE OverStays
        BY <2>7 DEF Issued
  <2>8. ASSUME NEW p \in Pairs, Issued(k, p, call[k].p), refresh[call[k].p] = "live",
               refresh' = [refresh EXCEPT ![call[k].p] = "spent"]
        PROVE  OverStays
        BY <1>0, <2>8 DEF Issued
  <2> QED
      BY <1>1, <2>1, <2>2, <2>3, <2>4, <2>5, <2>6, <2>7, <2>8, ServeMoves
<1>2. ASSUME NEW k \in Calls, Answer(k) PROVE OverStays
      BY <1>2 DEF Answer
<1>3. ASSUME NEW g \in Grants, NEW k \in Calls,
             Authorize(g, k) \/ Exchange(g, k) \/ Use(g, k) \/ Refresh(g, k) \/ Revoke(g, k)
      PROVE  OverStays
      BY <1>3 DEF Authorize, Exchange, Use, Refresh, Revoke, Begin
<1>4. ASSUME NEW g \in Grants, RevokeGrant(g)
      PROVE  OverStays
      BY <1>0, <1>4, RevokedAllIs DEF RevokeGrant
<1>5. ASSUME NEW g \in Grants, RevokeGrantOnly(g) \/ LapseGrant(g) \/ LoseAnswer(g)
      PROVE  OverStays
      BY <1>0, <1>5 DEF RevokeGrantOnly, LapseGrant, LoseAnswer
<1>6. ASSUME Crash PROVE OverStays
      BY <1>6 DEF Crash
<1>7. ASSUME Expire PROVE OverStays
      BY <1>0, <1>7 DEF Expire
<1>8. CASE UNCHANGED vars
      BY <1>8 DEF vars
<1> QED
    BY <1>1, <1>2, <1>3, <1>4, <1>5, <1>6, <1>7, <1>8 DEF Next, Ask

LEMMA RefusalStep == Safe /\ CodesFresh /\ RefusalEndsFamily /\ [Next]_vars => RefusalEndsFamily'
<1> SUFFICES ASSUME Safe, CodesFresh, RefusalEndsFamily, [Next]_vars PROVE RefusalEndsFamily'
    OBVIOUS
<1> USE NoneApart DEF RefusalEndsFamily, rows, At
<1>0. OverStays /\ \A k \in Calls : CallSound(call[k])
      BY OverStaysStep DEF Safe
\* a call that did not move
<1>1. ASSUME NEW k \in Calls, call'[k] = call[k] \/ ~At(k, "refresh", "denied")'
      PROVE  At(k, "refresh", "denied")' => (revoked[call[k].a] \/ refresh[call[k].p] = "expired")'
  <2>1. At(k, "refresh", "denied")' => call'[k] = call[k] /\ call[k].a \in Families /\ call[k].p \in Pairs
        BY <1>0, <1>1 DEF CallSound
  <2> QED
      BY <1>0, <1>1, <2>1 DEF OverStays
<1>2. ASSUME NEW k \in Calls, Serve(k)
      PROVE  RefusalEndsFamily'
  <2>1. \A j \in Calls : j # k => call'[j] = call[j]
        BY <1>2, ServeMoves DEF Read, Revoking, Validated, Replaced, CodeSet, Issued, Moved
  <2>2. At(k, "refresh", "denied")' => (revoked[call[k].a] \/ refresh[call[k].p] = "expired")'
    <3>1. call[k].op = "refresh" => call[k].a \in Families /\ call[k].p \in Pairs
          BY <1>0 DEF CallSound
    <3> QED
        BY <1>2, <3>1, ServeMoves DEF Read, Revoking, Validated, Replaced, CodeSet, Issued, Moved
  <2> QED
      BY <1>1, <2>1, <2>2
<1>3. ASSUME NEW k \in Calls, Answer(k)
      PROVE  RefusalEndsFamily'
  <2>1. Answered(k)
        BY <1>3, AnswerMoves DEF Safe
  <2> QED
      BY <1>1, <2>1 DEF Answered, Idle
<1>4. ASSUME NEW g \in Grants, NEW k \in Calls,
             Authorize(g, k) \/ Exchange(g, k) \/ Use(g, k) \/ Refresh(g, k) \/ Revoke(g, k)
      PROVE  RefusalEndsFamily'
      BY <1>1, <1>4, AskMoves DEF Begun, FirstStep
<1>5. ASSUME NEW g \in Grants, RevokeGrant(g) \/ RevokeGrantOnly(g) \/ LapseGrant(g) \/ LoseAnswer(g)
      PROVE  RefusalEndsFamily'
      BY <1>1, <1>5 DEF RevokeGrant, RevokeGrantOnly, LapseGrant, LoseAnswer
<1>6. ASSUME Crash PROVE RefusalEndsFamily'
      BY <1>6 DEF Crash, Idle
<1>7. ASSUME Expire PROVE RefusalEndsFamily'
      BY <1>1, <1>7 DEF Expire
<1>8. CASE UNCHANGED vars
      BY <1>8 DEF vars
<1> QED
    BY <1>2, <1>3, <1>4, <1>5, <1>6, <1>7, <1>8 DEF Next, Ask

LEMMA OneFamilyStep == Safe /\ CodesFresh /\ OneFamilyPerGrant /\ [Next]_vars => OneFamilyPerGrant'
<1> SUFFICES ASSUME Safe, CodesFresh, OneFamilyPerGrant, [Next]_vars PROVE OneFamilyPerGrant'
    OBVIOUS
<1> USE NoneApart DEF OneFamilyPerGrant, rows
<1>0. RowsTyped /\ OverStays
      BY OverStaysStep DEF Safe, TypeOK
<1>1. ASSUME owner' = owner
      PROVE  OneFamilyPerGrant'
      BY <1>0, <1>1 DEF OverStays
<1>2. ASSUME NEW k \in Calls, NEW a \in Families, Replaced(k, a)
      PROVE  OneFamilyPerGrant'
      BY <1>0, <1>2 DEF Replaced, RowsTyped
<1>3. ASSUME NEW k \in Calls, Serve(k)
      PROVE  OneFamilyPerGrant'
      BY <1>1, <1>2, <1>3, ServeMoves DEF Read, Revoking, Validated, CodeSet, Issued
<1>4. ASSUME NEW k \in Calls, Answer(k)
      PROVE  owner' = owner
      BY <1>4 DEF Answer
<1>5. ASSUME NEW g \in Grants, NEW k \in Calls,
             Authorize(g, k) \/ Exchange(g, k) \/ Use(g, k) \/ Refresh(g, k) \/ Revoke(g, k)
      PROVE  owner' = owner
      BY <1>5 DEF Authorize, Exchange, Use, Refresh, Revoke, Begin
<1>6. ASSUME NEW g \in Grants, RevokeGrant(g) \/ RevokeGrantOnly(g) \/ LapseGrant(g) \/ LoseAnswer(g)
      PROVE  owner' = owner
      BY <1>6 DEF RevokeGrant, RevokeGrantOnly, LapseGrant, LoseAnswer
<1>7. Crash \/ Expire \/ UNCHANGED vars => owner' = owner
      BY DEF Crash, Expire, vars
<1> QED
    BY <1>1, <1>3, <1>4, <1>5, <1>6, <1>7 DEF Next, Ask

\* why a call that was dead when it came in is refused, as long as it is not
DoomedAt(c) ==
    CASE c.at = "read"     -> DeadNow(c.op, c.g, c.a, c.p)
      [] c.at = "family"   -> grant[c.g] # "current" \/ revoked[c.a]
      [] c.at = "validate" -> grant[c.g] # "current"
      [] c.at \in {"idle", "kill", "denied"} -> TRUE
      [] c.at \in {"replace", "code", "consume", "issue", "insert", "rotate", "ok"} -> FALSE

Doomed == \A k \in Calls : call[k].dead /\ call[k].op # "revoke" => DoomedAt(call[k])

LEMMA DoomedStep == Safe /\ CodesFresh /\ Doomed /\ [Next]_vars => Doomed'
<1> SUFFICES ASSUME Safe, CodesFresh, Doomed, [Next]_vars PROVE Doomed'
    OBVIOUS
<1> USE NoneApart DEF rows, At
<1>0. /\ RowsTyped /\ OverStays
      /\ \A k \in Calls : CallSound(call[k]) /\ call[k] \in CallRecords
      BY OverStaysStep DEF Safe, TypeOK
<1>1. ASSUME NEW k \in Calls, call[k].dead, call[k].op # "revoke"
      PROVE  /\ CallSound(call[k]) /\ DoomedAt(call[k])
             /\ call[k].at # "idle" => call[k].g \in Grants
             /\ call[k].op \in {"exchange", "refresh", "use"} => call[k].a \in Families
             /\ call[k].op \in {"refresh", "use"} => call[k].p \in Pairs
      BY <1>0, <1>1 DEF Doomed, CallSound
\* a call that did not move
<1>2. ASSUME NEW k \in Calls, call'[k] = call[k]
      PROVE  (call[k].dead /\ call[k].op # "revoke" => DoomedAt(call[k]))'
  <2> SUFFICES ASSUME call[k].dead, call[k].op # "revoke" PROVE DoomedAt(call[k])'
      BY <1>2
  <2>1. CASE call[k].at = "read"
    <3>1. DeadNow(call[k].op, call[k].g, call[k].a, call[k].p)
          BY <1>1, <2>1 DEF DoomedAt
    <3>2. call[k].op = "exchange" => code[call[k].a] # "none"
          BY <1>1 DEF CallSound
    <3>3. call[k].op \in {"exchange", "refresh", "use"}
          BY <1>0, <1>1, <2>1 DEF CallSound, CallRecords
    <3>4. DeadNow(call[k].op, call[k].g, call[k].a, call[k].p)'
          BY <1>0, <1>1, <1>2, <2>1, <3>1, <3>2, <3>3 DEF DeadNow, OverStays, RowsTyped
    <3> QED
        BY <1>2, <2>1, <3>4 DEF DoomedAt
  <2>2. CASE call[k].at = "family"
    <3>1. call[k].op \in {"exchange", "refresh", "use"}
          BY <1>0, <1>1, <2>2 DEF CallSound, CallRecords
    <3> QED
        BY <1>0, <1>1, <1>2, <2>2, <3>1 DEF DoomedAt, OverStays
  <2>3. CASE call[k].at = "validate"
        BY <1>0, <1>1, <1>2, <2>3 DEF DoomedAt, OverStays
  <2>4. CASE call[k].at \notin {"read", "family", "validate"}
    <3>1. call[k].at \in Steps
          BY <1>0 DEF CallRecords
    <3>2. call[k].at \in {"idle", "kill", "denied"}
          BY <1>1, <2>4, <3>1 DEF DoomedAt, Steps
    <3> QED
        BY <1>2, <3>2 DEF DoomedAt
  <2> QED
      BY <2>1, <2>2, <2>3, <2>4
<1>3. ASSUME NEW k \in Calls, Serve(k)
      PROVE  Doomed'
  <2>1. \A j \in Calls : j # k => call'[j] = call[j]
        BY <1>3, ServeMoves DEF Read, Revoking, Validated, Replaced, CodeSet, Issued, Moved
  <2>2. (call[k].dead /\ call[k].op # "revoke" => DoomedAt(call[k]))'
    <3>0. call'[k].dead = call[k].dead /\ call'[k].op = call[k].op /\ call'[k].g = call[k].g
          BY <1>3, ServeMoves DEF Read, Revoking, Validated, Replaced, CodeSet, Issued, Moved
    <3> SUFFICES ASSUME call[k].dead, call[k].op # "revoke" PROVE DoomedAt(call[k])'
        BY <3>0
    <3>1. CallSound(call[k]) /\ DoomedAt(call[k])
          BY <1>1
    <3>2. ASSUME NEW next, NEW denied \in {"denied", "kill"}, call[k].at = "validate",
                 Validated(k, next, denied)
          PROVE  DoomedAt(call[k])'
      <4>1. grant[call[k].g] # "current"
            BY <3>1, <3>2 DEF DoomedAt
      <4> QED
          BY <3>2, <4>1 DEF Validated, Moved, DoomedAt
    <3>3. ASSUME At(k, "exchange", "read"), code[call[k].a] = "fresh", Read(k, "family")
          PROVE  DoomedAt(call[k])'
      <4>1. grant[call[k].g] # "current" \/ revoked[call[k].a]
            BY <3>1, <3>3 DEF DoomedAt, DeadNow
      <4> QED
          BY <3>0, <3>3, <4>1 DEF Read, Moved, DoomedAt
    <3>4. ASSUME At(k, "refresh", "read"), refresh[call[k].p] = "live", Read(k, "family")
          PROVE  DoomedAt(call[k])'
      <4>1. grant[call[k].g] # "current" \/ revoked[call[k].a]
            BY <3>1, <3>4 DEF DoomedAt, DeadNow
      <4> QED
          BY <3>0, <3>4, <4>1 DEF Read, Moved, DoomedAt
    <3>5. ASSUME call[k].at = "family", ~revoked[call[k].a], Read(k, "validate")
          PROVE  DoomedAt(call[k])'
          BY <3>0, <3>1, <3>5 DEF Read, Moved, DoomedAt
    <3>6. ASSUME At(k, "use", "read"), Read(k, "validate"), access[call[k].p] = "live",
                 ~revoked[call[k].a]
          PROVE  DoomedAt(call[k])'
      <4>1. grant[call[k].g] # "current"
            BY <3>1, <3>6 DEF DoomedAt, DeadNow
      <4> QED
          BY <3>0, <3>6, <4>1 DEF Read, Moved, DoomedAt
    <3>7. ASSUME NEW step \in {"denied", "kill"}, Read(k, step) \/ Revoking(k, step)
          PROVE  DoomedAt(call[k])'
          BY <3>7 DEF Read, Revoking, Moved, DoomedAt
    <3>8. call[k].at \notin {"replace", "code", "consume", "issue", "insert", "rotate"}
          BY <3>1 DEF DoomedAt
    <3> QED
        BY <1>3, <3>2, <3>3, <3>4, <3>5, <3>6, <3>7, <3>8, ServeMoves
  <2> QED
      BY <1>2, <2>1, <2>2 DEF Doomed
<1>4. ASSUME NEW k \in Calls, Answer(k)
      PROVE  Doomed'
  <2>1. Answered(k)
        BY <1>4, AnswerMoves DEF Safe
  <2> QED
      BY <1>2, <2>1 DEF Answered, Idle, Doomed
<1>5. ASSUME NEW g \in Grants, NEW k \in Calls,
             Authorize(g, k) \/ Exchange(g, k) \/ Use(g, k) \/ Refresh(g, k) \/ Revoke(g, k)
      PROVE  Doomed'
  <2>1. ASSUME NEW op, NEW a, NEW p, Begun(g, k, op, a, p),
               op \in {"authorize", "exchange", "use", "refresh", "revoke"}
        PROVE  Doomed'
    <3>1. \A j \in Calls : j # k => call'[j] = call[j]
          BY <2>1 DEF Begun
    <3>2. (call[k].dead /\ call[k].op # "revoke" => DoomedAt(call[k]))'
      <4> SUFFICES ASSUME call'[k].dead PROVE DoomedAt(call[k])'
          OBVIOUS
      <4>1. DeadNow(op, g, a, p) /\ UNCHANGED <<grant, rows>>
            BY <2>1 DEF Begun
      <4>2. DeadNow(op, g, a, p)'
            BY <4>1 DEF DeadNow
      <4>3. op = "authorize" => grant'[g] # "current"
            BY <4>1 DEF DeadNow
      <4> QED
          BY <2>1, <4>2, <4>3 DEF Begun, FirstStep, DoomedAt
    <3> QED
        BY <1>2, <3>1, <3>2 DEF Doomed
  <2> QED
      BY <1>5, <2>1, AskMoves
<1>6. ASSUME UNCHANGED call
      PROVE  Doomed'
      BY <1>2, <1>6 DEF Doomed
<1>7. ASSUME NEW g \in Grants, RevokeGrant(g) \/ RevokeGrantOnly(g) \/ LapseGrant(g) \/ LoseAnswer(g)
      PROVE  UNCHANGED call
      BY <1>7 DEF RevokeGrant, RevokeGrantOnly, LapseGrant, LoseAnswer
<1>8. ASSUME Crash PROVE Doomed'
      BY <1>8 DEF Crash, Idle, Doomed
<1>9. Expire \/ UNCHANGED vars => UNCHANGED call
      BY DEF Expire, vars
<1> QED
    BY <1>3, <1>4, <1>5, <1>6, <1>7, <1>8, <1>9 DEF Next, Ask

\* what the chain of tokens rests on: an exchange under way is the only one of
\* its code, and what a pair was exchanged for is used up
Issuing(k) == call[k].op = "exchange" /\ call[k].at \in {"issue", "insert"}

Chain ==
    /\ TokensFormAChain
    /\ \A p \in Pairs : family[p] # None /\ origin[p] = None => code[family[p]] = "consumed"
    /\ \A p \in Pairs : family[p] # None /\ origin[p] # None =>
          origin[p] \in Pairs /\ refresh[origin[p]] = "spent"
    /\ \A k \in Calls : Issuing(k) =>
          /\ code[call[k].a] = "consumed"
          /\ \A p \in Pairs : family[p] = call[k].a => origin[p] # None
    /\ \A j, k \in Calls :
          Issuing(j) /\ Issuing(k) /\ call[j].a = call[k].a => j = k

LEMMA ChainStep == Safe /\ CodesFresh /\ Chain /\ [Next]_vars => Chain'
<1> SUFFICES ASSUME Safe, CodesFresh, Chain, [Next]_vars PROVE Chain'
    OBVIOUS
<1> USE NoneApart DEF rows, At, Issuing
<1>0. /\ RowsTyped /\ OverStays /\ RowsGrow
      /\ \A k \in Calls : CallSound(call[k])
      BY OverStaysStep, RowsGrowStep DEF Safe, TypeOK
<1>1. /\ \A p \in Pairs : family[p] \in Families \cup {None} /\ origin[p] \in Origins
      /\ \A k \in Calls : Issuing(k) => call[k].a \in Families
      BY <1>0 DEF RowsTyped, CallSound
\* no pair is added and no exchange comes to its last transaction
<1>2. ASSUME family' = family, origin' = origin,
             \A k \in Calls : Issuing(k)' => Issuing(k) /\ call'[k].a = call[k].a
      PROVE  Chain'
      BY <1>0, <1>1, <1>2 DEF Chain, TokensFormAChain, OverStays
<1>3. ASSUME NEW k \in Calls, Serve(k)
      PROVE  Chain'
  <2>1. ASSUME NEW step \in Steps, step \notin {"issue", "insert"}, Moved(k, step, call[k].a, call[k].p),
               family' = family, origin' = origin
        PROVE  Chain'
        BY <1>2, <2>1 DEF Moved
  <2>2. ASSUME NEW a \in Families, Replaced(k, a)
        PROVE  Chain'
        BY <1>2, <2>2 DEF Replaced, Moved
  <2>3. ASSUME CodeSet(k, "issue", "consumed"), At(k, "exchange", "consume"), code[call[k].a] = "fresh"
        PROVE  Chain'
    <3>1. code'[call[k].a] = "consumed" /\ call[k].a \in Families
          BY <1>0, <2>3 DEF CodeSet, RowsTyped, CallSound
    <3>2. \A p \in Pairs : family[p] = call[k].a => origin[p] # None
          BY <2>3, <3>1 DEF Chain
    <3>3. \A j \in Calls : Issuing(j) => call[j].a # call[k].a
          BY <2>3 DEF Chain
    <3>4. UNCHANGED <<family, origin, refresh>> /\ Moved(k, "issue", call[k].a, call[k].p)
          BY <2>3 DEF CodeSet
    <3>5. \A a \in Families : code[a] = "consumed" => code'[a] = "consumed"
          BY <1>0 DEF OverStays
    <3>6. \A j \in Calls : Issuing(j)' =>
              j = k \/ (Issuing(j) /\ call'[j] = call[j])
          BY <3>4 DEF Moved
    <3>7. call'[k].a = call[k].a
          BY <3>4 DEF Moved
    <3> QED
        BY <1>1, <3>1, <3>2, <3>3, <3>4, <3>5, <3>6, <3>7 DEF Chain, TokensFormAChain
  <2>4. ASSUME NEW p \in Pairs, Issued(k, p, None), refresh' = refresh, At(k, "exchange", "insert")
        PROVE  Chain'
    <3>1. /\ family[p] = None /\ call[k].a \in Families /\ code[call[k].a] = "consumed"
          /\ code' = code /\ \A q \in Pairs : family[q] = call[k].a => origin[q] # None
          BY <1>1, <2>4 DEF Issued, Chain
    <3>2. /\ family'[p] = call[k].a /\ origin'[p] = None
          /\ \A q \in Pairs : q # p => family'[q] = family[q] /\ origin'[q] = origin[q]
          BY <1>0, <2>4 DEF Issued, RowsTyped
    <3>3. \A j \in Calls : Issuing(j)' =>
              j # k /\ Issuing(j) /\ call'[j] = call[j] /\ call[j].a # call[k].a
          BY <2>4 DEF Issued, Moved, Chain
    <3>4. TokensFormAChain'
          BY <3>1, <3>2 DEF Chain, TokensFormAChain
    <3>5. (\A q \in Pairs : family[q] # None /\ origin[q] = None => code[family[q]] = "consumed")'
          BY <3>1, <3>2 DEF Chain
    <3>6. (\A q \in Pairs : family[q] # None /\ origin[q] # None =>
              origin[q] \in Pairs /\ refresh[origin[q]] = "spent")'
          BY <2>4, <3>2 DEF Chain
    <3>7. \A j \in Calls : Issuing(j)' =>
              code'[call'[j].a] = "consumed" /\ \A q \in Pairs : family'[q] = call'[j].a => origin'[q] # None
          BY <3>1, <3>2, <3>3 DEF Chain
    <3> QED
        BY <3>3, <3>4, <3>5, <3>6, <3>7 DEF Chain
  <2>5. ASSUME NEW p \in Pairs, Issued(k, p, call[k].p), At(k, "refresh", "rotate"),
               refresh[call[k].p] = "live", refresh' = [refresh EXCEPT ![call[k].p] = "spent"]
        PROVE  Chain'
    <3>1. /\ family[p] = None /\ call[k].a \in Families /\ call[k].p \in Pairs /\ code' = code
          /\ \A q \in Pairs : family[q] # None => origin[q] # call[k].p
          BY <1>0, <2>5 DEF Issued, Chain, CallSound
    <3>2. /\ family'[p] = call[k].a /\ origin'[p] = call[k].p
          /\ \A q \in Pairs : q # p => family'[q] = family[q] /\ origin'[q] = origin[q]
          /\ refresh'[call[k].p] = "spent" /\ \A q \in Pairs : refresh[q] = "spent" => refresh'[q] = "spent"
          BY <1>0, <2>5, <3>1 DEF Issued, RowsTyped
    <3>3. \A j \in Calls : Issuing(j)' => Issuing(j) /\ call'[j] = call[j]
          BY <2>5 DEF Issued, Moved
    <3>4. TokensFormAChain'
          BY <3>1, <3>2 DEF Chain, TokensFormAChain
    <3>5. (\A q \in Pairs : family[q] # None /\ origin[q] = None => code[family[q]] = "consumed")'
          BY <3>1, <3>2 DEF Chain
    <3>6. (\A q \in Pairs : family[q] # None /\ origin[q] # None =>
              origin[q] \in Pairs /\ refresh[origin[q]] = "spent")'
          BY <3>1, <3>2 DEF Chain
    <3>7. \A j \in Calls : Issuing(j)' =>
              code'[call'[j].a] = "consumed" /\ \A q \in Pairs : family'[q] = call'[j].a => origin'[q] # None
          BY <3>1, <3>2, <3>3 DEF Chain
    <3> QED
        BY <3>3, <3>4, <3>5, <3>6, <3>7 DEF Chain
  <2>6. ASSUME NEW step \in {"family", "validate", "kill", "denied"}, Read(k, step)
        PROVE  Chain'
        BY <2>1, <2>6 DEF Read, Steps
  <2>7. ASSUME NEW step \in {"ok", "denied"}, Revoking(k, step)
        PROVE  Chain'
        BY <2>1, <2>7 DEF Revoking, Steps
  <2>8. ASSUME NEW next \in {"replace", "consume", "rotate", "ok"}, NEW denied \in {"denied", "kill"},
               Validated(k, next, denied)
        PROVE  Chain'
        BY <2>1, <2>8 DEF Validated, Steps
  <2>9. ASSUME CodeSet(k, "ok", "fresh")
        PROVE  Chain'
        BY <2>1, <2>9 DEF CodeSet, Steps
  <2>10. ASSUME At(k, "exchange", "issue"), Read(k, "insert")
         PROVE  Chain'
         BY <1>2, <2>10 DEF Read, Moved
  <2> QED
      BY <1>3, <2>2, <2>3, <2>4, <2>5, <2>6, <2>7, <2>8, <2>9, <2>10, ServeMoves
<1>4. ASSUME NEW k \in Calls, Answer(k)
      PROVE  Chain'
  <2>1. Answered(k)
        BY <1>4, AnswerMoves DEF Safe
  <2> QED
      BY <1>2, <2>1 DEF Answered, Idle
<1>5. ASSUME NEW g \in Grants, NEW k \in Calls,
             Authorize(g, k) \/ Exchange(g, k) \/ Use(g, k) \/ Refresh(g, k) \/ Revoke(g, k)
      PROVE  Chain'
      BY <1>2, <1>5, AskMoves DEF Begun, FirstStep
<1>6. ASSUME NEW g \in Grants, RevokeGrant(g) \/ RevokeGrantOnly(g) \/ LapseGrant(g) \/ LoseAnswer(g)
      PROVE  Chain'
      BY <1>2, <1>6 DEF RevokeGrant, RevokeGrantOnly, LapseGrant, LoseAnswer
<1>7. ASSUME Crash PROVE Chain'
      BY <1>2, <1>7 DEF Crash, Idle
<1>8. ASSUME Expire PROVE Chain'
      BY <1>2, <1>8 DEF Expire
<1>9. CASE UNCHANGED vars
      BY <1>2, <1>9 DEF vars
<1> QED
    BY <1>3, <1>4, <1>5, <1>6, <1>7, <1>8, <1>9 DEF Next, Ask
-----------------------------------------------------------------------------
(* The theorems *)

\* Types, for every number of grants, calls, families and tokens.
THEOREM TypeCorrect == Spec => []TypeOK
<1>1. Safe => TypeOK
      BY DEF Safe
<1> QED
    BY InitSafe, SafeStep, <1>1, PTL DEF Spec

Inductive == Safe /\ CodesFresh /\ Chain /\ RefusalEndsFamily /\ OneFamilyPerGrant /\ Doomed

LEMMA InductiveHolds == Spec => []Inductive
<1>1. Init => Inductive
  <2> SUFFICES ASSUME Init PROVE Inductive
      OBVIOUS
  <2>1. Safe
        BY InitSafe
  <2>2. CodesFresh /\ RefusalEndsFamily /\ Doomed
        BY DEF Init, Idle, CodesFresh, RefusalEndsFamily, Doomed, At
  <2>3. OneFamilyPerGrant
        BY DEF Init, OneFamilyPerGrant
  <2>4. Chain
        BY DEF Init, Idle, Chain, Issuing, TokensFormAChain, At
  <2> QED
      BY <2>1, <2>2, <2>3, <2>4 DEF Inductive
<1>2. Inductive /\ [Next]_vars => Inductive'
      BY SafeStep, CodesFreshStep, ChainStep, RefusalStep, OneFamilyStep, DoomedStep DEF Inductive
<1> QED
    BY <1>1, <1>2, PTL DEF Spec

\* A code and a refresh token are exchanged at most once, however many copies of
\* a request run at the same time: the conditional UPDATE of
\* consume_authorization_code and the row locks of replace_refresh_token decide.
THEOREM TokensChained == Spec => []TokensFormAChain
<1>1. Inductive => TokensFormAChain
      BY DEF Inductive, Chain
<1> QED
    BY <1>1, InductiveHolds, PTL

\* What was dead when it was presented is refused: every endpoint reads its rows
\* and validates the grant after the request has come in.
THEOREM DeadRefused == Spec => []DeadIsRefused
<1>1. Inductive => DeadIsRefused
      BY DEF Inductive, Doomed, DoomedAt, DeadIsRefused
<1> QED
    BY <1>1, InductiveHolds, PTL

\* A refusal before the token's time leaves no family behind it.
THEOREM RefusalEnds == Spec => []RefusalEndsFamily
<1>1. Inductive => RefusalEndsFamily
      BY DEF Inductive
<1> QED
    BY <1>1, InductiveHolds, PTL

\* At most one family of a grant is in force.
THEOREM FamilyUnique == Spec => []OneFamilyPerGrant
<1>1. Inductive => OneFamilyPerGrant
      BY DEF Inductive
<1> QED
    BY <1>1, InductiveHolds, PTL

\* Of all copies of a grant's codes and refresh tokens at most one leads on.
THEOREM ChainUnique == Spec => []OneChainPerGrant
<1>1. TokensFormAChain /\ OneFamilyPerGrant => OneChainPerGrant
      BY DEF OneChainPerGrant
<1> QED
    BY <1>1, TokensChained, FamilyUnique, PTL
-----------------------------------------------------------------------------
(* The authorizations are CredentialChains *)

LEMMA LedgerInit == Init => Ledger!Init
<1> SUFFICES ASSUME Init PROVE Ledger!Init
    OBVIOUS
<1>1. {g \in Grants : grant[g] = "revoked"} = {}
      BY DEF Init
<1>2. {a \in Families : revoked[a]} = {}
      BY DEF Init
<1>3. Due = {}
      BY DEF Init, Due, At, Idle
<1> QED
    BY <1>1, <1>2, <1>3 DEF Init, Ledger!Init

\* a call that is not about to insert, and will not be, leaves Due alone
LEMMA DueKept ==
    ASSUME NEW k \in Calls, ~At(k, "exchange", "insert"), ~At(k, "exchange", "insert")',
           \A j \in Calls : j # k => call'[j] = call[j]
    PROVE  Due' = Due
<1>1. \A j \in Calls : At(j, "exchange", "insert")' <=> At(j, "exchange", "insert")
      BY DEF At
<1>2. \A j \in Calls : At(j, "exchange", "insert") => call'[j] = call[j]
      OBVIOUS
<1> QED
    BY <1>1, <1>2 DEF Due

\* the families in A end, and no other
Ends(A) == \A a \in Families : revoked'[a] <=> a \in A \/ revoked[a]

LEMMA EndsAre ==
    ASSUME NEW A \in SUBSET Families, Ends(A)
    PROVE  {a \in Families : revoked'[a]} = {a \in Families : revoked[a]} \cup A
BY DEF Ends

LEMMA RevokedAllEnds ==
    ASSUME RowsTyped, NEW A, revoked' = RevokedAll(A)
    PROVE  Ends(A)
BY RevokedAllIs DEF Ends

LEMMA EndIsEnd ==
    ASSUME NEW a \in Families, Ends({a}), UNCHANGED <<grant, owner, family, origin, Due>>
    PROVE  Ledger!End(a)
<1>1. {b \in Families : revoked'[b]} = {b \in Families : revoked[b]} \cup {a}
      BY EndsAre
<1> QED
    BY <1>1 DEF Ledger!End

LEMMA OverIsDismiss ==
    ASSUME RowsTyped, NEW g \in Grants, Over(g),
           revoked' = revoked \/ revoked' = RevokedAll(FamiliesOf(g)),
           UNCHANGED <<owner, family, origin, Due>>
    PROVE  Ledger!Dismiss(g)
<1>1. {h \in Grants : grant'[h] = "revoked"} = {h \in Grants : grant[h] = "revoked"} \cup {g}
      BY DEF Over, RowsTyped
<1>2. FamiliesOf(g) \in SUBSET Families /\ FamiliesOf(g) = Ledger!ChainsOf(g)
      BY DEF FamiliesOf, Ledger!ChainsOf
<1>3. CASE revoked' = revoked
      BY <1>1, <1>3 DEF Ledger!Dismiss
<1>4. CASE revoked' = RevokedAll(FamiliesOf(g))
  <2>1. {a \in Families : revoked'[a]} = {a \in Families : revoked[a]} \cup Ledger!ChainsOf(g)
        BY <1>2, <1>4, RevokedAllEnds, EndsAre
  <2> QED
      BY <1>1, <2>1 DEF Ledger!Dismiss
<1> QED
    BY <1>3, <1>4

LEMMA ReplacedIsOpen ==
    ASSUME NEW k \in Calls, NEW a \in Families, Replaced(k, a), UNCHANGED Due
    PROVE  \E g \in Grants : Ledger!Open(g, a)
<1>1. PICK g \in Grants : g = call[k].g
      BY DEF Replaced
<1>2. /\ owner[a] = None /\ owner' = [owner EXCEPT ![a] = g] /\ grant[g] # "revoked"
      /\ UNCHANGED <<grant, family, origin>>
      BY <1>1 DEF Replaced
<1>3. Ends(Ledger!ChainsOf(g)) /\ Ledger!ChainsOf(g) \in SUBSET Families
      BY <1>1 DEF Replaced, Ends, Ledger!ChainsOf
<1>4. {b \in Families : revoked'[b]} = {b \in Families : revoked[b]} \cup Ledger!ChainsOf(g)
      BY <1>3, EndsAre
<1>5. Ledger!Open(g, a)
      BY <1>2, <1>4 DEF Ledger!Open
<1> QED
    BY <1>5

LEMMA IssuedIsExchange ==
    ASSUME NEW k \in Calls, NEW p \in Pairs, NEW o \in Pairs, Issued(k, p, o), UNCHANGED Due,
           call[k].a \in Families, owner[call[k].a] # None, ~revoked[call[k].a],
           family[o] = call[k].a,
           \A q \in Pairs : family[q] = call[k].a => origin[q] # o
    PROVE  \E l \in Families : Ledger!Exchange(l, o, p)
<1>1. PICK l \in Families : l = call[k].a
      OBVIOUS
<1>2. /\ owner[l] # None /\ ~revoked[l] /\ family[o] = l /\ family[p] = None
      /\ family' = [family EXCEPT ![p] = l] /\ origin' = [origin EXCEPT ![p] = o]
      /\ UNCHANGED <<grant, owner, revoked>>
      BY <1>1 DEF Issued
<1>3. ~Ledger!Exchanged(l, o)
      BY <1>1 DEF Ledger!Exchanged
<1>4. Ledger!Exchange(l, o, p)
      BY <1>2, <1>3 DEF Ledger!Exchange, Ledger!Add
<1> QED
    BY <1>4

\* the read of issue_token_pair that found the family in force
LEMMA ReadIsPromise ==
    ASSUME Safe, Chain, NEW k \in Calls, At(k, "exchange", "issue"), ~revoked[call[k].a], Read(k, "insert")
    PROVE  \E l \in Families : Ledger!Promise(l)
<1>1. PICK l \in Families : l = call[k].a /\ owner[l] # None
      BY DEF Safe, CallSound, At
<1>2. Issuing(k) /\ \A j \in Calls : At(j, "exchange", "insert") => Issuing(j) /\ j # k
      BY DEF Issuing, At
<1>3. l \notin Due /\ \A p \in Pairs : family[p] = l => origin[p] # None
      BY <1>1, <1>2 DEF Chain, Due
<1>4. Due' = Due \cup {l}
  <2>1. \A j \in Calls : j # k => call'[j] = call[j]
        BY DEF Read, Moved
  <2>2. At(k, "exchange", "insert")' /\ call'[k].a = l /\ ~At(k, "exchange", "insert")
        BY <1>1 DEF Read, Moved, At
  <2>3. \A j \in Calls : j # k => At(j, "exchange", "insert")' = At(j, "exchange", "insert")
        BY <2>1 DEF At
  <2> QED
      BY <2>1, <2>2, <2>3 DEF Due
<1>5. Ledger!Promise(l)
      BY <1>1, <1>3, <1>4 DEF Ledger!Promise, Ledger!Exchanged, Read, rows
<1> QED
    BY <1>5

\* its INSERT, whether the family is still in force or not
LEMMA InsertIsFirst ==
    ASSUME Safe, Chain, NEW k \in Calls, NEW p \in Pairs, At(k, "exchange", "insert"), Issued(k, p, None)
    PROVE  \E l \in Families : Ledger!First(l, p)
<1>1. PICK l \in Families : l = call[k].a
      BY DEF Safe, CallSound, At
<1>2. l \in Due
      BY <1>1 DEF Due
<1>3. \A j \in Calls : At(j, "exchange", "insert") /\ call[j].a = l => j = k
      BY <1>1 DEF Chain, Issuing, At
<1>4. Due' = Due \ {l}
  <2>1. ~At(k, "exchange", "insert")' /\ \A j \in Calls : j # k => call'[j] = call[j]
        BY DEF Issued, Moved, At
  <2>2. \A j \in Calls : At(j, "exchange", "insert")' <=> At(j, "exchange", "insert") /\ j # k
        BY <2>1 DEF At
  <2> QED
      BY <1>1, <1>3, <2>1, <2>2 DEF Due
<1>5. Ledger!First(l, p)
      BY <1>1, <1>2, <1>4 DEF Issued, Ledger!First, Ledger!Add
<1> QED
    BY <1>5

LEMMA LedgerStep ==
    ASSUME Safe, Chain, [Next]_vars
    PROVE  [Ledger!Next]_(Ledger!vars)
<1>0. RowsTyped /\ \A k \in Calls : CallSound(call[k])
      BY DEF Safe, TypeOK
<1>1. CASE UNCHANGED <<grant, owner, revoked, family, origin, Due>>
      BY <1>1 DEF Ledger!vars
<1>2. ASSUME NEW k \in Calls, Serve(k)
      PROVE  [Ledger!Next]_(Ledger!vars)
  <2> DEFINE Apart(step) == ~At(k, "exchange", "insert") /\ step # "insert"
  <2>0. ASSUME NEW step, NEW a, NEW p, Moved(k, step, a, p), Apart(step)
        PROVE  Due' = Due
        BY <2>0, DueKept DEF Moved, At
  <2>1. ASSUME NEW step, Read(k, step), Apart(step)
        PROVE  UNCHANGED <<grant, owner, revoked, family, origin, Due>>
        BY <2>0, <2>1 DEF Read, rows
  <2>2. ASSUME NEW step, NEW value, CodeSet(k, step, value), Apart(step)
        PROVE  UNCHANGED <<grant, owner, revoked, family, origin, Due>>
        BY <2>0, <2>2 DEF CodeSet
  <2>3. ASSUME NEW next, NEW denied, Validated(k, next, denied), call[k].at = "validate",
               Apart(next), Apart(denied)
        PROVE  [Ledger!Next]_(Ledger!vars)
    <3>1. call[k].g \in Grants
          BY <1>0, <2>3 DEF CallSound
    <3>0. Due' = Due
          BY <2>0, <2>3 DEF Validated
    <3>2. CASE UNCHANGED <<grant, revoked>>
          BY <1>1, <2>3, <3>0, <3>2 DEF Validated
    <3>3. CASE Over(call[k].g) /\ revoked' = RevokedAll(FamiliesOf(call[k].g))
      <4>1. PICK g \in Grants : Ledger!Dismiss(g)
            BY <1>0, <2>3, <3>0, <3>1, <3>3, OverIsDismiss DEF Validated
      <4> QED
          BY <4>1 DEF Ledger!Next
    <3> QED
        BY <2>3, <3>2, <3>3 DEF Validated
  <2>4. ASSUME NEW a \in Families, Replaced(k, a), At(k, "authorize", "replace")
        PROVE  [Ledger!Next]_(Ledger!vars)
    <3>1. Due' = Due
          BY <2>0, <2>4 DEF Replaced, At
    <3>2. PICK g \in Grants : Ledger!Open(g, a)
          BY <2>4, <3>1, ReplacedIsOpen
    <3> QED
        BY <3>2 DEF Ledger!Next
  <2>5. ASSUME NEW p \in Pairs, Issued(k, p, None), At(k, "exchange", "insert")
        PROVE  [Ledger!Next]_(Ledger!vars)
    <3>1. PICK l \in Families : Ledger!First(l, p)
          BY <2>5, InsertIsFirst
    <3> QED
        BY <3>1 DEF Ledger!Next
  <2>6. ASSUME NEW p \in Pairs, Issued(k, p, call[k].p), At(k, "refresh", "rotate"),
               refresh[call[k].p] = "live", ~revoked[call[k].a]
        PROVE  [Ledger!Next]_(Ledger!vars)
    <3>1. PICK o \in Pairs : o = call[k].p
          BY <1>0, <2>6 DEF CallSound, At
    <3>2. /\ call[k].a \in Families /\ owner[call[k].a] # None /\ family[o] = call[k].a
          /\ \A q \in Pairs : family[q] = call[k].a => origin[q] # o
          BY <1>0, <2>6, <3>1, NoneApart DEF CallSound, Chain, At
    <3>3. Due' = Due
          BY <2>0, <2>6 DEF Issued, At
    <3>4. PICK l \in Families : Ledger!Exchange(l, o, p)
          BY <2>6, <3>1, <3>2, <3>3, IssuedIsExchange
    <3> QED
        BY <3>4 DEF Ledger!Next
  <2>7. ASSUME NEW step, Revoking(k, step), Apart(step), call[k].op \in {"exchange", "refresh", "use", "revoke"}
        PROVE  [Ledger!Next]_(Ledger!vars)
    <3>1. PICK a \in Families : a = call[k].a
          BY <1>0, <2>7 DEF CallSound
    <3>2. Due' = Due
          BY <2>0, <2>7 DEF Revoking
    <3>3. Ledger!End(a)
          BY <2>7, <3>1, <3>2, EndIsEnd DEF Revoking, Ends
    <3> QED
        BY <3>3 DEF Ledger!Next
  <2>8. call[k].at = "kill" => call[k].op \in {"exchange", "refresh", "use", "revoke"}
        BY <1>0 DEF Safe, TypeOK, CallRecords, CallSound
  <2>9. ASSUME At(k, "exchange", "issue"), ~revoked[call[k].a], Read(k, "insert")
        PROVE  [Ledger!Next]_(Ledger!vars)
    <3>1. PICK l \in Families : Ledger!Promise(l)
          BY <2>9, ReadIsPromise
    <3> QED
        BY <3>1 DEF Ledger!Next
  <2> QED
      BY <1>1, <1>2, <2>1, <2>2, <2>3, <2>4, <2>5, <2>6, <2>7, <2>8, <2>9, ServeMoves DEF At
<1>3. ASSUME NEW k \in Calls, Answer(k)
      PROVE  UNCHANGED <<grant, owner, revoked, family, origin, Due>>
  <2>1. Due' = Due
        BY <1>3, AnswerMoves, DueKept DEF Safe, Answered, Idle, At
  <2> QED
      BY <1>3, <2>1 DEF Answer, rows
<1>4. ASSUME NEW g \in Grants, NEW k \in Calls,
             Authorize(g, k) \/ Exchange(g, k) \/ Use(g, k) \/ Refresh(g, k) \/ Revoke(g, k)
      PROVE  UNCHANGED <<grant, owner, revoked, family, origin, Due>>
  <2>1. ASSUME NEW op, NEW a, NEW p, Begun(g, k, op, a, p)
        PROVE  Due' = Due
        BY <2>1, DueKept DEF Begun, FirstStep, At
  <2>2. Due' = Due
        BY <1>4, <2>1, AskMoves
  <2> QED
      BY <1>4, <2>2 DEF Authorize, Exchange, Use, Refresh, Revoke, Begin, rows
<1>5. ASSUME NEW g \in Grants, RevokeGrant(g) \/ RevokeGrantOnly(g)
      PROVE  [Ledger!Next]_(Ledger!vars)
  <2>1. Due' = Due
        BY <1>5 DEF RevokeGrant, RevokeGrantOnly, Due, At
  <2>2. Ledger!Dismiss(g)
        BY <1>0, <1>5, <2>1, OverIsDismiss DEF RevokeGrant, RevokeGrantOnly, Over, rows
  <2> QED
      BY <2>2 DEF Ledger!Next
<1>6. ASSUME NEW g \in Grants, LapseGrant(g)
      PROVE  [Ledger!Next]_(Ledger!vars)
  <2>1. {h \in Grants : grant'[h] = "revoked"} = {h \in Grants : grant[h] = "revoked"}
        BY <1>0, <1>6 DEF LapseGrant, RowsTyped
  <2>2. Due' = Due
        BY <1>6 DEF LapseGrant, Due, At
  <2> QED
      BY <1>6, <2>1, <2>2 DEF LapseGrant, rows, Ledger!vars
<1>7. ASSUME NEW g \in Grants, LoseAnswer(g)
      PROVE  UNCHANGED <<grant, owner, revoked, family, origin, Due>>
      BY <1>7 DEF LoseAnswer, rows, Due, At
<1>8. ASSUME Crash
      PROVE  Ledger!Forget
  <2>1. Due' = {}
        BY <1>8 DEF Crash, Idle, Due, At
  <2> QED
      BY <1>8, <2>1 DEF Crash, rows, Ledger!Forget
<1>9. Expire \/ UNCHANGED vars => UNCHANGED <<grant, owner, revoked, family, origin, Due>>
      BY DEF Expire, vars, rows, Due, At
<1>10. Crash => Ledger!Next
       BY <1>8 DEF Ledger!Next
<1> QED
    BY <1>1, <1>2, <1>3, <1>4, <1>5, <1>6, <1>7, <1>9, <1>10 DEF Next, Ask

\* The authorizations keep the promise of CredentialChains, whatever copies of
\* requests, Disconnects, restarts and ends of grants overlap: nothing is issued
\* twice for one code or token, Connect ends what the grant had before, and in a
\* family that has ended no token is exchanged; all that may still come is the
\* pair for its code, if issue_token_pair had read the family before its end.
THEOREM ChainsImplemented == Spec => ImplementsChains
<1>1. Inductive => Safe /\ Chain
      BY DEF Inductive
<1> QED
    BY <1>1, LedgerInit, LedgerStep, InductiveHolds, PTL DEF Spec, ImplementsChains, Ledger!Spec
=============================================================================
