-------------------------- MODULE BffSessionProofs --------------------------
(***************************************************************************)
(* Theorems about BffSession for every number of browsers, client keys,    *)
(* requests and mints.                                                     *)
(***************************************************************************)
EXTENDS BffSession, TLAPS

-----------------------------------------------------------------------------
(* The inductive invariant.  A token in anybody's hands comes from a mint   *)
(* that has settled for the holder's client key; what a request knows of    *)
(* its session follows from how far it has come.                            *)
OfClient(t, b) ==
  t # NoToken => mint[t].state = "settled" /\ mint[t].key = ClientKey[b]

UnderWay == {"asked", "created", "refused"}

SlotsOK ==
  \A k \in Keys : mintsInFlight[k] # NoToken =>
    mint[mintsInFlight[k]].state \in UnderWay /\ mint[mintsInFlight[k]].key = k

LiveOK == \A m \in live : mint[m].state \in {"created", "settled"}

CookiesOK == \A b \in Browsers : OfClient(cookie[b], b)

TokensOK(r) ==
  /\ OfClient(req[r].token, req[r].browser)
  /\ OfClient(req[r].jar, req[r].browser)
  /\ OfClient(req[r].carried, req[r].browser)

MintingOK(r) ==
  req[r].pc = "minting" =>
    /\ req[r].mint \in Mints
    /\ mint[req[r].mint].state \in UnderWay
    /\ mint[req[r].mint].key = ClientKey[req[r].browser]

\* Nothing has taken effect yet for a request that may still be sent.
EffectsOK(r) ==
  (req[r].pc \in {"new", "arrived", "minting", "sent"}
     \/ (req[r].pc = "served" /\ req[r].status # 200))
  => \A e \in effects : e[1] # r

StatusOK(r) ==
  /\ req[r].pc \in {"sent", "served"} => req[r].token \in Mints
  /\ req[r].pc \in {"served", "answered"} /\ req[r].status = 401 =>
       req[r].token \in Mints \ live
  /\ req[r].pc = "answered" /\ req[r].status = 401 => req[r].minted

\* The jar is changed only when the request came without a living workspace.
JarOK(r) ==
  /\ req[r].pc \in {"sent", "served"} /\ ~req[r].minted =>
       req[r].token = req[r].carried /\ ~req[r].changed
  /\ req[r].pc = "arrived" => req[r].jar = req[r].carried /\ ~req[r].changed
  /\ req[r].changed \/ req[r].pc = "minting" => req[r].carried \notin live

RowOK(r) == TokensOK(r) /\ MintingOK(r) /\ EffectsOK(r) /\ StatusOK(r) /\ JarOK(r)

SInv == SlotsOK /\ LiveOK /\ CookiesOK /\ EffectOnce /\ \A r \in Requests : RowOK(r)

-----------------------------------------------------------------------------
\* The empty row of a slot is a row.
LEMMA EmptyRowType ==
  ASSUME NEW pc \in Stages
  PROVE  /\ NoRequest(pc) \in RequestRows
         /\ NoRequest(pc).pc = pc
         /\ NoRequest(pc).token = NoToken
         /\ NoRequest(pc).jar = NoToken
         /\ NoRequest(pc).carried = NoToken
         /\ NoRequest(pc).changed = FALSE
         /\ NoRequest(pc).status = 0
<1>1. (CHOOSE b \in Browsers : TRUE) \in Browsers /\ (CHOOSE p \in Paths : TRUE) \in Paths
  BY NonEmptyAssumption
<1>2. QED
  BY <1>1 DEF NoRequest, EmptyRow, RequestRows, Tokens, Statuses

\* The rows the handler moves a request to are rows.
LEMMA SentRow ==
  ASSUME NEW row \in RequestRows, NEW t \in Tokens, NEW minted \in BOOLEAN
  PROVE  SentWith(row, t, minted) \in RequestRows
<1>1. 0 \in Statuses /\ "sent" \in Stages
  BY DEF Statuses, Stages
<1>2. QED
  BY <1>1 DEF SentWith, RequestRows

LEMMA RefusedRow ==
  ASSUME NEW row \in RequestRows, NEW status \in Statuses
  PROVE  Refused(row, status) \in RequestRows
  BY DEF Refused, RequestRows, Stages

LEMMA ClearedRow ==
  ASSUME NEW row \in RequestRows
  PROVE  Cleared(row) \in RequestRows
  BY DEF Cleared, RequestRows, Tokens

LEMMA ResumedRow ==
  ASSUME NEW row \in RequestRows, NEW m \in Mints, NEW ok \in BOOLEAN
  PROVE  Resumed(row, m, ok) \in RequestRows
<1>1. SentWith(row, m, TRUE) \in RequestRows
  BY SentRow DEF Tokens
<1>2. [SentWith(row, m, TRUE) EXCEPT !.jar = m, !.changed = TRUE] \in RequestRows
  BY <1>1 DEF RequestRows, Tokens
<1>3. Refused(row, 503) \in RequestRows
  BY RefusedRow DEF Statuses
<1>4. QED
  BY <1>2, <1>3 DEF Resumed

\* Nothing is minted, sent or written at the start.
LEMMA InitEstablishes == Init => SessionTypeOK /\ SInv
<1> SUFFICES ASSUME Init PROVE SessionTypeOK /\ SInv
  OBVIOUS
<1>1. (CHOOSE k \in Keys : TRUE) \in Keys
  BY NonEmptyAssumption
<1>2. \A r \in Requests : req[r] = NoRequest("new")
  BY DEF Init
<1>3. SessionTypeOK
  BY <1>1, EmptyRowType, MaxResetsAssumption DEF Init, SessionTypeOK, Tokens, Stages
<1>4. ASSUME NEW r \in Requests PROVE RowOK(r)
  BY <1>2, EmptyRowType
  DEF Init, RowOK, TokensOK, MintingOK, EffectsOK, StatusOK, JarOK, OfClient, Stages
<1>5. SlotsOK /\ LiveOK /\ CookiesOK /\ EffectOnce
  BY DEF Init, SlotsOK, LiveOK, CookiesOK, EffectOnce, OfClient
<1>6. QED
  BY <1>3, <1>4, <1>5 DEF SInv

-----------------------------------------------------------------------------
(* One lemma per action.                                                    *)

\* A request that arrives brings a cookie of its own browser.
LEMMA SendStep ==
  ASSUME SessionTypeOK, SInv, NEW r \in Requests, NEW b \in Browsers, NEW p \in Paths, Send(r, b, p)
  PROVE  SessionTypeOK' /\ SInv'
<1>0. cookie[b] \in Tokens
  BY DEF SessionTypeOK
<1>1. /\ Arrived(b, p) \in RequestRows
      /\ Arrived(b, p).pc = "arrived" /\ Arrived(b, p).browser = b
      /\ Arrived(b, p).token = NoToken /\ Arrived(b, p).changed = FALSE
      /\ Arrived(b, p).jar = cookie[b] /\ Arrived(b, p).carried = cookie[b]
  BY <1>0 DEF Arrived, EmptyRow, RequestRows, Stages, Tokens, Statuses
<1>2. SessionTypeOK'
  BY <1>1 DEF Send, SessionTypeOK
<1>3. ASSUME NEW s \in Requests PROVE RowOK(s)'
  <2>1. CASE s # r
    <3>1. req'[s] = req[s]
      BY <2>1 DEF Send, SessionTypeOK
    <3>2. RowOK(s)
      BY DEF SInv
    <3>3. QED
      BY <3>1, <3>2
      DEF Send, RowOK, TokensOK, MintingOK, EffectsOK, StatusOK, JarOK, OfClient
  <2>2. CASE s = r
    <3>1. req'[r] = Arrived(b, p)
      BY DEF Send, SessionTypeOK
    <3>2. req[r].pc = "new" /\ OfClient(cookie[b], b) /\ RowOK(r)
      BY DEF Send, SInv, CookiesOK
    <3>3. TokensOK(r)'
      BY <1>1, <3>1, <3>2 DEF Send, TokensOK, OfClient
    <3>6. (MintingOK(r) /\ StatusOK(r) /\ JarOK(r))'
      BY <1>1, <3>1 DEF MintingOK, StatusOK, JarOK
    <3>4. EffectsOK(r)'
      BY <3>2 DEF Send, RowOK, EffectsOK
    <3>5. QED
      BY <2>2, <3>3, <3>4, <3>6 DEF RowOK
  <2>3. QED
    BY <2>1, <2>2
<1>4. QED
  BY <1>2, <1>3 DEF Send, SInv, SlotsOK, LiveOK, CookiesOK, EffectOnce, OfClient

(* What the two branches of AwaitMint have in common: afterwards r waits    *)
(* for a mint of its own client key that is under way.                      *)
LEMMA AwaitMintStep ==
  ASSUME SessionTypeOK, SInv, NEW r \in Requests, NEW row \in RequestRows,
         AwaitMint(r, row), UNCHANGED <<cookie, live, effects, resets>>,
         OfClient(row.token, row.browser), OfClient(row.jar, row.browser),
         OfClient(row.carried, row.browser), row.carried \notin live,
         \A e \in effects : e[1] # r
  PROVE  SessionTypeOK' /\ SInv'
<1> DEFINE k == ClientKey[row.browser]
<1>1. k \in Keys
  BY ClientKeyAssumption DEF RequestRows
<1>2. CASE mintsInFlight[k] # NoToken
  <2>1. /\ req' = [req EXCEPT ![r] = [row EXCEPT !.pc = "minting", !.mint = mintsInFlight[k]]]
        /\ UNCHANGED <<mintsInFlight, mint>>
    BY <1>2 DEF AwaitMint
  <2>2. /\ mintsInFlight[k] \in Mints
        /\ mint[mintsInFlight[k]].state \in UnderWay
        /\ mint[mintsInFlight[k]].key = k
    BY <1>1, <1>2 DEF SessionTypeOK, SInv, SlotsOK, Tokens
  <2>3. SessionTypeOK'
    BY <2>1, <2>2 DEF SessionTypeOK, RequestRows, Stages, Tokens
  <2>4. ASSUME NEW s \in Requests PROVE RowOK(s)'
    <3>1. CASE s # r
      BY <2>1, <3>1 DEF SInv, SessionTypeOK, RowOK, TokensOK, MintingOK, EffectsOK, StatusOK, JarOK, OfClient
    <3>2. CASE s = r
      BY <2>1, <2>2, <3>2 DEF SessionTypeOK, RequestRows, RowOK, TokensOK, MintingOK, EffectsOK, StatusOK, JarOK, OfClient
    <3>3. QED
      BY <3>1, <3>2
  <2>5. QED
    BY <2>1, <2>3, <2>4 DEF SInv, SlotsOK, LiveOK, CookiesOK, EffectOnce, OfClient
<1>3. CASE mintsInFlight[k] = NoToken
  <2>1. PICK m \in Mints :
          /\ mint[m].state = "free"
          /\ mint' = [mint EXCEPT ![m] = [state |-> "asked", key |-> k]]
          /\ mintsInFlight' = [mintsInFlight EXCEPT ![k] = m]
          /\ req' = [req EXCEPT ![r] = [row EXCEPT !.pc = "minting", !.mint = m]]
    BY <1>3 DEF AwaitMint
  <2>2. mint'[m] = [state |-> "asked", key |-> k] /\ \A n \in Mints \ {m} : mint'[n] = mint[n]
    BY <2>1 DEF SessionTypeOK
  <2>3. SessionTypeOK'
    <3>1. mint' \in [Mints -> [state : {"free", "asked", "created", "refused", "settled"}, key : Keys]]
      BY <1>1, <2>1 DEF SessionTypeOK
    <3>2. mintsInFlight' \in [Keys -> Tokens]
      BY <2>1 DEF SessionTypeOK, Tokens
    <3>3. req' \in [Requests -> RequestRows]
      BY <2>1 DEF SessionTypeOK, RequestRows, Stages, Tokens
    <3>4. \A j \in Keys : mintsInFlight'[j] # NoToken =>
            mint'[mintsInFlight'[j]].state \in {"asked", "created", "refused"}
      BY <2>1, <2>2 DEF SessionTypeOK, Tokens
    <3>5. QED
      BY <3>1, <3>2, <3>3, <3>4 DEF SessionTypeOK
  <2>4. ASSUME NEW t \in Tokens, NEW b, OfClient(t, b) PROVE OfClient(t, b)'
    BY <2>1, <2>2, <2>4 DEF OfClient, Tokens
  <2>5. ASSUME NEW s \in Requests PROVE RowOK(s)'
    <3>1. CASE s # r
      <4>1. req'[s] = req[s] /\ req[s] \in RequestRows
        BY <2>1, <3>1 DEF SessionTypeOK
      <4>2. TokensOK(s)'
        BY <2>4, <4>1 DEF SInv, RowOK, TokensOK, RequestRows
      <4>3. MintingOK(s)'
        BY <2>1, <2>2, <4>1 DEF SInv, RowOK, MintingOK, UnderWay, RequestRows
      <4>4. (EffectsOK(s) /\ StatusOK(s) /\ JarOK(s))'
        BY <4>1 DEF SInv, RowOK, EffectsOK, StatusOK, JarOK
      <4>5. QED
        BY <4>2, <4>3, <4>4 DEF RowOK
    <3>2. CASE s = r
      <4>1. req'[r] = [row EXCEPT !.pc = "minting", !.mint = m]
        BY <2>1 DEF SessionTypeOK
      <4>2. TokensOK(s)'
        <5>1. OfClient(row.token, row.browser)' /\ OfClient(row.jar, row.browser)' /\ OfClient(row.carried, row.browser)'
          BY <2>4 DEF RequestRows
        <5>2. QED
          BY <3>2, <4>1, <5>1 DEF TokensOK, RequestRows
      <4>3. MintingOK(s)'
        BY <2>2, <3>2, <4>1 DEF MintingOK, UnderWay, RequestRows
      <4>4. (EffectsOK(s) /\ StatusOK(s) /\ JarOK(s))'
        BY <3>2, <4>1 DEF EffectsOK, StatusOK, JarOK, RequestRows
      <4>5. QED
        BY <4>2, <4>3, <4>4 DEF RowOK
    <3>3. QED
      BY <3>1, <3>2
  <2>6. SlotsOK'
    BY <1>1, <2>1, <2>2 DEF SInv, SlotsOK, SessionTypeOK, Tokens, UnderWay
  <2>7. LiveOK'
    BY <2>1, <2>2 DEF SInv, LiveOK, SessionTypeOK
  <2>8. CookiesOK'
    BY <2>4 DEF SInv, CookiesOK, SessionTypeOK
  <2>9. EffectOnce'
    BY DEF SInv, EffectOnce
  <2>10. QED
    BY <2>3, <2>5, <2>6, <2>7, <2>8, <2>9 DEF SInv
<1>4. QED
  BY <1>2, <1>3

\* proxy() refuses, sends with the cookie's bearer, or waits for a mint.
LEMMA HandleStep ==
  ASSUME SessionTypeOK, SInv, NEW r \in Requests, Handle(r)
  PROVE  SessionTypeOK' /\ SInv'
<1>0. /\ req[r] \in RequestRows /\ req[r].pc = "arrived" /\ RowOK(r)
      /\ UNCHANGED <<cookie, live, effects, resets>>
  BY DEF SessionTypeOK, SInv, Handle
<1>1. CASE req[r].jar = NoToken /\ AwaitMint(r, req[r])
  <2>1. req[r].jar = NoToken => req[r].carried \notin live
    BY <1>0, NoTokenAssumption DEF RowOK, JarOK, SessionTypeOK
  <2>2. QED
    BY <1>0, <1>1, <2>1, AwaitMintStep DEF RowOK, TokensOK, EffectsOK
<1>2. ASSUME NEW row \in RequestRows, req' = [req EXCEPT ![r] = row],
             UNCHANGED <<mintsInFlight, mint>>,
             OfClient(row.token, row.browser), OfClient(row.jar, row.browser),
             OfClient(row.carried, row.browser), row.changed = FALSE, row.status # 401,
             \/ row.pc = "answered"
             \/ /\ row.pc = "sent" /\ row.token \in Mints /\ row.token = row.carried
      PROVE  SessionTypeOK' /\ SInv'
  <2>1. SessionTypeOK'
    BY <1>0, <1>2 DEF SessionTypeOK
  <2>2. ASSUME NEW s \in Requests PROVE RowOK(s)'
    <3>1. CASE s # r
      BY <1>0, <1>2, <3>1 DEF SInv, SessionTypeOK, RowOK, TokensOK, MintingOK, EffectsOK, StatusOK, JarOK, OfClient
    <3>2. CASE s = r
      <4>1. req'[r] = row
        BY <1>2 DEF SessionTypeOK
      <4>2. EffectsOK(r)'
        BY <1>0, <1>2, <4>1 DEF RowOK, EffectsOK
      <4>3. TokensOK(r)'
        BY <1>2, <4>1 DEF TokensOK, OfClient
      <4>4. (MintingOK(r) /\ StatusOK(r) /\ JarOK(r))'
        BY <1>2, <4>1 DEF MintingOK, StatusOK, JarOK
      <4>5. QED
        BY <3>2, <4>2, <4>3, <4>4 DEF RowOK
    <3>3. QED
      BY <3>1, <3>2
  <2>3. QED
    BY <1>0, <1>2, <2>1, <2>2 DEF SInv, SlotsOK, LiveOK, CookiesOK, EffectOnce, OfClient
<1>3. CASE /\ Refusal(req[r].path) # 0
           /\ req' = [req EXCEPT ![r] = Refused(req[r], Refusal(req[r].path))]
           /\ UNCHANGED <<mintsInFlight, mint>>
  <2> DEFINE row == Refused(req[r], Refusal(req[r].path))
  <2>1. Refusal(req[r].path) \in {400, 403, 404, 503}
    BY <1>3 DEF Refusal
  <2>2. row \in RequestRows /\ row.pc = "answered" /\ row.status # 401
    <3>1. row \in RequestRows
      BY <1>0, <2>1, RefusedRow DEF Statuses
    <3>2. row.pc = "answered" /\ row.status = Refusal(req[r].path)
      BY <1>0 DEF Refused, RequestRows
    <3>3. QED
      BY <2>1, <3>1, <3>2
  <2>3. /\ row.token = req[r].token /\ row.jar = req[r].jar /\ row.carried = req[r].carried
        /\ row.browser = req[r].browser /\ row.changed = req[r].changed
    BY <1>0 DEF Refused, RequestRows
  <2>4. req[r].changed = FALSE
    BY <1>0 DEF RowOK, JarOK, RequestRows
  <2> HIDE DEF row
  <2>5. QED
    BY <1>0, <1>2, <1>3, <2>2, <2>3, <2>4 DEF RowOK, TokensOK, row
<1>4. CASE /\ req[r].jar # NoToken
           /\ req' = [req EXCEPT ![r] = SentWith(req[r], req[r].jar, FALSE)]
           /\ UNCHANGED <<mintsInFlight, mint>>
  <2> DEFINE row == SentWith(req[r], req[r].jar, FALSE)
  <2>1. req[r].changed = FALSE /\ req[r].jar = req[r].carried /\ req[r].jar \in Mints
    BY <1>0, <1>4 DEF RowOK, JarOK, RequestRows, Tokens
  <2>2. row \in RequestRows /\ row.pc = "sent" /\ row.status # 401
    <3>1. row \in RequestRows
      BY <1>0, <2>1, SentRow DEF Tokens
    <3>2. row.pc = "sent" /\ row.status = 0
      BY <1>0 DEF SentWith, RequestRows
    <3> HIDE DEF row
    <3>3. QED
      BY <3>1, <3>2
  <2>3. /\ row.token = req[r].jar /\ row.jar = req[r].jar /\ row.carried = req[r].carried
        /\ row.browser = req[r].browser /\ row.changed = req[r].changed
    BY <1>0 DEF SentWith, RequestRows
  <2> HIDE DEF row
  <2>4. QED
    BY <1>0, <1>2, <1>4, <2>1, <2>2, <2>3 DEF RowOK, TokensOK, row
<1>5. QED
  BY <1>1, <1>3, <1>4 DEF Handle

\* The service creates an organization: nobody holds its token yet.
LEMMA MintServedStep ==
  ASSUME SessionTypeOK, SInv, NEW m \in Mints, MintServed(m)
  PROVE  SessionTypeOK' /\ SInv'
<1>1. PICK st \in {"created", "refused"} :
        /\ mint' = [mint EXCEPT ![m].state = st]
        /\ live' = IF st = "created" THEN live \cup {m} ELSE live
  BY DEF MintServed
<1>2. mint[m].state = "asked" /\ UNCHANGED <<cookie, mintsInFlight, req, effects, resets>>
  BY DEF MintServed
<1>3. /\ mint'[m].state = st /\ mint'[m].key = mint[m].key
      /\ \A n \in Mints \ {m} : mint'[n] = mint[n]
      /\ mint' \in [Mints -> [state : {"free", "asked", "created", "refused", "settled"}, key : Keys]]
  BY <1>1 DEF SessionTypeOK
<1>4. SessionTypeOK'
  BY <1>1, <1>2, <1>3 DEF SessionTypeOK, Tokens
<1>5. ASSUME NEW t \in Tokens, NEW b, OfClient(t, b)
      PROVE  OfClient(t, b)' /\ (t # NoToken => t # m)
  BY <1>2, <1>3, <1>5 DEF OfClient, Tokens
<1>6. ASSUME NEW s \in Requests PROVE RowOK(s)'
  <2>1. req'[s] = req[s] /\ req[s] \in RequestRows /\ RowOK(s)
    BY <1>2 DEF SessionTypeOK, SInv
  <2>2. TokensOK(s)'
    BY <1>5, <2>1 DEF RowOK, TokensOK, RequestRows
  <2>3. MintingOK(s)'
    BY <1>3, <2>1 DEF RowOK, MintingOK, UnderWay
  <2>4. (req[s].token # NoToken => req[s].token # m) /\ (req[s].carried # NoToken => req[s].carried # m)
    BY <1>5, <2>1 DEF RowOK, TokensOK, RequestRows
  <2>5. (EffectsOK(s) /\ StatusOK(s) /\ JarOK(s))'
    BY <1>1, <1>2, <2>1, <2>4, NoTokenAssumption DEF RowOK, EffectsOK, StatusOK, JarOK
  <2>6. QED
    BY <2>2, <2>3, <2>5 DEF RowOK
<1>7. SlotsOK' /\ LiveOK'
  BY <1>1, <1>2, <1>3 DEF SInv, SlotsOK, LiveOK, SessionTypeOK, Tokens, UnderWay
<1>8. CookiesOK' /\ EffectOnce'
  BY <1>2, <1>5 DEF SInv, CookiesOK, EffectOnce, SessionTypeOK
<1>9. QED
  BY <1>4, <1>6, <1>7, <1>8 DEF SInv

\* The mint ends: the slot is free again, and every request that waited holds
\* a token of its own key or an answer.
LEMMA MintSettlesStep ==
  ASSUME SessionTypeOK, SInv, NEW m \in Mints, NEW ok \in BOOLEAN, MintSettles(m, ok)
  PROVE  SessionTypeOK' /\ SInv'
<1>1. /\ mint[m].state \in {"created", "refused"}
      /\ mint' = [mint EXCEPT ![m].state = "settled"]
      /\ mintsInFlight' = [k \in Keys |-> IF mintsInFlight[k] = m THEN NoToken ELSE mintsInFlight[k]]
      /\ UNCHANGED <<cookie, live, effects, resets>>
      /\ \A s \in Requests :
           req'[s] = IF req[s].pc = "minting" /\ req[s].mint = m THEN Resumed(req[s], m, ok) ELSE req[s]
  BY DEF MintSettles
<1>2. /\ mint'[m].state = "settled" /\ mint'[m].key = mint[m].key
      /\ \A n \in Mints \ {m} : mint'[n] = mint[n]
      /\ mint' \in [Mints -> [state : {"free", "asked", "created", "refused", "settled"}, key : Keys]]
  BY <1>1 DEF SessionTypeOK
<1>3. ASSUME NEW t \in Tokens, NEW b, OfClient(t, b) PROVE OfClient(t, b)'
  BY <1>1, <1>2, <1>3 DEF OfClient, Tokens
<1>4. ASSUME NEW s \in Requests PROVE Resumed(req[s], m, ok) \in RequestRows /\ req[s] \in RequestRows
  <2>1. req[s] \in RequestRows
    BY DEF SessionTypeOK
  <2>2. QED
    BY <2>1, ResumedRow
<1>5. SessionTypeOK'
  <2>1. req' \in [Requests -> RequestRows]
    BY <1>4 DEF MintSettles, SessionTypeOK
  <2>2. mintsInFlight' \in [Keys -> Tokens]
    BY <1>1 DEF SessionTypeOK, Tokens
  <2>3. \A j \in Keys : mintsInFlight'[j] # NoToken =>
          mint'[mintsInFlight'[j]].state \in {"asked", "created", "refused"}
    BY <1>1, <1>2 DEF SessionTypeOK, Tokens
  <2>4. QED
    BY <1>1, <1>2, <2>1, <2>2, <2>3 DEF SessionTypeOK
<1>6. ASSUME NEW s \in Requests PROVE RowOK(s)'
  <2>0. req[s] \in RequestRows /\ RowOK(s)
    BY DEF SessionTypeOK, SInv
  <2>1. CASE ~(req[s].pc = "minting" /\ req[s].mint = m)
    <3>1. req'[s] = req[s]
      BY <1>1, <2>1
    <3>2. TokensOK(s)'
      BY <1>3, <2>0, <3>1 DEF RowOK, TokensOK, RequestRows
    <3>3. MintingOK(s)'
      BY <1>2, <2>0, <2>1, <3>1 DEF RowOK, MintingOK, UnderWay
    <3>4. (EffectsOK(s) /\ StatusOK(s) /\ JarOK(s))'
      BY <1>1, <2>0, <3>1 DEF RowOK, EffectsOK, StatusOK, JarOK
    <3>5. QED
      BY <3>2, <3>3, <3>4 DEF RowOK
  <2>2. CASE req[s].pc = "minting" /\ req[s].mint = m
    <3>1. /\ req'[s] = Resumed(req[s], m, ok)
          /\ mint'[m].state = "settled" /\ mint'[m].key = ClientKey[req[s].browser]
      BY <1>1, <1>2, <2>0, <2>2 DEF RowOK, MintingOK
    <3>2. CASE ok
      <4>1. /\ req'[s].pc = "sent" /\ req'[s].token = m /\ req'[s].jar = m /\ req'[s].minted
            /\ req'[s].browser = req[s].browser /\ req'[s].carried = req[s].carried /\ req'[s].status = 0
        BY <2>0, <3>1, <3>2 DEF Resumed, SentWith, RequestRows
      <4>2. TokensOK(s)'
        <5>1. req[s].carried # NoToken =>
                /\ mint'[req[s].carried].state = "settled"
                /\ mint'[req[s].carried].key = ClientKey[req[s].browser]
          BY <1>1, <1>2, <2>0 DEF RowOK, TokensOK, OfClient, RequestRows, Tokens
        <5>2. QED
          BY <3>1, <4>1, <5>1 DEF TokensOK, OfClient
      <4>3. req[s].carried \notin live
        BY <1>1, <2>0, <2>2 DEF RowOK, JarOK
      <4>4. (MintingOK(s) /\ StatusOK(s) /\ JarOK(s) /\ EffectsOK(s))'
        BY <1>1, <2>0, <2>2, <4>1, <4>3 DEF RowOK, MintingOK, StatusOK, JarOK, EffectsOK
      <4>5. QED
        BY <4>2, <4>4 DEF RowOK
    <3>3. CASE ~ok
      <4>1. /\ req'[s].pc = "answered" /\ req'[s].token = req[s].token /\ req'[s].jar = req[s].jar
            /\ req'[s].browser = req[s].browser /\ req'[s].carried = req[s].carried
            /\ req'[s].changed = req[s].changed /\ req'[s].status = 503
        BY <2>0, <3>1, <3>3 DEF Resumed, Refused, RequestRows
      <4>2. TokensOK(s)'
        BY <1>3, <2>0, <4>1 DEF RowOK, TokensOK, RequestRows
      <4>3. (MintingOK(s) /\ StatusOK(s) /\ JarOK(s) /\ EffectsOK(s))'
        BY <1>1, <2>0, <4>1 DEF RowOK, MintingOK, StatusOK, JarOK, EffectsOK
      <4>4. QED
        BY <4>2, <4>3 DEF RowOK
    <3>4. QED
      BY <3>2, <3>3
  <2>3. QED
    BY <2>1, <2>2
<1>7. SlotsOK' /\ LiveOK'
  BY <1>1, <1>2 DEF SInv, SlotsOK, LiveOK, SessionTypeOK, Tokens, UnderWay
<1>8. CookiesOK' /\ EffectOnce'
  BY <1>1, <1>3 DEF SInv, CookiesOK, EffectOnce, SessionTypeOK
<1>9. QED
  BY <1>5, <1>6, <1>7, <1>8 DEF SInv

\* A step that gives r the row given and leaves the mints and the database
\* alone preserves what is known of everybody else.
LEMMA RowStep ==
  ASSUME SessionTypeOK, SInv, NEW r \in Requests, NEW row \in RequestRows,
         req' = [req EXCEPT ![r] = row], UNCHANGED <<mintsInFlight, mint, live, resets>>,
         cookie' \in [Browsers -> Tokens], CookiesOK',
         effects' \subseteq Requests \X Mints, EffectOnce',
         \A s \in Requests \ {r} : \A e \in effects' : e[1] = s => e \in effects,
         RowOK(r)'
  PROVE  SessionTypeOK' /\ SInv'
<1>1. SessionTypeOK'
  BY DEF SessionTypeOK
<1>2. ASSUME NEW s \in Requests, s # r PROVE RowOK(s)'
  <2>1. req'[s] = req[s] /\ RowOK(s)
    BY <1>2 DEF SInv, SessionTypeOK
  <2>2. (TokensOK(s) /\ MintingOK(s) /\ StatusOK(s) /\ JarOK(s))'
    BY <2>1 DEF RowOK, TokensOK, MintingOK, StatusOK, JarOK, OfClient
  <2>3. EffectsOK(s)'
    BY <1>2, <2>1 DEF RowOK, EffectsOK
  <2>4. QED
    BY <2>2, <2>3 DEF RowOK
<1>3. QED
  BY <1>1, <1>2 DEF SInv, SlotsOK, LiveOK

\* A write takes effect once, and a 401 means that the workspace is gone.
LEMMA UpstreamServesStep ==
  ASSUME SessionTypeOK, SInv, NEW r \in Requests, UpstreamServes(r)
  PROVE  SessionTypeOK' /\ SInv'
<1>0. /\ req[r] \in RequestRows /\ req[r].pc = "sent" /\ RowOK(r)
      /\ UNCHANGED <<cookie, mintsInFlight, mint, live, resets>>
  BY DEF SessionTypeOK, SInv, UpstreamServes
<1>1. PICK status \in IF req[r].token \in live THEN {200, 404} ELSE {401} :
        /\ req' = [req EXCEPT ![r] = Served(req[r], status)]
        /\ effects' = IF status = 200 /\ req[r].path.mutates
                      THEN effects \cup {<<r, req[r].token>>} ELSE effects
  BY DEF UpstreamServes
<1>2. req[r].token \in Mints /\ \A e \in effects : e[1] # r
  BY <1>0 DEF RowOK, StatusOK, EffectsOK
<1> DEFINE row == Served(req[r], status)
<1>3. req' = [req EXCEPT ![r] = row] /\ req'[r] = row
  BY <1>1 DEF SessionTypeOK
<1>4. /\ row.pc = "served" /\ row.status = status
      /\ row.token = req[r].token /\ row.jar = req[r].jar /\ row.carried = req[r].carried
      /\ row.browser = req[r].browser /\ row.changed = req[r].changed /\ row.minted = req[r].minted
  BY <1>0 DEF Served, RequestRows
<1>5. row \in RequestRows
  <2>1. status \in Statuses /\ "served" \in Stages
    BY <1>1 DEF Statuses, Stages
  <2>2. QED
    BY <1>0, <2>1 DEF Served, RequestRows
<1> HIDE DEF row
<1>6. TokensOK(r)'
  BY <1>0, <1>3, <1>4 DEF RowOK, TokensOK, OfClient
<1>7. EffectsOK(r)'
  BY <1>1, <1>2, <1>3, <1>4 DEF EffectsOK
<1>8. (MintingOK(r) /\ StatusOK(r) /\ JarOK(r))'
  BY <1>0, <1>1, <1>2, <1>3, <1>4 DEF RowOK, MintingOK, StatusOK, JarOK
<1>9. EffectOnce' /\ effects' \subseteq Requests \X Mints
  BY <1>1, <1>2 DEF SInv, EffectOnce, SessionTypeOK
<1>10. \A s \in Requests \ {r} : \A e \in effects' : e[1] = s => e \in effects
  BY <1>1
<1>11. cookie' \in [Browsers -> Tokens] /\ CookiesOK'
  BY <1>0 DEF SInv, CookiesOK, OfClient, SessionTypeOK
<1>12. RowOK(r)'
  BY <1>6, <1>7, <1>8 DEF RowOK
<1>13. QED
  BY <1>0, <1>3, <1>5, <1>9, <1>10, <1>11, <1>12, RowStep

\* A lost reply becomes a 503, whatever had taken effect.
LEMMA UpstreamLostStep ==
  ASSUME SessionTypeOK, SInv, NEW r \in Requests, UpstreamLost(r)
  PROVE  SessionTypeOK' /\ SInv'
<1>0. /\ req[r] \in RequestRows /\ RowOK(r)
      /\ UNCHANGED <<cookie, mintsInFlight, mint, live, effects, resets>>
      /\ req' = [req EXCEPT ![r] = Refused(req[r], 503)]
  BY DEF SessionTypeOK, SInv, UpstreamLost
<1> DEFINE row == Refused(req[r], 503)
<1>1. row \in RequestRows
  BY <1>0, RefusedRow DEF Statuses
<1>2. /\ row.pc = "answered" /\ row.status = 503
      /\ row.token = req[r].token /\ row.jar = req[r].jar /\ row.carried = req[r].carried
      /\ row.browser = req[r].browser /\ row.changed = req[r].changed
  BY <1>0 DEF Refused, RequestRows
<1> HIDE DEF row
<1>3. req'[r] = row
  BY <1>0 DEF SessionTypeOK, row
<1>4. TokensOK(r)'
  BY <1>0, <1>2, <1>3 DEF RowOK, TokensOK, OfClient
<1>5. (MintingOK(r) /\ StatusOK(r) /\ JarOK(r) /\ EffectsOK(r))'
  BY <1>0, <1>2, <1>3 DEF RowOK, MintingOK, StatusOK, JarOK, EffectsOK
<1>6. cookie' \in [Browsers -> Tokens] /\ CookiesOK' /\ EffectOnce' /\ effects' \subseteq Requests \X Mints
  BY <1>0 DEF SInv, CookiesOK, OfClient, SessionTypeOK, EffectOnce
<1>7. RowOK(r)'
  BY <1>4, <1>5 DEF RowOK
<1>8. QED
  BY <1>0, <1>1, <1>6, <1>7, RowStep DEF row

\* An old session that is gone is renewed; every other reply is passed on.
LEMMA RelayStep ==
  ASSUME SessionTypeOK, SInv, NEW r \in Requests, Relay(r)
  PROVE  SessionTypeOK' /\ SInv'
<1>0. /\ req[r] \in RequestRows /\ RowOK(r) /\ req[r].pc = "served"
      /\ UNCHANGED <<cookie, live, effects, resets>>
  BY DEF SessionTypeOK, SInv, Relay
<1>1. CASE Expired(req[r]) /\ AwaitMint(r, Cleared(req[r]))
  <2>1. /\ Cleared(req[r]).token = req[r].token /\ Cleared(req[r]).jar = NoToken
        /\ Cleared(req[r]).carried = req[r].carried /\ Cleared(req[r]).browser = req[r].browser
    BY <1>0 DEF Cleared, RequestRows
  <2>2. req[r].status = 401 /\ ~req[r].minted
    BY <1>1 DEF Expired
  <2>3. req[r].carried \notin live /\ \A e \in effects : e[1] # r
    BY <1>0, <2>2 DEF RowOK, StatusOK, JarOK, EffectsOK
  <2>4. /\ OfClient(Cleared(req[r]).token, Cleared(req[r]).browser)
        /\ OfClient(Cleared(req[r]).jar, Cleared(req[r]).browser)
        /\ OfClient(Cleared(req[r]).carried, Cleared(req[r]).browser)
    BY <1>0, <2>1 DEF RowOK, TokensOK, OfClient
  <2>5. QED
    BY <1>0, <1>1, <2>1, <2>3, <2>4, ClearedRow, AwaitMintStep
<1>2. CASE /\ ~Expired(req[r])
           /\ req' = [req EXCEPT ![r].pc = "answered"]
           /\ UNCHANGED <<mintsInFlight, mint>>
  <2> DEFINE row == [req[r] EXCEPT !.pc = "answered"]
  <2>1. req' = [req EXCEPT ![r] = row] /\ req'[r] = row
    BY <1>2 DEF SessionTypeOK
  <2>2. row \in RequestRows
    BY <1>0 DEF RequestRows, Stages
  <2>3. /\ row.pc = "answered" /\ row.status = req[r].status
        /\ row.token = req[r].token /\ row.jar = req[r].jar /\ row.carried = req[r].carried
        /\ row.browser = req[r].browser /\ row.changed = req[r].changed /\ row.minted = req[r].minted
    BY <1>0 DEF RequestRows
  <2> HIDE DEF row
  <2>4. TokensOK(r)'
    BY <1>0, <1>2, <2>1, <2>3 DEF RowOK, TokensOK, OfClient
  <2>5. (MintingOK(r) /\ StatusOK(r) /\ JarOK(r) /\ EffectsOK(r))'
    BY <1>0, <1>2, <2>1, <2>3 DEF RowOK, MintingOK, StatusOK, JarOK, EffectsOK, Expired
  <2>6. cookie' \in [Browsers -> Tokens] /\ CookiesOK' /\ EffectOnce' /\ effects' \subseteq Requests \X Mints
    BY <1>0, <1>2 DEF SInv, CookiesOK, OfClient, SessionTypeOK, EffectOnce
  <2>7. RowOK(r)'
    BY <2>4, <2>5 DEF RowOK
  <2>8. QED
    BY <1>0, <1>2, <2>1, <2>2, <2>6, <2>7, RowStep
<1>3. QED
  BY <1>1, <1>2 DEF Relay

\* The end of a request, with or without its cookie.
LEMMA EndStep ==
  ASSUME SessionTypeOK, SInv, NEW r \in Requests, Deliver(r) \/ Drop(r)
  PROVE  SessionTypeOK' /\ SInv'
<1>0. /\ req[r] \in RequestRows /\ RowOK(r)
      /\ UNCHANGED <<mintsInFlight, mint, live, effects, resets>>
      /\ req' = [req EXCEPT ![r] = NoRequest("done")]
      /\ \/ cookie' = [cookie EXCEPT ![req[r].browser] = req[r].jar]
         \/ cookie' = cookie
  BY DEF SessionTypeOK, SInv, Deliver, Drop
<1>1. /\ NoRequest("done") \in RequestRows
      /\ req'[r] = NoRequest("done")
      /\ req'[r].pc = "done" /\ req'[r].token = NoToken /\ req'[r].jar = NoToken
      /\ req'[r].carried = NoToken /\ req'[r].changed = FALSE
  BY <1>0, EmptyRowType DEF SessionTypeOK, Stages
<1>2. RowOK(r)'
  BY <1>1 DEF RowOK, TokensOK, OfClient, MintingOK, StatusOK, JarOK, EffectsOK
<1>3. cookie' \in [Browsers -> Tokens]
  BY <1>0 DEF SessionTypeOK, RequestRows
<1>4. CookiesOK'
  <2>1. OfClient(req[r].jar, req[r].browser)
    BY <1>0 DEF RowOK, TokensOK
  <2>2. QED
    BY <1>0, <2>1 DEF SInv, CookiesOK, OfClient, SessionTypeOK
<1>5. EffectOnce' /\ effects' \subseteq Requests \X Mints
  BY <1>0 DEF SInv, EffectOnce, SessionTypeOK
<1>6. QED
  BY <1>0, <1>1, <1>2, <1>3, <1>4, <1>5, RowStep

\* The visitor empties the jar, or the operator the database.
LEMMA EnvironmentStep ==
  ASSUME SessionTypeOK, SInv, Reset \/ \E b \in Browsers : Forget(b)
  PROVE  SessionTypeOK' /\ SInv'
<1>1. CASE Reset
  <2>1. live' = {} /\ resets' = resets + 1 /\ UNCHANGED <<cookie, mintsInFlight, mint, req, effects>>
    BY <1>1 DEF Reset
  <2>2. SessionTypeOK'
    BY <2>1 DEF SessionTypeOK
  <2>3. ASSUME NEW s \in Requests PROVE RowOK(s)'
    BY <2>1 DEF SInv, RowOK, TokensOK, MintingOK, EffectsOK, StatusOK, JarOK, OfClient
  <2>4. QED
    BY <2>1, <2>2, <2>3 DEF SInv, SlotsOK, LiveOK, CookiesOK, EffectOnce, OfClient
<1>2. CASE \E b \in Browsers : Forget(b)
  <2>1. PICK b \in Browsers : cookie' = [cookie EXCEPT ![b] = NoToken]
                              /\ UNCHANGED <<mintsInFlight, mint, live, req, effects, resets>>
    BY <1>2 DEF Forget
  <2>2. SessionTypeOK'
    BY <2>1 DEF SessionTypeOK, Tokens
  <2>3. ASSUME NEW s \in Requests PROVE RowOK(s)'
    BY <2>1 DEF SInv, RowOK, TokensOK, MintingOK, EffectsOK, StatusOK, JarOK, OfClient
  <2>4. CookiesOK'
    BY <2>1 DEF SInv, CookiesOK, OfClient, SessionTypeOK
  <2>5. QED
    BY <2>1, <2>2, <2>3, <2>4 DEF SInv, SlotsOK, LiveOK, EffectOnce
<1>3. QED
  BY <1>1, <1>2

\* Every step of the proxy, the service, the network and the visitors keeps
\* the invariant.
LEMMA StepPreserves == SessionTypeOK /\ SInv /\ [Next]_vars => SessionTypeOK' /\ SInv'
<1> SUFFICES ASSUME SessionTypeOK, SInv, [Next]_vars PROVE SessionTypeOK' /\ SInv'
  OBVIOUS
<1>1. CASE \E r \in Requests, b \in Browsers, p \in Paths : Send(r, b, p)
  BY <1>1, SendStep
<1>2. CASE \E r \in Requests :
             Handle(r) \/ UpstreamServes(r) \/ UpstreamLost(r) \/ Relay(r) \/ Deliver(r) \/ Drop(r)
  BY <1>2, HandleStep, UpstreamServesStep, UpstreamLostStep, RelayStep, EndStep
<1>3. CASE \E m \in Mints : MintServed(m) \/ \E ok \in BOOLEAN : MintSettles(m, ok)
  BY <1>3, MintServedStep, MintSettlesStep
<1>4. CASE Reset \/ \E b \in Browsers : Forget(b)
  BY <1>4, EnvironmentStep
<1>5. CASE UNCHANGED vars
  <2>1. SessionTypeOK'
    BY <1>5 DEF vars, SessionTypeOK
  <2>2. ASSUME NEW s \in Requests PROVE RowOK(s)'
    BY <1>5 DEF vars, SInv, RowOK, TokensOK, MintingOK, EffectsOK, StatusOK, JarOK, OfClient
  <2>3. QED
    BY <1>5, <2>1, <2>2 DEF vars, SInv, SlotsOK, LiveOK, CookiesOK, EffectOnce, OfClient
<1>6. QED
  BY <1>1, <1>2, <1>3, <1>4, <1>5 DEF Next, Serve

-----------------------------------------------------------------------------
\* The rows keep their kinds, and a slot stands for a mint under way (session.ts).
THEOREM SessionTypeCorrect == Spec => []SessionTypeOK
<1>1. Init => SessionTypeOK /\ SInv
  BY InitEstablishes
<1>2. SessionTypeOK /\ SInv /\ [Next]_vars => SessionTypeOK' /\ SInv'
  BY StepPreserves
<1>3. QED
  BY <1>1, <1>2, PTL DEF Spec

\* The inductive invariant of the proxy.
THEOREM SessionInvariant == Spec => [](SessionTypeOK /\ SInv)
  BY InitEstablishes, StepPreserves, PTL DEF Spec

\* No browser holds, and no request uses, the workspace of another client key
\* (session.ts resolveSession).
THEOREM WorkspacesByClient == Spec => []WorkspaceByClient
<1>1. SessionTypeOK /\ SInv => WorkspaceByClient
  BY DEF SInv, CookiesOK, OfClient, RowOK, TokensOK, WorkspaceByClient
<1>2. QED
  BY <1>1, SessionInvariant, PTL

\* The renewed request does not repeat the effect of the first (route.ts proxy).
THEOREM EffectsOnce == Spec => []EffectOnce
<1>1. SessionTypeOK /\ SInv => EffectOnce
  BY DEF SInv
<1>2. QED
  BY <1>1, SessionInvariant, PTL

\* A 401 reaches the browser only for a workspace minted for that request
\* (route.ts proxy).
THEOREM NeverLockedOut == Spec => []LockedOutNever
<1>1. SessionTypeOK /\ SInv => LockedOutNever
  BY DEF SInv, RowOK, StatusOK, LockedOutNever
<1>2. QED
  BY <1>1, SessionInvariant, PTL

\* A late response does not replace a living workspace (session.ts, route.ts).
THEOREM WorkspacesKept == Spec => KeepsWorkspace
<1> DEFINE Kept(b) ==
      cookie[b] \in live /\ cookie'[b] \notin {cookie[b], NoToken} =>
        \E r \in Requests : /\ req[r].browser = b
                            /\ req[r].pc = "answered"
                            /\ req[r].carried # cookie[b]
<1>1. SessionTypeOK /\ SInv /\ [Next]_vars => [\A b \in Browsers : Kept(b)]_vars
  <2> SUFFICES ASSUME SessionTypeOK, SInv, Next, NEW b \in Browsers PROVE Kept(b)
    OBVIOUS
  <2>1. CASE \E r \in Requests : Deliver(r)
    <3>1. PICK r \in Requests : Deliver(r)
      BY <2>1
    <3>2. req[r] \in RequestRows /\ RowOK(r) /\ req[r].pc = "answered"
      BY <3>1 DEF SessionTypeOK, SInv, Deliver
    <3>3. CASE ~req[r].changed
      BY <3>1, <3>3 DEF Deliver
    <3>4. CASE req[r].changed
      <4>1. cookie' = [cookie EXCEPT ![req[r].browser] = req[r].jar] /\ req[r].carried \notin live
        BY <3>1, <3>2, <3>4 DEF Deliver, RowOK, JarOK
      <4>2. CASE req[r].browser = b
        BY <3>2, <4>1, <4>2
      <4>3. CASE req[r].browser # b
        BY <4>1, <4>3 DEF SessionTypeOK
      <4>4. QED
        BY <4>2, <4>3
    <3>5. QED
      BY <3>3, <3>4
  <2>2. CASE \E c \in Browsers : Forget(c)
    BY <2>2 DEF Forget, SessionTypeOK
  <2>3. CASE cookie' = cookie
    BY <2>3
  <2>4. QED
    BY <2>1, <2>2, <2>3
    DEF Next, Serve, Send, Handle, UpstreamServes, UpstreamLost, Relay, Drop, MintServed, MintSettles, Reset
<1>2. QED
  BY <1>1, SessionInvariant, PTL DEF Spec, KeepsWorkspace
=============================================================================
