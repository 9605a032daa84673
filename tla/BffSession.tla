----------------------------- MODULE BffSession -----------------------------
(***************************************************************************)
(* The backend-for-frontend proxy and its sandbox sessions                 *)
(* (frontend/app/api/credence/[...path]/route.ts, lib/server/session.ts).  *)
(*                                                                         *)
(* Every request of a browser passes through one server process, which     *)
(* attaches the bearer of the browser's workspace.  A request without a    *)
(* cookie mints a workspace, or waits for the mint already in flight for   *)
(* its client key; a request whose bearer the service no longer knows is   *)
(* given a new workspace and sent once more.  A workspace is named by the  *)
(* mint that created it, so a token is an element of Mints.                *)
(*                                                                         *)
(* A step is what the server does between two awaits: everything up to the *)
(* next network call is one action.  Replies are delivered in any order,   *)
(* or lost; the sandbox database may be reset under the sessions.          *)
(***************************************************************************)
EXTENDS Naturals, FiniteSets

CONSTANTS
  Browsers,    \* cookie jars
  Keys,        \* client keys: address and user-agent
  ClientKey,   \* the key of each browser
  Requests,    \* request slots, each used once and in order
  Paths,       \* the paths a browser asks for
  Mints,       \* workspaces that may be minted, in order, and their tokens
  NoToken,     \* the absent or emptied cookie
  DemoEnabled, \* whether the deployment has a demo token
  MaxResets    \* bound: resets of the sandbox database

PathRows == [dotted : BOOLEAN, v1 : BOOLEAN, mutates : BOOLEAN, cross_site : BOOLEAN,
             demo : BOOLEAN, scenario : BOOLEAN]

ASSUME PathsAssumption == Paths \subseteq PathRows
ASSUME NonEmptyAssumption == Browsers # {} /\ Keys # {} /\ Paths # {}
ASSUME ClientKeyAssumption == ClientKey \in [Browsers -> Keys]
ASSUME SlotsAssumption == Requests \subseteq Nat /\ Mints \subseteq Nat
ASSUME NoTokenAssumption == NoToken \notin Mints
ASSUME MaxResetsAssumption == MaxResets \in Nat

VARIABLES
  cookie,        \* cookie[b]: the bearer the browser's jar holds
  mintsInFlight, \* mintsInFlight[k]: the mint that clients of key k share
  mint,          \* mint[m]: how far the round trip of m has come, and for whom
  live,          \* the workspaces the service's database knows
  req,           \* req[r]: the request of slot r
  effects,       \* the writes that took effect: <<request, workspace>>
  resets

vars == <<cookie, mintsInFlight, mint, live, req, effects, resets>>

Tokens == Mints \cup {NoToken}
Statuses == {0, 200, 400, 401, 403, 404, 503}
Stages == {"new", "arrived", "minting", "sent", "served", "answered", "done"}

-----------------------------------------------------------------------------
(* The rows.  jar is the cookie as the handler sees it, changed whether the *)
(* response carries a Set-Cookie; carried is the cookie the request came    *)
(* with.                                                                    *)
EmptyRow(pc, b, p) ==
  [pc |-> pc, browser |-> b, path |-> p, carried |-> NoToken, jar |-> NoToken,
   changed |-> FALSE, token |-> NoToken, minted |-> FALSE, mint |-> NoToken,
   status |-> 0]

Arrived(b, p) ==
  [EmptyRow("arrived", b, p) EXCEPT !.carried = cookie[b], !.jar = cookie[b]]

\* A slot before it is used and, for the handler's variables end with it, after.
NoRequest(pc) == EmptyRow(pc, CHOOSE b \in Browsers : TRUE, CHOOSE p \in Paths : TRUE)

\* problem(): the handler answers without the service.
Refused(row, status) == [row EXCEPT !.pc = "answered", !.status = status]

\* isAllowedDemoPath and the checks at the head of proxy(): 0 lets the request through.
Refusal(p) ==
  IF p.dotted THEN 400
  ELSE IF ~p.v1 THEN 404
  ELSE IF p.mutates /\ p.cross_site THEN 403
  ELSE IF p.demo /\ ~p.scenario THEN 404
  ELSE IF p.demo /\ ~DemoEnabled THEN 503
  ELSE 0

\* A resolved session goes straight into send(token).
SentWith(row, token, minted) ==
  [row EXCEPT !.pc = "sent", !.token = token, !.minted = minted, !.status = 0]

\* The service has handled the request; its reply is on the way.
Served(row, status) == [row EXCEPT !.pc = "served", !.status = status]

\* What the end of a mint does to a request that waits for it: the bearer is
\* put in the jar and the request is sent, or the visitor is told to wait.
Resumed(row, m, ok) ==
  IF ok THEN [SentWith(row, m, TRUE) EXCEPT !.jar = m, !.changed = TRUE]
  ELSE Refused(row, 503)

\* clearSession
Cleared(row) == [row EXCEPT !.jar = NoToken, !.changed = TRUE]

-----------------------------------------------------------------------------
Init ==
  /\ cookie = [b \in Browsers |-> NoToken]
  /\ mintsInFlight = [k \in Keys |-> NoToken]
  /\ mint = [m \in Mints |-> [state |-> "free", key |-> CHOOSE k \in Keys : TRUE]]
  /\ live = {}
  /\ req = [r \in Requests |-> NoRequest("new")]
  /\ effects = {}
  /\ resets = 0

\* The browser issues a request with the cookie it holds at that moment.
Send(r, b, p) ==
  /\ req[r].pc = "new"
  /\ \A q \in Requests : req[q].pc = "new" => r <= q
  /\ req' = [req EXCEPT ![r] = Arrived(b, p)]
  /\ UNCHANGED <<cookie, mintsInFlight, mint, live, effects, resets>>

\* mutated form: one slot for all visitors.
AwaitAnyMint(r, row) ==
  LET k == CHOOSE k \in Keys : TRUE IN
  \/ /\ mintsInFlight[k] # NoToken
     /\ req' = [req EXCEPT ![r] = [row EXCEPT !.pc = "minting", !.mint = mintsInFlight[k]]]
     /\ UNCHANGED <<mintsInFlight, mint>>
  \/ /\ mintsInFlight[k] = NoToken
     /\ \E m \in Mints :
          /\ mint[m].state = "free"
          /\ mint' = [mint EXCEPT ![m] = [state |-> "asked", key |-> k]]
          /\ mintsInFlight' = [mintsInFlight EXCEPT ![k] = m]
          /\ req' = [req EXCEPT ![r] = [row EXCEPT !.pc = "minting", !.mint = m]]

\* resolveSession without a cookie: join the mint in flight for this client
\* or start one.
AwaitMint(r, row) ==
  LET k == ClientKey[row.browser] IN
  \/ /\ mintsInFlight[k] # NoToken
     /\ req' = [req EXCEPT ![r] = [row EXCEPT !.pc = "minting", !.mint = mintsInFlight[k]]]
     /\ UNCHANGED <<mintsInFlight, mint>>
  \/ /\ mintsInFlight[k] = NoToken
     /\ \E m \in Mints :
          /\ mint[m].state = "free"
          /\ \A n \in Mints : mint[n].state = "free" => m <= n
          /\ mint' = [mint EXCEPT ![m] = [state |-> "asked", key |-> k]]
          /\ mintsInFlight' = [mintsInFlight EXCEPT ![k] = m]
          /\ req' = [req EXCEPT ![r] = [row EXCEPT !.pc = "minting", !.mint = m]]

\* proxy() up to its first await on the network.
Handle(r) ==
  /\ req[r].pc = "arrived"
  /\ \/ /\ Refusal(req[r].path) # 0
        /\ req' = [req EXCEPT ![r] = Refused(req[r], Refusal(req[r].path))]
        /\ UNCHANGED <<mintsInFlight, mint>>
     \/ /\ Refusal(req[r].path) = 0
        /\ req[r].jar # NoToken
        /\ req' = [req EXCEPT ![r] = SentWith(req[r], req[r].jar, FALSE)]
        /\ UNCHANGED <<mintsInFlight, mint>>
     \/ /\ Refusal(req[r].path) = 0
        /\ req[r].jar = NoToken
        /\ AwaitMint(r, req[r])
  /\ UNCHANGED <<cookie, live, effects, resets>>

\* The service creates the organization, or refuses to.
MintServed(m) ==
  /\ mint[m].state = "asked"
  /\ \/ /\ mint' = [mint EXCEPT ![m].state = "created"]
        /\ live' = live \cup {m}
     \/ /\ mint' = [mint EXCEPT ![m].state = "refused"]
        /\ UNCHANGED live
  /\ UNCHANGED <<cookie, mintsInFlight, req, effects, resets>>

\* mutated form: only a reply wakes the requests.
MintSettlesWithToken(m, ok) ==
  /\ ok /\ mint[m].state = "created"
  /\ mint' = [mint EXCEPT ![m].state = "settled"]
  /\ mintsInFlight' = [k \in Keys |-> IF mintsInFlight[k] = m THEN NoToken ELSE mintsInFlight[k]]
  /\ req' = [r \in Requests |->
       IF req[r].pc = "minting" /\ req[r].mint = m THEN Resumed(req[r], m, ok) ELSE req[r]]
  /\ UNCHANGED <<cookie, live, effects, resets>>

\* The promise of the mint settles: the slot is released and every request
\* that awaits it runs on.  The reply of a created organization may be lost.
MintSettles(m, ok) ==
  /\ mint[m].state \in {"created", "refused"}
  /\ ok => mint[m].state = "created"
  /\ mint' = [mint EXCEPT ![m].state = "settled"]
  /\ mintsInFlight' =
       [k \in Keys |-> IF mintsInFlight[k] = m THEN NoToken ELSE mintsInFlight[k]]
  /\ req' = [r \in Requests |->
       IF req[r].pc = "minting" /\ req[r].mint = m THEN Resumed(req[r], m, ok) ELSE req[r]]
  /\ UNCHANGED <<cookie, live, effects, resets>>

\* The service handles a request: an unknown bearer is a 401, a known one is
\* served, and a write that is accepted takes effect.
UpstreamServes(r) ==
  /\ req[r].pc = "sent"
  /\ \E status \in IF req[r].token \in live THEN {200, 404} ELSE {401} :
       /\ req' = [req EXCEPT ![r] = Served(req[r], status)]
       /\ effects' = IF status = 200 /\ req[r].path.mutates
                     THEN effects \cup {<<r, req[r].token>>} ELSE effects
  /\ UNCHANGED <<cookie, mintsInFlight, mint, live, resets>>

\* fetch() rejects: the request was lost before the service, or its reply after.
UpstreamLost(r) ==
  /\ req[r].pc \in {"sent", "served"}
  /\ req' = [req EXCEPT ![r] = Refused(req[r], 503)]
  /\ UNCHANGED <<cookie, mintsInFlight, mint, live, effects, resets>>

\* mutated forms: any reply to an old session retried; only a 403; a refusal too.
ExpiredWheneverOld(row) == ~row.minted
ExpiredWhenForbidden(row) == row.status = 403 /\ ~row.minted
ExpiredWhenRefused(row) == row.status \in {401, 404} /\ ~row.minted

\* upstream.status === 401 && !session.minted
Expired(row) == row.status = 401 /\ ~row.minted

\* The reply reaches the proxy: the dead session is dropped and the request
\* sent again with a new workspace, or the reply is passed on.
Relay(r) ==
  /\ req[r].pc = "served"
  /\ \/ /\ Expired(req[r])
        /\ AwaitMint(r, Cleared(req[r]))
     \/ /\ ~Expired(req[r])
        /\ req' = [req EXCEPT ![r].pc = "answered"]
        /\ UNCHANGED <<mintsInFlight, mint>>
  /\ UNCHANGED <<cookie, live, effects, resets>>

\* The response reaches the browser, which obeys its Set-Cookie.
Deliver(r) ==
  /\ req[r].pc = "answered"
  /\ req' = [req EXCEPT ![r] = NoRequest("done")]
  /\ cookie' = IF req[r].changed
               THEN [cookie EXCEPT ![req[r].browser] = req[r].jar] ELSE cookie
  /\ UNCHANGED <<mintsInFlight, mint, live, effects, resets>>

\* The connection to the browser breaks: the response is lost with its cookie.
Drop(r) ==
  /\ req[r].pc = "answered"
  /\ req' = [req EXCEPT ![r] = NoRequest("done")]
  /\ UNCHANGED <<cookie, mintsInFlight, mint, live, effects, resets>>

\* COOKIE_MAX_AGE_SECONDS have passed, or the visitor emptied the jar.
Forget(b) ==
  /\ cookie[b] # NoToken
  /\ cookie' = [cookie EXCEPT ![b] = NoToken]
  /\ UNCHANGED <<mintsInFlight, mint, live, req, effects, resets>>

\* The sandbox database is dropped and recreated.
Reset ==
  /\ resets < MaxResets
  /\ resets' = resets + 1
  /\ live' = {}
  /\ UNCHANGED <<cookie, mintsInFlight, mint, req, effects>>

\* What the server, the service and the network between them do.
Serve ==
  \/ \E r \in Requests :
       Handle(r) \/ UpstreamServes(r) \/ UpstreamLost(r) \/ Relay(r) \/ Deliver(r) \/ Drop(r)
  \/ \E m \in Mints : MintServed(m) \/ \E ok \in BOOLEAN : MintSettles(m, ok)

Next ==
  \/ \E r \in Requests, b \in Browsers, p \in Paths : Send(r, b, p)
  \/ Serve
  \/ \E b \in Browsers : Forget(b)
  \/ Reset

\* The event loop runs every handler on, and every fetch settles: with a
\* reply or, when the connection ends or times out, with an error.  Nothing is
\* assumed of the visitor or of the database's operator.
Fairness ==
  /\ \A r \in Requests :
       /\ WF_vars(Handle(r))
       /\ WF_vars(UpstreamServes(r) \/ UpstreamLost(r))
       /\ WF_vars(Relay(r) \/ UpstreamLost(r))
       /\ WF_vars(Deliver(r) \/ Drop(r))
  /\ \A m \in Mints :
       /\ WF_vars(MintServed(m))
       /\ WF_vars(\E ok \in BOOLEAN : MintSettles(m, ok))

Spec == Init /\ [][Next]_vars /\ Fairness

-----------------------------------------------------------------------------
RequestRows ==
  [pc : Stages, browser : Browsers, path : Paths, carried : Tokens, jar : Tokens,
   changed : BOOLEAN, token : Tokens, minted : BOOLEAN, mint : Tokens, status : Statuses]

\* Every jar, slot, round trip and request stays a row of its kind, and a slot
\* is taken only while the round trip it stands for is under way.
SessionTypeOK ==
  /\ cookie \in [Browsers -> Tokens]
  /\ mintsInFlight \in [Keys -> Tokens]
  /\ mint \in [Mints -> [state : {"free", "asked", "created", "refused", "settled"}, key : Keys]]
  /\ \A k \in Keys : mintsInFlight[k] # NoToken =>
       mint[mintsInFlight[k]].state \in {"asked", "created", "refused"}
  /\ live \subseteq Mints
  /\ req \in [Requests -> RequestRows]
  /\ effects \subseteq Requests \X Mints
  /\ resets \in Nat

\* "Keyed by the client, not global" (session.ts:33): a browser holds, and its
\* requests use, only workspaces minted for its own client key.  Mints end,
\* jars change and replies arrive in every order.
WorkspaceByClient ==
  /\ \A b \in Browsers : cookie[b] # NoToken => mint[cookie[b]].key = ClientKey[b]
  /\ \A r \in Requests : req[r].token # NoToken =>
       mint[req[r].token].key = ClientKey[req[r].browser]

\* "Drop the dead session and mint a fresh workspace once" (route.ts:136): the
\* second send never repeats what the first one did.  However often a request
\* is forwarded, a write takes effect in at most one workspace.
EffectOnce ==
  \A e, f \in effects : e[1] = f[1] => e = f

\* "A browser should not stay locked out" (route.ts:134): the proxy answers 401
\* only to a workspace it minted in this very request and that a reset removed
\* before the request arrived there.
LockedOutNever ==
  \A r \in Requests :
    req[r].pc = "answered" /\ req[r].status = 401 =>
      req[r].minted /\ req[r].token \notin live

\* A response that comes late never takes a visitor out of a workspace that is
\* alive: the jar changes only by a request that was sent without that
\* workspace's cookie, or because the visitor emptied it.
KeepsWorkspace ==
  [][\A b \in Browsers :
       cookie[b] \in live /\ cookie'[b] \notin {cookie[b], NoToken} =>
         \E r \in Requests : /\ req[r].browser = b
                             /\ req[r].pc = "answered"
                             /\ req[r].carried # cookie[b]]_vars

\* Every request is answered: no mint, retry or lost reply leaves one waiting.
EveryRequestAnswered ==
  \A r \in Requests : req[r].pc = "arrived" ~> req[r].pc = "done"
=============================================================================
