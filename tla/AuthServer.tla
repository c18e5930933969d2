----------------------------- MODULE AuthServer -----------------------------
(***************************************************************************)
(* The OAuth authorization server of packages/local-auth/src/server.ts:    *)
(* the browser endpoints /authorize, /login and /logout, and the client    *)
(* endpoints /token and /userinfo, over the two in-memory maps authCodes   *)
(* and refreshTokens.                                                      *)
(*                                                                         *)
(* Node runs one handler at a time, up to its next await.  An action is    *)
(* such a stretch of a handler: /authorize, /login (after its body is      *)
(* read), /logout and /userinfo keep nothing across an await that another  *)
(* handler changes and are one action each; /token awaits the signature of *)
(* the ID token and then that of the access token, and is three.           *)
(***************************************************************************)
EXTENDS Naturals, FiniteSets

CONSTANTS
    Users,          \* ids of the configured users
    Accounts,       \* user ids a browser may hold in a cookie: Users, and
                    \* ids left by a server that ran with other users
    Clients,        \* client ids that requests mention
    Registered,     \* ids of the configured clients; {} accepts every client
    Uris,           \* redirect and logout URIs that requests mention
    Malformed,      \* the URIs that new URL() rejects
    CallbackUrls,   \* of each registered client; {} accepts every URI
    LogoutUrls,     \* of each registered client; {} accepts every URI
    Scopes, Nonces, States,
    Verifiers,      \* PKCE verifiers; a challenge is named by its verifier
    SubClaim,       \* the "sub" among a user's extra claims, Absent if none
    AuthorizeParams,\* the query strings sent to /authorize
    HandMade,       \* the forms posted to /login that no page has shown
    Substituted,    \* what String.replace makes of each text (server.ts:367)
    Browsers, Conns,\* browsers; connections of client applications
    Codes, Handles, \* what randomBase64Url draws: codes, refresh tokens
    CodeLife, RefreshLife, IdLife, AccessLife,
    MaxTime, MaxRestarts,   \* bounds on the clock and on restarts
    Absent, None

ASSUME LifetimeAssumption ==
    {CodeLife, RefreshLife, IdLife, AccessLife, MaxTime, MaxRestarts} \subseteq Nat

ASSUME ConfigAssumption ==
    /\ Users \subseteq Accounts /\ Absent \notin Accounts
    /\ Registered \subseteq Clients /\ Absent \notin Clients
    /\ Malformed \subseteq Uris /\ Absent \notin Uris
    /\ "openid" \in Scopes /\ Absent \notin Scopes
    /\ Absent \notin Verifiers /\ Absent \notin Nonces /\ Absent \notin States
    /\ Absent \notin Handles
    /\ CallbackUrls \in [Registered -> SUBSET Uris]
    /\ LogoutUrls \in [Registered -> SUBSET Uris]
    /\ SubClaim \in [Users -> Accounts \cup {Absent}]

Optional(S) == S \cup {Absent}

(* server.ts:18-41.  The text of a code or token is the key of its map.    *)
PendingAuthorization ==
    [clientId : Clients, redirectUri : Uris, scope : Scopes,
     state : Optional(States), nonce : Optional(Nonces),
     codeChallenge : Optional(Verifiers), codeChallengeMethod : {"S256", "plain", "none"}]

AuthCodeRecord ==
    [auth : PendingAuthorization, user : Users, expiresAt : Nat, used : BOOLEAN]

RefreshTokenRecord ==
    [user : Users, clientId : Clients, scope : Scopes, expiresAt : Nat]

AuthorizeQuery ==
    [responseType : {"code", "other"}, clientId : Optional(Clients),
     redirectUri : Optional(Uris), scope : Optional(Scopes),
     state : Optional(States), nonce : Optional(Nonces),
     codeChallenge : Optional(Verifiers), codeChallengeMethod : {"S256", "plain", "none"}]

(* The fields of a POST /login besides user name and password.             *)
LoginForm ==
    [clientId : Optional(Clients), redirectUri : Optional(Uris), scope : Optional(Scopes),
     state : Optional(States), nonce : Optional(Nonces),
     codeChallenge : Optional(Verifiers), codeChallengeMethod : {"S256", "plain", "none"}]

ASSUME InputAssumption == AuthorizeParams \subseteq AuthorizeQuery /\ HandMade \subseteq LoginForm

(* A text stays a text of its sort; most stay what they are.               *)
ASSUME SubstitutionAssumption ==
    \A S \in {Clients, Uris, Scopes, States, Nonces, Verifiers} :
        \A text \in S : Substituted[text] \in S

ASSUME NoneAssumption ==
    None \notin PendingAuthorization \cup AuthCodeRecord \cup RefreshTokenRecord

(* What a browser shows: a login form with its hidden fields; the client's *)
(* callback, with a code or an error; or a page of the server.             *)
Page ==
    [kind : {"login"}, form : LoginForm,
     message : {"none", "invalid request", "credentials", "missing"}]
    \cup [kind : {"callback"}, uri : Uris, code : Codes, state : Optional(States)]
    \cup [kind : {"callback error"}, uri : Uris, state : Optional(States)]
    \cup [kind : {"blank", "left", "home", "signed out", "server error"}]

(* One POST /token whose tokens are being signed.                          *)
Signing ==
    [phase : {"sign id", "sign access"},
     grant : {"authorization_code", "refresh_token"}, source : Codes \cup Handles,
     user : Users, clientId : Clients, scope : Scopes,
     nonce : Optional(Nonces), iat : Nat]

Connection ==
    [phase : {"idle"}]
    \cup Signing
    \cup [phase : {"answered"}, status : {200, 400, 401, 500}]
    \cup [phase : {"identity"}, bearer : Users, sub : Accounts]

(* The 200 answers of /token: the claims of the two tokens.                *)
TokenResponse ==
    [grant : {"authorization_code", "refresh_token"}, source : Codes \cup Handles,
     user : Users, clientId : Clients, scope : Scopes,
     nonce : Optional(Nonces), iat : Nat, refreshToken : Optional(Handles)]

VARIABLES
    authCodes,      \* Map of server.ts:71
    refreshTokens,  \* Map of server.ts:72
    cookie,         \* each browser's ck_local_session
    page,           \* each browser's page
    conns,          \* each client connection
    now,            \* Date.now()
    restarts,       \* how often the process was restarted
    (* history: never read by an action of the server                      *)
    asked,          \* each browser's last accepted authorization request,
                    \* or the form it posted instead of one
    minted,         \* every code ever issued, as it was issued
    drawn,          \* every refresh token ever issued, as it was issued
    responses       \* every 200 answer of /token

server  == <<authCodes, refreshTokens>>
browser == <<cookie, page, asked>>
history == <<minted, drawn, responses>>
vars == <<server, browser, conns, now, restarts, history>>

Blank == [kind |-> "blank"]
Idle  == [phase |-> "idle"]

Init ==
    /\ authCodes = [code \in Codes |-> None]
    /\ refreshTokens = [h \in Handles |-> None]
    /\ cookie \in [Browsers -> Optional(Accounts)]
    /\ page = [b \in Browsers |-> Blank]
    /\ conns = [c \in Conns |-> Idle]
    /\ now = 0
    /\ restarts = 0
    /\ asked = [b \in Browsers |-> None]
    /\ minted = [code \in Codes |-> None]
    /\ drawn = [h \in Handles |-> None]
    /\ responses = {}

-----------------------------------------------------------------------------
(* Configuration look-ups.                                                 *)

isKnownClient(clientId) == Registered = {} \/ clientId \in Registered

isAllowedCallback(clientId, uri) ==
    clientId \in Registered =>
        CallbackUrls[clientId] = {} \/ uri \in CallbackUrls[clientId]

isAllowedLogout(clientId, uri) ==
    clientId \in Registered =>
        LogoutUrls[clientId] = {} \/ uri \in LogoutUrls[clientId]

verifyPkce(auth, verifier) ==
    IF auth.codeChallenge = Absent
    THEN verifier = Absent
    ELSE /\ auth.codeChallengeMethod # "plain"
         /\ verifier = auth.codeChallenge

-----------------------------------------------------------------------------
(* GET /authorize                                                          *)

InvalidRedirect(q) == /\ q.responseType = "code"
                      /\ q.clientId # Absent
                      /\ isKnownClient(q.clientId)
                      /\ q.redirectUri # Absent
                      /\ ~isAllowedCallback(q.clientId, q.redirectUri)

validateAuthorizeParams(q) == /\ q.responseType = "code"
                              /\ q.clientId # Absent
                              /\ isKnownClient(q.clientId)
                              /\ q.redirectUri # Absent
                              /\ isAllowedCallback(q.clientId, q.redirectUri)

ScopeAsSent(q) == q.scope                   \* mutant: no default scope
ScopeOf(q) == IF q.scope = Absent THEN "openid" ELSE q.scope

Pending(q) ==
    [clientId |-> q.clientId, redirectUri |-> q.redirectUri, scope |-> ScopeOf(q),
     state |-> q.state, nonce |-> q.nonce,
     codeChallenge |-> q.codeChallenge, codeChallengeMethod |-> q.codeChallengeMethod]

NoFields ==
    [clientId |-> Absent, redirectUri |-> Absent, scope |-> Absent, state |-> Absent,
     nonce |-> Absent, codeChallenge |-> Absent, codeChallengeMethod |-> "none"]

(* The hidden inputs are the replacement string of a String.replace, which *)
(* interprets $$, $&, $` and $': a text that holds one (after escapeHtml,  *)
(* also a $ before & ' " < >) reaches the form as another text.            *)
HiddenFields(auth) ==
    LET Carried(text) == IF text = Absent THEN Absent ELSE Substituted[text]
    IN  [clientId |-> Carried(auth.clientId), redirectUri |-> Carried(auth.redirectUri),
         scope |-> Carried(auth.scope), state |-> Carried(auth.state),
         nonce |-> Carried(auth.nonce), codeChallenge |-> Carried(auth.codeChallenge),
         codeChallengeMethod |-> auth.codeChallengeMethod]

(* Mutant: the nonce is missing among the hidden fields.                   *)
loginPageSansNonce(form, message) ==
    [kind |-> "login", message |-> message, form |-> [form EXCEPT !.nonce = Absent]]

loginPage(form, message) ==
    [kind |-> "login", message |-> message, form |-> form]

(* A redirect to the client: building the location throws on a malformed   *)
(* URI, and the catch of handle answers 500.                               *)
CallbackPage(auth, code) ==
    IF auth.redirectUri \in Malformed
    THEN [kind |-> "server error"]
    ELSE [kind |-> "callback", uri |-> auth.redirectUri, code |-> code, state |-> auth.state]

authorizeErrorRedirect(uri, state) ==
    IF uri \in Malformed
    THEN [kind |-> "server error"]
    ELSE [kind |-> "callback error", uri |-> uri, state |-> state]

(* The random text of a new code was never drawn before.                   *)
issueAuthCode(code, auth, user) ==
    LET record == [auth |-> auth, user |-> user,
                   expiresAt |-> now + CodeLife, used |-> FALSE]
    IN  /\ minted[code] = None
        /\ authCodes' = [authCodes EXCEPT ![code] = record]
        /\ minted' = [minted EXCEPT ![code] = record]

AuthorizeRefused(b, q) ==
    /\ ~validateAuthorizeParams(q)
    /\ page' = [page EXCEPT ![b] =
           IF q.redirectUri # Absent /\ ~InvalidRedirect(q)
           THEN authorizeErrorRedirect(q.redirectUri, q.state)
           ELSE loginPage(NoFields, "invalid request")]
    /\ UNCHANGED <<server, cookie, asked, conns, now, restarts, history>>

AuthorizeWithSession(b, q, code) ==
    /\ validateAuthorizeParams(q)
    /\ cookie[b] \in Users
    /\ issueAuthCode(code, Pending(q), cookie[b])
    /\ page' = [page EXCEPT ![b] = CallbackPage(Pending(q), code)]
    /\ asked' = [asked EXCEPT ![b] = Pending(q)]
    /\ UNCHANGED <<refreshTokens, cookie, conns, now, restarts, drawn, responses>>

AuthorizeLoginForm(b, q) ==
    /\ validateAuthorizeParams(q)
    /\ cookie[b] \notin Users
    /\ page' = [page EXCEPT ![b] = loginPage(HiddenFields(Pending(q)), "none")]
    /\ asked' = [asked EXCEPT ![b] = Pending(q)]
    /\ UNCHANGED <<server, cookie, conns, now, restarts, history>>

-----------------------------------------------------------------------------
(* POST /login, with the form the browser shows or with one made by hand:  *)
(* the handler looks at its fields and at nothing else.                    *)

Shown(b) == IF page[b].kind = "login" THEN {page[b].form} ELSE {}

(* The location is built first: when that throws, the code is already      *)
(* stored but neither code nor cookie reaches the browser.                 *)
SetCookieFirst(b, uri, user) ==             \* mutant: the header is set before
    [cookie EXCEPT ![b] = user]
SetCookie(b, uri, user) ==
    IF uri \in Malformed THEN cookie ELSE [cookie EXCEPT ![b] = user]

LoginRefused(b) ==
    /\ page' = [page EXCEPT ![b] = loginPage(NoFields, "credentials")]
    /\ UNCHANGED <<server, cookie, asked, conns, now, restarts, history>>

LoginWithoutRequest(b, form) ==
    /\ Absent \in {form.clientId, form.redirectUri}
    /\ page' = [page EXCEPT ![b] = loginPage(NoFields, "missing")]
    /\ UNCHANGED <<server, cookie, asked, conns, now, restarts, history>>

LoginAccepted(b, form, user, code) ==
    /\ Absent \notin {form.clientId, form.redirectUri}
    /\ issueAuthCode(code, Pending(form), user)
    /\ page' = [page EXCEPT ![b] = CallbackPage(Pending(form), code)]
    /\ cookie' = SetCookie(b, form.redirectUri, user)
    /\ asked' = IF form \in Shown(b) THEN asked ELSE [asked EXCEPT ![b] = Pending(form)]
    /\ UNCHANGED <<refreshTokens, conns, now, restarts, drawn, responses>>

-----------------------------------------------------------------------------
(* GET /logout                                                             *)

LogoutRedirect(b, clientId, target) ==
    /\ target # Absent
    /\ isAllowedLogout(clientId, target)
    /\ cookie' = [cookie EXCEPT ![b] = Absent]
    /\ page' = [page EXCEPT ![b] = [kind |-> "left"]]
    /\ UNCHANGED <<server, asked, conns, now, restarts, history>>

LogoutWithHint(b, clientId, target) ==
    /\ target = Absent \/ ~isAllowedLogout(clientId, target)
    /\ cookie' = [cookie EXCEPT ![b] = Absent]
    /\ page' = [page EXCEPT ![b] = [kind |-> "home"]]
    /\ UNCHANGED <<server, asked, conns, now, restarts, history>>

LogoutPage(b, clientId, target) ==
    /\ target = Absent \/ ~isAllowedLogout(clientId, target)
    /\ page' = [page EXCEPT ![b] = [kind |-> "signed out"]]
    /\ UNCHANGED <<server, cookie, asked, conns, now, restarts, history>>

-----------------------------------------------------------------------------
(* POST /token                                                             *)

Free(c) == conns[c].phase \notin {"sign id", "sign access"}

Answer(c, status) ==
    conns' = [conns EXCEPT ![c] = [phase |-> "answered", status |-> status]]

CodeNeverExpires(code) == FALSE             \* mutant: expiry is not checked
CodeExpired(code) == authCodes[code].expiresAt < now

(* The early returns of the authorization_code branch, passed.             *)
CodeAcceptable(code, uri, clientId, verifier) ==
    /\ authCodes[code] # None
    /\ ~authCodes[code].used
    /\ ~CodeExpired(code)
    /\ uri \in {Absent, authCodes[code].auth.redirectUri}
    /\ clientId \in {Absent, authCodes[code].auth.clientId}
    /\ verifyPkce(authCodes[code].auth, verifier)

RefreshAcceptable(h) ==
    /\ refreshTokens[h] # None
    /\ ~(refreshTokens[h].expiresAt < now)

UnsupportedGrant(c) ==
    /\ Free(c)
    /\ Answer(c, 400)
    /\ UNCHANGED <<server, browser, now, restarts, history>>

(* Mutant: a code is spent by the attempt, whatever its outcome.           *)
CodeRefusedAndSpent(c, code, uri, clientId, verifier) ==
    /\ Free(c)
    /\ ~CodeAcceptable(code, uri, clientId, verifier)
    /\ Answer(c, 400)
    /\ authCodes' = IF authCodes[code] = None THEN authCodes
                    ELSE [authCodes EXCEPT ![code].used = TRUE]
    /\ UNCHANGED <<refreshTokens, browser, now, restarts, history>>

CodeRefused(c, code, uri, clientId, verifier) ==
    /\ Free(c)
    /\ ~CodeAcceptable(code, uri, clientId, verifier)
    /\ Answer(c, 400)
    /\ UNCHANGED <<server, browser, now, restarts, history>>

SpendAfterSigning(code) == UNCHANGED authCodes      \* mutant: not yet
Spend(code) == authCodes' = [authCodes EXCEPT ![code].used = TRUE]

(* The code is spent before the first await, so before anything is signed. *)
CodeRedeemed(c, code, uri, clientId, verifier) ==
    /\ Free(c)
    /\ CodeAcceptable(code, uri, clientId, verifier)
    /\ Spend(code)
    /\ conns' = [conns EXCEPT ![c] =
           [phase |-> "sign id", grant |-> "authorization_code", source |-> code,
            user |-> authCodes[code].user, clientId |-> authCodes[code].auth.clientId,
            scope |-> authCodes[code].auth.scope,
            nonce |-> authCodes[code].auth.nonce, iat |-> now]]
    /\ UNCHANGED <<refreshTokens, browser, now, restarts, history>>

RefreshRefused(c, h) ==
    /\ Free(c)
    /\ ~RefreshAcceptable(h)
    /\ Answer(c, 400)
    /\ UNCHANGED <<server, browser, now, restarts, history>>

RefreshRedeemed(c, h) ==
    /\ Free(c)
    /\ RefreshAcceptable(h)
    /\ conns' = [conns EXCEPT ![c] =
           [phase |-> "sign id", grant |-> "refresh_token", source |-> h,
            user |-> refreshTokens[h].user, clientId |-> refreshTokens[h].clientId,
            scope |-> refreshTokens[h].scope, nonce |-> Absent, iat |-> now]]
    /\ UNCHANGED <<server, browser, now, restarts, history>>

IdTokenSigned(c) ==
    /\ conns[c].phase = "sign id"
    /\ conns' = [conns EXCEPT ![c].phase = "sign access"]
    /\ UNCHANGED <<server, browser, now, restarts, history>>

(* Mutant: the nonce is not put among the claims of the ID token.          *)
ResponseSansNonce(c, h) ==
    [grant |-> conns[c].grant, source |-> conns[c].source,
     user |-> conns[c].user, clientId |-> conns[c].clientId, scope |-> conns[c].scope,
     nonce |-> Absent, iat |-> conns[c].iat, refreshToken |-> h]

Response(c, h) ==
    [grant |-> conns[c].grant, source |-> conns[c].source,
     user |-> conns[c].user, clientId |-> conns[c].clientId, scope |-> conns[c].scope,
     nonce |-> conns[c].nonce, iat |-> conns[c].iat, refreshToken |-> h]

(* Mutant: the refresh token is issued for the default scope.              *)
RefreshTokenForOpenid(c) ==
    [user |-> conns[c].user, clientId |-> conns[c].clientId,
     scope |-> "openid", expiresAt |-> now + RefreshLife]

RefreshTokenOf(c) ==
    [user |-> conns[c].user, clientId |-> conns[c].clientId,
     scope |-> conns[c].scope, expiresAt |-> now + RefreshLife]

(* The access token of a code grant is signed: issueRefreshToken, then 200. *)
CodeGrantAnswered(c, h) ==
    /\ conns[c].phase = "sign access"
    /\ conns[c].grant = "authorization_code"
    /\ drawn[h] = None
    /\ refreshTokens' = [refreshTokens EXCEPT ![h] = RefreshTokenOf(c)]
    /\ drawn' = [drawn EXCEPT ![h] = RefreshTokenOf(c)]
    /\ responses' = responses \cup {Response(c, h)}
    /\ Answer(c, 200)
    /\ UNCHANGED <<authCodes, browser, now, restarts, minted>>

(* A refresh grant answers with new tokens and keeps the refresh token.    *)
RefreshGrantAnswered(c) ==
    /\ conns[c].phase = "sign access"
    /\ conns[c].grant = "refresh_token"
    /\ responses' = responses \cup {Response(c, Absent)}
    /\ Answer(c, 200)
    /\ UNCHANGED <<server, browser, now, restarts, minted, drawn>>

(* Mutant: the rejection is swallowed and the request is left hanging.     *)
SigningFailsUncaught(c) ==
    /\ ~Free(c)
    /\ conns' = [conns EXCEPT ![c].phase = "sign access", ![c].grant = "rejected"]
    /\ UNCHANGED <<server, browser, now, restarts, history>>

(* jose rejects (a claim it cannot serialise, an unusable key): 500.       *)
SigningFails(c) ==
    /\ ~Free(c)
    /\ Answer(c, 500)
    /\ UNCHANGED <<server, browser, now, restarts, history>>

-----------------------------------------------------------------------------
(* GET /userinfo                                                           *)

(* jwtVerify requires exp > now; both kinds of token are accepted.  The    *)
(* user's extra claims are spread last and may replace "sub".              *)
UserinfoAnswered(c, r, life) ==
    /\ Free(c)
    /\ r.iat + life > now
    /\ LET claim == SubClaim[r.user]
       IN  conns' = [conns EXCEPT ![c] =
               [phase |-> "identity", bearer |-> r.user,
                sub |-> IF claim = Absent THEN r.user ELSE claim]]
    /\ UNCHANGED <<server, browser, now, restarts, history>>

(* No bearer token, or one that is expired or not of this server.          *)
UserinfoRefused(c) ==
    /\ Free(c)
    /\ Answer(c, 401)
    /\ UNCHANGED <<server, browser, now, restarts, history>>

-----------------------------------------------------------------------------
(* The environment.                                                        *)

Tick ==
    /\ now < MaxTime
    /\ now' = now + 1
    /\ UNCHANGED <<server, browser, conns, restarts, history>>

(* The process dies and a new one starts: both maps and every request in   *)
(* flight are lost; cookies stay in the browsers.                          *)
Restart ==
    /\ restarts < MaxRestarts
    /\ restarts' = restarts + 1
    /\ authCodes' = [code \in Codes |-> None]
    /\ refreshTokens' = [h \in Handles |-> None]
    /\ conns' = [c \in Conns |-> Idle]
    /\ UNCHANGED <<browser, now, history>>

BrowserNext ==
    \E b \in Browsers :
        \/ \E q \in AuthorizeParams :
              \/ AuthorizeRefused(b, q)
              \/ AuthorizeLoginForm(b, q)
              \/ \E code \in Codes : AuthorizeWithSession(b, q, code)
        \/ LoginRefused(b)
        \/ \E form \in HandMade \cup Shown(b) :
              \/ LoginWithoutRequest(b, form)
              \/ \E user \in Users, code \in Codes : LoginAccepted(b, form, user, code)
        \/ \E clientId \in Optional(Clients), target \in Optional(Uris) :
              \/ LogoutRedirect(b, clientId, target)
              \/ LogoutWithHint(b, clientId, target)
              \/ LogoutPage(b, clientId, target)

(* A client sends any code, with or without each optional field.           *)
ClientNext ==
    \E c \in Conns :
        \/ UnsupportedGrant(c)
        \/ \E code \in Codes, uri \in Optional(Uris),
              clientId \in Optional(Clients), verifier \in Optional(Verifiers) :
              \/ CodeRefused(c, code, uri, clientId, verifier)
              \/ CodeRedeemed(c, code, uri, clientId, verifier)
        \/ \E h \in Handles : RefreshRefused(c, h) \/ RefreshRedeemed(c, h)
        \/ \E r \in responses, life \in {IdLife, AccessLife} : UserinfoAnswered(c, r, life)
        \/ UserinfoRefused(c)

SigningStep(c) ==
    \/ IdTokenSigned(c)
    \/ \E h \in Handles : CodeGrantAnswered(c, h)
    \/ RefreshGrantAnswered(c)
    \/ SigningFails(c)

Next ==
    \/ BrowserNext
    \/ ClientNext
    \/ \E c \in Conns : SigningStep(c)
    \/ Tick
    \/ Restart

(* A promise of the crypto layer settles: every pending signature comes    *)
(* back or fails.  Nothing is assumed of browsers, clients or the clock.   *)
Fairness == \A c \in Conns : WF_vars(SigningStep(c))

Spec == Init /\ [][Next]_vars /\ Fairness

-----------------------------------------------------------------------------
(* Properties.                                                             *)

(* The state has the shape the declarations of server.ts:18-72 give it.    *)
TypeOK ==
    /\ authCodes \in [Codes -> AuthCodeRecord \cup {None}]
    /\ refreshTokens \in [Handles -> RefreshTokenRecord \cup {None}]
    /\ cookie \in [Browsers -> Optional(Accounts)]
    /\ page \in [Browsers -> Page]
    /\ conns \in [Conns -> Connection]
    /\ now \in Nat
    /\ restarts \in Nat
    /\ asked \in [Browsers -> PendingAuthorization \cup {None}]
    /\ minted \in [Codes -> AuthCodeRecord \cup {None}]
    /\ drawn \in [Handles -> RefreshTokenRecord \cup {None}]
    /\ responses \subseteq TokenResponse

Grants(code) ==
    {r \in responses : r.grant = "authorization_code" /\ r.source = code}

Redeeming(c, code) ==
    /\ ~Free(c)
    /\ conns[c].grant = "authorization_code"
    /\ conns[c].source = code

(* A code yields tokens at most once, however the awaits of concurrent     *)
(* POST /token requests interleave and however often the process dies:     *)
(* one answer or one request in flight, never two, never one of each.      *)
(* server.ts:444 spends the code before the first await.                   *)
SingleUse ==
    \A code \in Codes :
        /\ \A r1, r2 \in Grants(code) : r1 = r2
        /\ \A c1, c2 \in Conns : Redeeming(c1, code) /\ Redeeming(c2, code) => c1 = c2
        /\ \A c \in Conns : Redeeming(c, code) => Grants(code) = {}

(* r carries what its code was minted for, and was accepted in time.       *)
ForSignIn(r, code) ==
    /\ minted[code] # None
    /\ r.user = minted[code].user
    /\ r.clientId = minted[code].auth.clientId
    /\ r.scope = minted[code].auth.scope
    /\ r.nonce = minted[code].auth.nonce
    /\ r.iat <= minted[code].expiresAt

(* The tokens of a code grant are those of the sign-in the code was issued *)
(* for (its user, audience, scope and nonce, server.ts:445-450), accepted  *)
(* no later than the code's expiry (server.ts:421).                        *)
GrantIsTheSignIn ==
    \A code \in Codes : \A r \in Grants(code) : ForSignIn(r, code)

Spent(code) == authCodes[code] = None \/ authCodes[code].used

(* The inductive strengthening of SingleUse and GrantIsTheSignIn: the map  *)
(* holds what was minted, only the used flag moves (server.ts:444), and a  *)
(* request in flight or answered has its code spent.                       *)
CodeInvariant ==
    /\ \A code \in Codes : authCodes[code] # None =>
          /\ minted[code] # None
          /\ authCodes[code].auth = minted[code].auth
          /\ authCodes[code].user = minted[code].user
          /\ authCodes[code].expiresAt = minted[code].expiresAt
    /\ \A code \in Codes, c \in Conns : Redeeming(c, code) =>
          Spent(code) /\ ForSignIn(conns[c], code)
    /\ \A code \in Codes : Grants(code) # {} => Spent(code)
    /\ SingleUse
    /\ GrantIsTheSignIn

(* The tokens of a refresh grant trace back to one answered code grant of  *)
(* the same user, client and scope, carry no nonce, and were asked for     *)
(* while the refresh token was valid (server.ts:463-473).                  *)
RefreshIsTheSignIn ==
    \A r \in responses : r.grant = "refresh_token" =>
        /\ r.nonce = Absent
        /\ r.iat <= drawn[r.source].expiresAt
        /\ \E g \in responses :
              /\ g.grant = "authorization_code"
              /\ g.refreshToken = r.source
              /\ <<g.user, g.clientId, g.scope>> = <<r.user, r.clientId, r.scope>>

(* A browser that arrives at the callback brings a code for the very       *)
(* request it last made, through the login form, by its session alone or   *)
(* in a form of its own making, and the code is for the user its cookie    *)
(* names and goes to the URI and with the state it is stored with          *)
(* (server.ts:344-349, 384-404).  Only the form may have changed the       *)
(* request, and only a text that String.replace rewrites: a request        *)
(* without such a text equals its HiddenFields.                            *)
CallbackAnswersRequest ==
    \A b \in Browsers : page[b].kind = "callback" =>
        /\ asked[b] # None
        /\ minted[page[b].code] # None
        /\ minted[page[b].code].auth \in {asked[b], HiddenFields(asked[b])}
        /\ minted[page[b].code].user = cookie[b]
        /\ page[b].uri = minted[page[b].code].auth.redirectUri
        /\ page[b].state = minted[page[b].code].auth.state

(* A browser is signed in only by the answer that brings it a new code for *)
(* the same user: a login whose redirect cannot be built leaves a code     *)
(* behind but no session (server.ts:397-404).                              *)
SessionComesWithCode ==
    [][\A b \in Browsers : cookie'[b] \notin {cookie[b], Absent} =>
          /\ page'[b].kind = "callback"
          /\ minted[page'[b].code] = None
          /\ minted'[page'[b].code].user = cookie'[b]]_vars

(* A refused request spends nothing: after any 400 or 401 both maps are as *)
(* they were, so a mistyped verifier does not cost the client its code     *)
(* (server.ts:414-442).                                                    *)
RefusalSpendsNothing ==
    [][\A c \in Conns :
          (conns'[c] # conns[c] /\ conns'[c].phase = "answered"
             /\ conns'[c].status \in {400, 401})
          => UNCHANGED server]_vars

(* Every accepted POST /token is answered (or its process dies): the       *)
(* signatures settle and handle's catch answers for those that fail.       *)
EveryRequestAnswered == \A c \in Conns : ~Free(c) ~> Free(c)

(* The failed-login page does not lose the request of the form it replaces *)
(* (server.ts:353, "render the login form carrying the OAuth request       *)
(* along").                                                                *)
FailedLoginKeepsRequest ==
    [][\A b \in Browsers :
          (page[b].kind = "login" /\ page'[b].kind = "login"
             /\ page'[b].message = "credentials")
          => page'[b].form = page[b].form]_vars

-----------------------------------------------------------------------------
(* The server implements CodeGrant.                                        *)

SignIn(user, auth) ==
    [user |-> user, clientId |-> auth.clientId, scope |-> auth.scope, nonce |-> auth.nonce]

Live(code) ==
    /\ authCodes[code] # None
    /\ ~authCodes[code].used
    /\ authCodes[code].expiresAt >= now

Stage(code) ==
    CASE minted[code] = None -> "fresh"
      [] Live(code) -> "live"
      [] \E c \in Conns : Redeeming(c, code) -> "spent"
      [] Grants(code) # {} -> "granted"
      [] OTHER -> "void"

Abstract == INSTANCE CodeGrant WITH
    Bindings <- [user : Users, clientId : Clients, scope : Scopes, nonce : Optional(Nonces)],
    stage <- [code \in Codes |-> Stage(code)],
    binding <- [code \in Codes |->
                  IF minted[code] = None THEN None
                  ELSE SignIn(minted[code].user, minted[code].auth)],
    granted <- {<<r.source, SignIn(r.user, r)>> :
                  r \in {x \in responses : x.grant = "authorization_code"}}

(* Every behaviour of the server is one of the abstract code grant: a code *)
(* goes from live to spent to granted or void and never back, tokens are   *)
(* for the sign-in it was minted for, and a spent code is settled.         *)
ImplementsCodeGrant == Abstract!Spec
=============================================================================
