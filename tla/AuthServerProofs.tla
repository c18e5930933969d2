-------------------------- MODULE AuthServerProofs --------------------------
(***************************************************************************)
(* Theorems about AuthServer, for every set of users, clients, codes,      *)
(* connections and browsers, every lifetime and every bound.               *)
(***************************************************************************)
EXTENDS AuthServer, TLAPS

(* What each handler keeps of the state's type, one lemma per endpoint.    *)

LEMMA InitType == Init => TypeOK
  BY DEF Init, TypeOK, Optional, Page, Connection, Blank, Idle

LEMMA PendingType ==
    ASSUME NEW q \in AuthorizeParams, validateAuthorizeParams(q)
    PROVE  Pending(q) \in PendingAuthorization
  BY InputAssumption, ConfigAssumption
     DEF validateAuthorizeParams, Pending, ScopeOf, PendingAuthorization, AuthorizeQuery, Optional

LEMMA FormType ==
    ASSUME TypeOK, NEW b \in Browsers, NEW form \in HandMade \cup Shown(b)
    PROVE  form \in LoginForm
  BY InputAssumption DEF TypeOK, Shown, Page

LEMMA FormPendingType ==
    ASSUME NEW form \in LoginForm, Absent \notin {form.clientId, form.redirectUri}
    PROVE  Pending(form) \in PendingAuthorization /\ Pending(form).redirectUri = form.redirectUri
  BY ConfigAssumption DEF LoginForm, Pending, ScopeOf, PendingAuthorization, Optional

LEMMA HiddenType ==
    /\ NoFields \in LoginForm
    /\ \A auth \in PendingAuthorization : HiddenFields(auth) \in LoginForm
<1>1. NoFields \in LoginForm
  BY DEF NoFields, LoginForm, Optional
<1>2. ASSUME NEW auth \in PendingAuthorization
      PROVE  HiddenFields(auth) \in LoginForm
  <2> DEFINE Carried(text) == IF text = Absent THEN Absent ELSE Substituted[text]
  <2>1. /\ \A S \in {Clients, Uris, Scopes, States, Nonces, Verifiers} :
              \A text \in Optional(S) : Carried(text) \in Optional(S)
    BY SubstitutionAssumption DEF Optional
  <2>2. /\ auth.clientId \in Optional(Clients) /\ auth.redirectUri \in Optional(Uris)
        /\ auth.scope \in Optional(Scopes) /\ auth.state \in Optional(States)
        /\ auth.nonce \in Optional(Nonces) /\ auth.codeChallenge \in Optional(Verifiers)
        /\ auth.codeChallengeMethod \in {"S256", "plain", "none"}
    BY DEF PendingAuthorization, Optional
  <2>3. HiddenFields(auth) =
          [clientId |-> Carried(auth.clientId), redirectUri |-> Carried(auth.redirectUri),
           scope |-> Carried(auth.scope), state |-> Carried(auth.state),
           nonce |-> Carried(auth.nonce), codeChallenge |-> Carried(auth.codeChallenge),
           codeChallengeMethod |-> auth.codeChallengeMethod]
    BY DEF HiddenFields
  <2> HIDE DEF Carried
  <2>4. /\ Carried(auth.clientId) \in Optional(Clients)
        /\ Carried(auth.redirectUri) \in Optional(Uris)
        /\ Carried(auth.scope) \in Optional(Scopes)
        /\ Carried(auth.state) \in Optional(States)
        /\ Carried(auth.nonce) \in Optional(Nonces)
        /\ Carried(auth.codeChallenge) \in Optional(Verifiers)
    BY <2>1, <2>2
  <2> QED  BY <2>2, <2>3, <2>4 DEF LoginForm
<1> QED  BY <1>1, <1>2

LEMMA IssueType ==
    ASSUME TypeOK, NEW code \in Codes, NEW auth \in PendingAuthorization,
           NEW user \in Users, issueAuthCode(code, auth, user)
    PROVE  /\ authCodes' \in [Codes -> AuthCodeRecord \cup {None}]
           /\ minted' \in [Codes -> AuthCodeRecord \cup {None}]
  BY LifetimeAssumption DEF TypeOK, issueAuthCode, AuthCodeRecord

LEMMA CallbackPageType ==
    ASSUME NEW auth \in PendingAuthorization, NEW code \in Codes
    PROVE  CallbackPage(auth, code) \in Page
  BY DEF CallbackPage, Page, PendingAuthorization, Optional

LEMMA BrowserType == TypeOK /\ BrowserNext => TypeOK'
<1> SUFFICES ASSUME TypeOK, NEW b \in Browsers,
                    \/ \E q \in AuthorizeParams :
                          \/ AuthorizeRefused(b, q)
                          \/ AuthorizeLoginForm(b, q)
                          \/ \E code \in Codes : AuthorizeWithSession(b, q, code)
                    \/ LoginRefused(b)
                    \/ \E form \in HandMade \cup Shown(b) :
                          \/ LoginWithoutRequest(b, form)
                          \/ \E user \in Users, code \in Codes :
                                LoginAccepted(b, form, user, code)
                    \/ \E clientId \in Optional(Clients), target \in Optional(Uris) :
                          \/ LogoutRedirect(b, clientId, target)
                          \/ LogoutWithHint(b, clientId, target)
                          \/ LogoutPage(b, clientId, target)
             PROVE  TypeOK'
  BY DEF BrowserNext
<1>1. CASE \E q \in AuthorizeParams : AuthorizeRefused(b, q)
  <2>1. PICK q \in AuthorizeParams : AuthorizeRefused(b, q)  BY <1>1
  <2>2. q \in AuthorizeQuery  BY InputAssumption
  <2>3. (IF q.redirectUri # Absent /\ ~InvalidRedirect(q)
         THEN authorizeErrorRedirect(q.redirectUri, q.state)
         ELSE loginPage(NoFields, "invalid request")) \in Page
    BY <2>2, HiddenType DEF authorizeErrorRedirect, loginPage, Page, AuthorizeQuery, Optional
  <2> QED  BY <2>1, <2>3 DEF AuthorizeRefused, TypeOK, server, history
<1>2. CASE \E q \in AuthorizeParams : AuthorizeLoginForm(b, q)
  <2>1. PICK q \in AuthorizeParams : AuthorizeLoginForm(b, q)  BY <1>2
  <2>2. Pending(q) \in PendingAuthorization  BY <2>1, PendingType DEF AuthorizeLoginForm
  <2>3. loginPage(HiddenFields(Pending(q)), "none") \in Page
    BY <2>2, HiddenType DEF loginPage, Page
  <2> QED  BY <2>1, <2>2, <2>3 DEF AuthorizeLoginForm, TypeOK, server, history
<1>3. CASE \E q \in AuthorizeParams, code \in Codes : AuthorizeWithSession(b, q, code)
  <2>1. PICK q \in AuthorizeParams, code \in Codes : AuthorizeWithSession(b, q, code)  BY <1>3
  <2>2. Pending(q) \in PendingAuthorization  BY <2>1, PendingType DEF AuthorizeWithSession
  <2>3. CallbackPage(Pending(q), code) \in Page  BY <2>2, CallbackPageType
  <2>4. /\ authCodes' \in [Codes -> AuthCodeRecord \cup {None}]
        /\ minted' \in [Codes -> AuthCodeRecord \cup {None}]
    BY <2>1, <2>2, IssueType DEF AuthorizeWithSession
  <2> QED  BY <2>1, <2>2, <2>3, <2>4 DEF AuthorizeWithSession, TypeOK
<1>4. CASE LoginRefused(b)
  <2>1. loginPage(NoFields, "credentials") \in Page  BY HiddenType DEF loginPage, Page
  <2> QED  BY <1>4, <2>1 DEF LoginRefused, TypeOK, server, history
<1>5. CASE \E form \in HandMade \cup Shown(b) : LoginWithoutRequest(b, form)
  <2>1. loginPage(NoFields, "missing") \in Page  BY HiddenType DEF loginPage, Page
  <2> QED  BY <1>5, <2>1 DEF LoginWithoutRequest, TypeOK, server, history
<1>6. CASE \E form \in HandMade \cup Shown(b), user \in Users, code \in Codes :
              LoginAccepted(b, form, user, code)
  <2>1. PICK form \in HandMade \cup Shown(b), user \in Users, code \in Codes :
             LoginAccepted(b, form, user, code)
    BY <1>6
  <2>2. Pending(form) \in PendingAuthorization
    BY <2>1, FormType, FormPendingType DEF LoginAccepted
  <2>3. CallbackPage(Pending(form), code) \in Page  BY <2>2, CallbackPageType
  <2>4. /\ authCodes' \in [Codes -> AuthCodeRecord \cup {None}]
        /\ minted' \in [Codes -> AuthCodeRecord \cup {None}]
    BY <2>1, <2>2, IssueType DEF LoginAccepted
  <2>5. cookie' \in [Browsers -> Optional(Accounts)]
    BY <2>1, ConfigAssumption DEF LoginAccepted, SetCookie, TypeOK, Optional
  <2>6. asked' \in [Browsers -> PendingAuthorization \cup {None}]
    BY <2>1, <2>2 DEF LoginAccepted, TypeOK
  <2> QED  BY <2>1, <2>3, <2>4, <2>5, <2>6 DEF LoginAccepted, TypeOK
<1>7. CASE \E clientId \in Optional(Clients), target \in Optional(Uris) :
              \/ LogoutRedirect(b, clientId, target)
              \/ LogoutWithHint(b, clientId, target)
              \/ LogoutPage(b, clientId, target)
  <2>1. {[kind |-> "left"], [kind |-> "home"], [kind |-> "signed out"]} \subseteq Page
    BY DEF Page
  <2>2. page' \in [Browsers -> Page]
    BY <1>7, <2>1 DEF LogoutRedirect, LogoutWithHint, LogoutPage, TypeOK
  <2>3. cookie' \in [Browsers -> Optional(Accounts)]
    BY <1>7 DEF LogoutRedirect, LogoutWithHint, LogoutPage, TypeOK, Optional
  <2> QED
    BY <1>7, <2>2, <2>3
       DEF LogoutRedirect, LogoutWithHint, LogoutPage, TypeOK, server, history
<1> QED  BY <1>1, <1>2, <1>3, <1>4, <1>5, <1>6, <1>7

LEMMA AnswerType ==
    ASSUME TypeOK, NEW c \in Conns, NEW status \in {200, 400, 401, 500}, Answer(c, status)
    PROVE  conns' \in [Conns -> Connection]
  BY DEF TypeOK, Answer, Connection

LEMMA ClientType == TypeOK /\ ClientNext => TypeOK'
<1> SUFFICES ASSUME TypeOK, NEW c \in Conns,
                    \/ UnsupportedGrant(c)
                    \/ \E code \in Codes, uri \in Optional(Uris),
                          clientId \in Optional(Clients), verifier \in Optional(Verifiers) :
                          \/ CodeRefused(c, code, uri, clientId, verifier)
                          \/ CodeRedeemed(c, code, uri, clientId, verifier)
                    \/ \E h \in Handles : RefreshRefused(c, h) \/ RefreshRedeemed(c, h)
                    \/ \E r \in responses, life \in {IdLife, AccessLife} :
                          UserinfoAnswered(c, r, life)
                    \/ UserinfoRefused(c)
             PROVE  TypeOK'
  BY DEF ClientNext
<1>1. CASE \/ UnsupportedGrant(c)
           \/ \E code \in Codes, uri \in Optional(Uris),
                 clientId \in Optional(Clients), verifier \in Optional(Verifiers) :
                 CodeRefused(c, code, uri, clientId, verifier)
           \/ \E h \in Handles : RefreshRefused(c, h)
           \/ UserinfoRefused(c)
  <2>1. Answer(c, 400) \/ Answer(c, 401)
    BY <1>1 DEF UnsupportedGrant, CodeRefused, RefreshRefused, UserinfoRefused
  <2>2. conns' \in [Conns -> Connection]  BY <2>1, AnswerType
  <2>3. UNCHANGED <<server, browser, now, restarts, history>>
    BY <1>1 DEF UnsupportedGrant, CodeRefused, RefreshRefused, UserinfoRefused
  <2> QED  BY <2>2, <2>3 DEF TypeOK, server, browser, history
<1>2. CASE \E code \in Codes, uri \in Optional(Uris),
              clientId \in Optional(Clients), verifier \in Optional(Verifiers) :
              CodeRedeemed(c, code, uri, clientId, verifier)
  <2>1. PICK code \in Codes, uri \in Optional(Uris),
             clientId \in Optional(Clients), verifier \in Optional(Verifiers) :
             CodeRedeemed(c, code, uri, clientId, verifier)
    BY <1>2
  <2>2. authCodes[code] \in AuthCodeRecord
    BY <2>1 DEF CodeRedeemed, CodeAcceptable, TypeOK
  <2>3. authCodes' \in [Codes -> AuthCodeRecord \cup {None}]
    BY <2>1, <2>2 DEF CodeRedeemed, Spend, TypeOK, AuthCodeRecord
  <2>4. conns' \in [Conns -> Connection]
    BY <2>1, <2>2
       DEF CodeRedeemed, TypeOK, AuthCodeRecord, PendingAuthorization, Connection, Signing
  <2> QED  BY <2>1, <2>3, <2>4 DEF CodeRedeemed, TypeOK, browser, history
<1>3. CASE \E h \in Handles : RefreshRedeemed(c, h)
  <2>1. PICK h \in Handles : RefreshRedeemed(c, h)  BY <1>3
  <2>2. refreshTokens[h] \in RefreshTokenRecord
    BY <2>1 DEF RefreshRedeemed, RefreshAcceptable, TypeOK
  <2>3. conns' \in [Conns -> Connection]
    BY <2>1, <2>2 DEF RefreshRedeemed, TypeOK, RefreshTokenRecord, Connection, Signing, Optional
  <2> QED  BY <2>1, <2>3 DEF RefreshRedeemed, TypeOK, server, browser, history
<1>4. CASE \E r \in responses, life \in {IdLife, AccessLife} : UserinfoAnswered(c, r, life)
  <2>1. PICK r \in responses, life \in {IdLife, AccessLife} : UserinfoAnswered(c, r, life)
    BY <1>4
  <2>2. r.user \in Users  BY DEF TypeOK, TokenResponse
  <2>3. (IF SubClaim[r.user] = Absent THEN r.user ELSE SubClaim[r.user]) \in Accounts
    BY <2>2, ConfigAssumption
  <2>4. conns' \in [Conns -> Connection]
    BY <2>1, <2>2, <2>3 DEF UserinfoAnswered, TypeOK, Connection
  <2> QED  BY <2>1, <2>4 DEF UserinfoAnswered, TypeOK, server, browser, history
<1> QED  BY <1>1, <1>2, <1>3, <1>4

LEMMA InFlight ==
    ASSUME TypeOK, NEW c \in Conns, ~Free(c)
    PROVE  conns[c] \in Signing
<1>1. conns[c] \in Connection  BY DEF TypeOK
<1>2. conns[c].phase \in {"sign id", "sign access"}  BY DEF Free
<1> QED  BY <1>1, <1>2 DEF Connection

LEMMA NextSignature ==
    ASSUME NEW r \in Signing
    PROVE  [r EXCEPT !.phase = "sign access"] \in Signing
  BY DEF Signing

LEMMA SigningType ==
    ASSUME TypeOK, NEW c \in Conns, SigningStep(c)
    PROVE  TypeOK'
<1>1. CASE IdTokenSigned(c)
  <2>1. conns[c] \in Signing  BY <1>1, InFlight DEF IdTokenSigned, Free
  <2>2. [conns[c] EXCEPT !.phase = "sign access"] \in Connection
    BY <2>1, NextSignature DEF Connection
  <2>3. conns' = [conns EXCEPT ![c] = [conns[c] EXCEPT !.phase = "sign access"]]
    BY <1>1 DEF IdTokenSigned
  <2>4. conns' \in [Conns -> Connection]  BY <2>2, <2>3 DEF TypeOK
  <2> QED  BY <1>1, <2>4 DEF IdTokenSigned, TypeOK, server, browser, history
<1>2. CASE \E h \in Handles : CodeGrantAnswered(c, h)
  <2>1. PICK h \in Handles : CodeGrantAnswered(c, h)  BY <1>2
  <2>2. conns[c] \in Signing  BY <2>1, InFlight DEF CodeGrantAnswered, Free
  <2>9. now + RefreshLife \in Nat  BY LifetimeAssumption DEF TypeOK
  <2>3. RefreshTokenOf(c) \in RefreshTokenRecord
    BY <2>2, <2>9 DEF RefreshTokenOf, Signing, RefreshTokenRecord
  <2>4. /\ refreshTokens' \in [Handles -> RefreshTokenRecord \cup {None}]
        /\ drawn' \in [Handles -> RefreshTokenRecord \cup {None}]
    BY <2>1, <2>3 DEF CodeGrantAnswered, TypeOK
  <2>5. Response(c, h) \in TokenResponse
    BY <2>2 DEF Response, TokenResponse, Signing, Optional
  <2>6. responses' \subseteq TokenResponse
    BY <2>1, <2>5 DEF CodeGrantAnswered, TypeOK
  <2>7. conns' \in [Conns -> Connection]
    BY <2>1, AnswerType DEF CodeGrantAnswered
  <2> QED  BY <2>1, <2>4, <2>6, <2>7 DEF CodeGrantAnswered, TypeOK, browser
<1>3. CASE RefreshGrantAnswered(c)
  <2>1. conns[c] \in Signing  BY <1>3, InFlight DEF RefreshGrantAnswered, Free
  <2>2. Response(c, Absent) \in TokenResponse
    BY <2>1 DEF Response, TokenResponse, Signing, Optional
  <2>3. responses' \subseteq TokenResponse
    BY <1>3, <2>2 DEF RefreshGrantAnswered, TypeOK
  <2>4. conns' \in [Conns -> Connection]
    BY <1>3, AnswerType DEF RefreshGrantAnswered
  <2> QED  BY <1>3, <2>3, <2>4 DEF RefreshGrantAnswered, TypeOK, server, browser
<1>4. CASE SigningFails(c)
  <2>1. conns' \in [Conns -> Connection]
    BY <1>4, AnswerType DEF SigningFails
  <2> QED  BY <1>4, <2>1 DEF SigningFails, TypeOK, server, browser, history
<1> QED  BY <1>1, <1>2, <1>3, <1>4 DEF SigningStep

LEMMA NextType == TypeOK /\ [Next]_vars => TypeOK'
<1> SUFFICES ASSUME TypeOK, [Next]_vars PROVE TypeOK'
  OBVIOUS
<1>1. CASE BrowserNext  BY <1>1, BrowserType
<1>2. CASE ClientNext   BY <1>2, ClientType
<1>3. CASE \E c \in Conns : SigningStep(c)  BY <1>3, SigningType
<1>4. CASE Tick
  BY <1>4 DEF Tick, TypeOK, server, browser, history
<1>5. CASE Restart
  BY <1>5 DEF Restart, TypeOK, browser, history, Connection, Idle
<1>6. CASE UNCHANGED vars
  BY <1>6 DEF vars, TypeOK, server, browser, history
<1> QED  BY <1>1, <1>2, <1>3, <1>4, <1>5, <1>6 DEF Next

(* Every reachable state has the declared shape: no handler stores a       *)
(* record with a missing client, user or expiry, whatever the requests.    *)
THEOREM TypeCorrect == Spec => []TypeOK
  BY InitType, NextType, PTL DEF Spec

-----------------------------------------------------------------------------
(* Single use.  Three kinds of step matter to CodeInvariant: those that    *)
(* mint a code, the one that spends it and the one that answers with its   *)
(* tokens.  Every other step only lets go of codes.                        *)

LEMMA CodeInvariantInit == Init => CodeInvariant
<1> SUFFICES ASSUME Init PROVE CodeInvariant
  OBVIOUS
<1>1. \A code \in Codes : authCodes[code] = None  BY DEF Init
<1>2. \A c \in Conns : Free(c)  BY DEF Init, Free, Idle
<1>3. \A code \in Codes, c \in Conns : ~Redeeming(c, code)  BY <1>2 DEF Redeeming
<1>4. \A code \in Codes : Grants(code) = {}  BY DEF Init, Grants
<1> QED  BY <1>1, <1>3, <1>4 DEF CodeInvariant, SingleUse, GrantIsTheSignIn

LEMMA LettingGo ==
    ASSUME CodeInvariant,
           \A code \in Codes : authCodes'[code] \in {authCodes[code], None},
           UNCHANGED minted,
           \A code \in Codes : Grants(code)' = Grants(code),
           \A c \in Conns, code \in Codes : Redeeming(c, code)' =>
              /\ Redeeming(c, code)
              /\ conns'[c].user = conns[c].user
              /\ conns'[c].clientId = conns[c].clientId
              /\ conns'[c].scope = conns[c].scope
              /\ conns'[c].nonce = conns[c].nonce
              /\ conns'[c].iat = conns[c].iat
    PROVE  CodeInvariant'
<1>1. \A code \in Codes : Spent(code) => Spent(code)'
  BY DEF Spent
<1>2. \A code \in Codes : authCodes'[code] # None =>
          /\ minted'[code] # None
          /\ authCodes'[code].auth = minted'[code].auth
          /\ authCodes'[code].user = minted'[code].user
          /\ authCodes'[code].expiresAt = minted'[code].expiresAt
  BY DEF CodeInvariant
<1>3. \A code \in Codes, c \in Conns : Redeeming(c, code)' =>
          Spent(code)' /\ ForSignIn(conns[c], code)'
  BY <1>1 DEF CodeInvariant, ForSignIn
<1>4. \A code \in Codes : Grants(code)' # {} => Spent(code)'
  BY <1>1 DEF CodeInvariant
<1>5. SingleUse'
  BY DEF CodeInvariant, SingleUse
<1>6. GrantIsTheSignIn'
  BY DEF CodeInvariant, GrantIsTheSignIn, ForSignIn
<1> QED  BY <1>2, <1>3, <1>4, <1>5, <1>6 DEF CodeInvariant

LEMMA Minting ==
    ASSUME TypeOK, CodeInvariant, NEW new \in Codes, NEW auth, NEW user,
           issueAuthCode(new, auth, user), UNCHANGED <<conns, responses>>
    PROVE  CodeInvariant'
<1>1. \A c \in Conns : ~Redeeming(c, new)
  BY DEF CodeInvariant, ForSignIn, issueAuthCode
<1>2. Grants(new) = {}
  BY DEF CodeInvariant, GrantIsTheSignIn, ForSignIn, issueAuthCode
<1>3. \A code \in Codes : Grants(code)' = Grants(code)
  BY DEF Grants
<1>4. \A code \in Codes, c \in Conns : Redeeming(c, code)' = Redeeming(c, code)
  BY DEF Redeeming, Free
<1>5. \A code \in Codes \ {new} :
          authCodes'[code] = authCodes[code] /\ minted'[code] = minted[code]
  BY DEF issueAuthCode, TypeOK
<1>6. authCodes'[new] = minted'[new]
  BY DEF issueAuthCode, TypeOK
<1>7. \A code \in Codes : authCodes'[code] # None =>
          /\ minted'[code] # None
          /\ authCodes'[code].auth = minted'[code].auth
          /\ authCodes'[code].user = minted'[code].user
          /\ authCodes'[code].expiresAt = minted'[code].expiresAt
  BY <1>5, <1>6 DEF CodeInvariant
<1>8. \A code \in Codes, c \in Conns : Redeeming(c, code)' =>
          Spent(code)' /\ ForSignIn(conns[c], code)'
  BY <1>1, <1>4, <1>5 DEF CodeInvariant, ForSignIn, Spent
<1>9. \A code \in Codes : Grants(code)' # {} => Spent(code)'
  BY <1>2, <1>3, <1>5 DEF CodeInvariant, Spent
<1>10. SingleUse'
  BY <1>3, <1>4 DEF CodeInvariant, SingleUse
<1>11. GrantIsTheSignIn'
  BY <1>2, <1>3, <1>5 DEF CodeInvariant, GrantIsTheSignIn, ForSignIn
<1> QED  BY <1>7, <1>8, <1>9, <1>10, <1>11 DEF CodeInvariant

LEMMA Spending ==
    ASSUME TypeOK, CodeInvariant, NEW c \in Conns, NEW code \in Codes,
           NEW uri, NEW clientId, NEW verifier,
           CodeRedeemed(c, code, uri, clientId, verifier)
    PROVE  CodeInvariant'
<1>1. /\ authCodes[code] \in AuthCodeRecord
      /\ ~authCodes[code].used
      /\ ~(authCodes[code].expiresAt < now)
      /\ Free(c)
      /\ UNCHANGED <<minted, responses>>
  BY DEF CodeRedeemed, CodeAcceptable, CodeExpired, TypeOK, history
<1>2. ~Spent(code)
  BY <1>1, NoneAssumption DEF Spent
<1>3. Grants(code) = {} /\ \A d \in Conns : ~Redeeming(d, code)
  BY <1>2 DEF CodeInvariant
<1>4. \A other \in Codes : Grants(other)' = Grants(other)
  BY <1>1 DEF Grants
<1>5. \A other \in Codes \ {code} : authCodes'[other] = authCodes[other]
  BY DEF CodeRedeemed, Spend, TypeOK
<1>6. authCodes'[code] = [authCodes[code] EXCEPT !.used = TRUE]
  BY DEF CodeRedeemed, Spend, TypeOK
<1>7. /\ authCodes'[code].used = TRUE
      /\ authCodes'[code].auth = authCodes[code].auth
      /\ authCodes'[code].user = authCodes[code].user
      /\ authCodes'[code].expiresAt = authCodes[code].expiresAt
  BY <1>1, <1>6 DEF AuthCodeRecord
<1>8. \A other \in Codes : Spent(other) => Spent(other)'
  BY <1>2, <1>5 DEF Spent
<1>9. \A d \in Conns \ {c} : conns'[d] = conns[d]
  BY DEF CodeRedeemed, TypeOK
<1>10. /\ conns'[c].source = code
       /\ conns'[c].user = authCodes[code].user
       /\ conns'[c].clientId = authCodes[code].auth.clientId
       /\ conns'[c].scope = authCodes[code].auth.scope
       /\ conns'[c].nonce = authCodes[code].auth.nonce
       /\ conns'[c].iat = now
  BY DEF CodeRedeemed, TypeOK
<1>11. \A d \in Conns \ {c}, other \in Codes : Redeeming(d, other)' = Redeeming(d, other)
  BY <1>9 DEF Redeeming, Free
<1>12. \A other \in Codes : Redeeming(c, other)' => other = code
  BY <1>10 DEF Redeeming, Free
<1>13. /\ minted[code] # None
       /\ authCodes[code].auth = minted[code].auth
       /\ authCodes[code].user = minted[code].user
       /\ authCodes[code].expiresAt = minted[code].expiresAt
  BY <1>1, NoneAssumption DEF CodeInvariant
<1>14. now <= minted[code].expiresAt
  BY <1>1, <1>13 DEF TypeOK, AuthCodeRecord
<1>15. ForSignIn(conns[c], code)'
  <2>1. minted' = minted  BY <1>1
  <2> QED  BY <2>1, <1>10, <1>13, <1>14 DEF ForSignIn
<1>16. Spent(code)'
  BY <1>7 DEF Spent
<1>17. \A other \in Codes : authCodes'[other] # None =>
          /\ minted'[other] # None
          /\ authCodes'[other].auth = minted'[other].auth
          /\ authCodes'[other].user = minted'[other].user
          /\ authCodes'[other].expiresAt = minted'[other].expiresAt
  BY <1>1, <1>5, <1>7, <1>13 DEF CodeInvariant
<1>18. \A other \in Codes, d \in Conns : Redeeming(d, other)' =>
          Spent(other)' /\ ForSignIn(conns[d], other)'
  BY <1>1, <1>8, <1>9, <1>11, <1>12, <1>15, <1>16 DEF CodeInvariant, ForSignIn
<1>19. \A other \in Codes : Grants(other)' # {} => Spent(other)'
  BY <1>4, <1>8 DEF CodeInvariant
<1>20. SingleUse'
  BY <1>3, <1>4, <1>11, <1>12 DEF CodeInvariant, SingleUse
<1>21. GrantIsTheSignIn'
  BY <1>1, <1>4 DEF CodeInvariant, GrantIsTheSignIn, ForSignIn
<1> QED  BY <1>17, <1>18, <1>19, <1>20, <1>21 DEF CodeInvariant

LEMMA Granting ==
    ASSUME TypeOK, CodeInvariant, NEW c \in Conns, NEW h \in Handles,
           CodeGrantAnswered(c, h), NEW code \in Codes, conns[c].source = code
    PROVE  CodeInvariant'
<1> DEFINE r == [grant |-> "authorization_code", source |-> code,
                 user |-> conns[c].user, clientId |-> conns[c].clientId,
                 scope |-> conns[c].scope, nonce |-> conns[c].nonce,
                 iat |-> conns[c].iat, refreshToken |-> h]
<1>1. /\ ~Free(c)
      /\ conns[c].grant = "authorization_code"
      /\ UNCHANGED <<authCodes, minted>>
      /\ responses' = responses \cup {r}
  BY DEF CodeGrantAnswered, Free, Response
<1>2. Redeeming(c, code)
  BY <1>1 DEF Redeeming
<1>3. Spent(code) /\ ForSignIn(conns[c], code) /\ Grants(code) = {}
  BY <1>2 DEF CodeInvariant, SingleUse
<1>4. r.grant = "authorization_code" /\ r.source = code
  OBVIOUS
<1>5. ForSignIn(r, code)
  BY <1>3 DEF ForSignIn
<1>6. Grants(code)' = {r}
  BY <1>1, <1>3, <1>4 DEF Grants
<1>7. \A other \in Codes \ {code} : Grants(other)' = Grants(other)
  BY <1>1, <1>4 DEF Grants
<1>8. \A d \in Conns \ {c} : conns'[d] = conns[d]
  BY DEF CodeGrantAnswered, Answer, TypeOK
<1>9. conns'[c].phase = "answered"
  BY DEF CodeGrantAnswered, Answer, TypeOK
<1>10. \A d \in Conns, other \in Codes : Redeeming(d, other)' => Redeeming(d, other) /\ d # c
  BY <1>8, <1>9 DEF Redeeming, Free
<1>11. \A d \in Conns : ~Redeeming(d, code)'
  BY <1>2, <1>10 DEF CodeInvariant, SingleUse
<1>12. \A other \in Codes : authCodes'[other] # None =>
          /\ minted'[other] # None
          /\ authCodes'[other].auth = minted'[other].auth
          /\ authCodes'[other].user = minted'[other].user
          /\ authCodes'[other].expiresAt = minted'[other].expiresAt
  BY <1>1 DEF CodeInvariant
<1>13. \A other \in Codes, d \in Conns : Redeeming(d, other)' =>
          Spent(other)' /\ ForSignIn(conns[d], other)'
  BY <1>1, <1>8, <1>10 DEF CodeInvariant, ForSignIn, Spent
<1>14. \A other \in Codes : Grants(other)' # {} => Spent(other)'
  BY <1>1, <1>3, <1>7 DEF CodeInvariant, Spent
<1>15. SingleUse'
  BY <1>6, <1>7, <1>10, <1>11 DEF CodeInvariant, SingleUse
<1>16. GrantIsTheSignIn'
  BY <1>1, <1>5, <1>6, <1>7 DEF CodeInvariant, GrantIsTheSignIn, ForSignIn
<1> QED  BY <1>12, <1>13, <1>14, <1>15, <1>16 DEF CodeInvariant

(* A connection that is answered, or that starts a refresh grant.          *)
LEMMA Leaving ==
    ASSUME TypeOK, CodeInvariant, NEW c \in Conns, NEW k,
           conns' = [conns EXCEPT ![c] = k],
           k.phase \in {"answered", "identity"} \/ k.grant = "refresh_token",
           UNCHANGED <<authCodes, minted>>,
           \A code \in Codes : Grants(code)' = Grants(code)
    PROVE  CodeInvariant'
<1>1. conns'[c] = k /\ \A d \in Conns \ {c} : conns'[d] = conns[d]
  BY DEF TypeOK
<1>2. \A code \in Codes : ~Redeeming(c, code)'
  BY <1>1 DEF Redeeming, Free
<1>3. \A d \in Conns, code \in Codes : Redeeming(d, code)' =>
          Redeeming(d, code) /\ conns'[d] = conns[d]
  BY <1>1, <1>2 DEF Redeeming, Free
<1> QED  BY <1>3, LettingGo

LEMMA BrowserCodes == TypeOK /\ CodeInvariant /\ BrowserNext => CodeInvariant'
<1> SUFFICES ASSUME TypeOK, CodeInvariant, BrowserNext PROVE CodeInvariant'
  OBVIOUS
<1>1. CASE \E new \in Codes : \E auth, user :
              issueAuthCode(new, auth, user) /\ UNCHANGED <<conns, responses>>
  BY <1>1, Minting
<1>2. CASE UNCHANGED <<authCodes, minted, conns, responses>>
  <2>1. \A code \in Codes : Grants(code)' = Grants(code)  BY <1>2 DEF Grants
  <2>2. \A c \in Conns, code \in Codes : Redeeming(c, code)' = Redeeming(c, code)
    BY <1>2 DEF Redeeming, Free
  <2> QED  BY <1>2, <2>1, <2>2, LettingGo
<1>3. PICK b \in Browsers :
         \/ \E q \in AuthorizeParams :
               \/ AuthorizeRefused(b, q)
               \/ AuthorizeLoginForm(b, q)
               \/ \E code \in Codes : AuthorizeWithSession(b, q, code)
         \/ LoginRefused(b)
         \/ \E form \in HandMade \cup Shown(b) :
               \/ LoginWithoutRequest(b, form)
               \/ \E user \in Users, code \in Codes : LoginAccepted(b, form, user, code)
         \/ \E clientId \in Optional(Clients), target \in Optional(Uris) :
               \/ LogoutRedirect(b, clientId, target)
               \/ LogoutWithHint(b, clientId, target)
               \/ LogoutPage(b, clientId, target)
  BY DEF BrowserNext
<1>4. CASE \E q \in AuthorizeParams, code \in Codes : AuthorizeWithSession(b, q, code)
  BY <1>4, <1>1 DEF AuthorizeWithSession
<1>5. CASE \E form \in HandMade \cup Shown(b), user \in Users, code \in Codes :
              LoginAccepted(b, form, user, code)
  BY <1>5, <1>1 DEF LoginAccepted
<1>6. CASE \/ \E q \in AuthorizeParams : AuthorizeRefused(b, q) \/ AuthorizeLoginForm(b, q)
           \/ LoginRefused(b)
           \/ \E form \in HandMade \cup Shown(b) : LoginWithoutRequest(b, form)
           \/ \E clientId \in Optional(Clients), target \in Optional(Uris) :
                 \/ LogoutRedirect(b, clientId, target)
                 \/ LogoutWithHint(b, clientId, target)
                 \/ LogoutPage(b, clientId, target)
  BY <1>6, <1>2
     DEF AuthorizeRefused, AuthorizeLoginForm, LoginRefused, LoginWithoutRequest,
         LogoutRedirect, LogoutWithHint, LogoutPage, server, history
<1> QED  BY <1>3, <1>4, <1>5, <1>6

LEMMA ClientCodes == TypeOK /\ CodeInvariant /\ ClientNext => CodeInvariant'
<1> SUFFICES ASSUME TypeOK, CodeInvariant, NEW c \in Conns,
                    \/ UnsupportedGrant(c)
                    \/ \E code \in Codes, uri \in Optional(Uris),
                          clientId \in Optional(Clients), verifier \in Optional(Verifiers) :
                          \/ CodeRefused(c, code, uri, clientId, verifier)
                          \/ CodeRedeemed(c, code, uri, clientId, verifier)
                    \/ \E h \in Handles : RefreshRefused(c, h) \/ RefreshRedeemed(c, h)
                    \/ \E r \in responses, life \in {IdLife, AccessLife} :
                          UserinfoAnswered(c, r, life)
                    \/ UserinfoRefused(c)
             PROVE  CodeInvariant'
  BY DEF ClientNext
<1>1. CASE \/ UnsupportedGrant(c)
           \/ \E code \in Codes, uri \in Optional(Uris),
                 clientId \in Optional(Clients), verifier \in Optional(Verifiers) :
                 CodeRefused(c, code, uri, clientId, verifier)
           \/ \E h \in Handles : RefreshRefused(c, h)
           \/ UserinfoRefused(c)
  <2>1. Answer(c, 400) \/ Answer(c, 401)
    BY <1>1 DEF UnsupportedGrant, CodeRefused, RefreshRefused, UserinfoRefused
  <2>2. UNCHANGED <<authCodes, minted, responses>>
    BY <1>1 DEF UnsupportedGrant, CodeRefused, RefreshRefused, UserinfoRefused,
                server, history
  <2>3. \A code \in Codes : Grants(code)' = Grants(code)  BY <2>2 DEF Grants
  <2>4. CASE Answer(c, 400)  BY <2>2, <2>3, <2>4, Leaving DEF Answer
  <2>5. CASE Answer(c, 401)  BY <2>2, <2>3, <2>5, Leaving DEF Answer
  <2> QED  BY <2>1, <2>4, <2>5
<1>2. CASE \E code \in Codes, uri \in Optional(Uris),
              clientId \in Optional(Clients), verifier \in Optional(Verifiers) :
              CodeRedeemed(c, code, uri, clientId, verifier)
  BY <1>2, Spending
<1>3. CASE \E h \in Handles : RefreshRedeemed(c, h)
  <2>1. PICK h \in Handles : RefreshRedeemed(c, h)  BY <1>3
  <2>2. UNCHANGED <<authCodes, minted, responses>>  BY <2>1 DEF RefreshRedeemed, server, history
  <2>3. \A code \in Codes : Grants(code)' = Grants(code)  BY <2>2 DEF Grants
  <2> DEFINE k ==
           [phase |-> "sign id", grant |-> "refresh_token", source |-> h,
            user |-> refreshTokens[h].user, clientId |-> refreshTokens[h].clientId,
            scope |-> refreshTokens[h].scope, nonce |-> Absent, iat |-> now]
  <2>4. conns' = [conns EXCEPT ![c] = k] /\ k.grant = "refresh_token"
    BY <2>1 DEF RefreshRedeemed
  <2> HIDE DEF k
  <2> QED  BY <2>2, <2>3, <2>4, Leaving
<1>4. CASE \E r \in responses, life \in {IdLife, AccessLife} : UserinfoAnswered(c, r, life)
  <2>1. PICK r \in responses, life \in {IdLife, AccessLife} : UserinfoAnswered(c, r, life)
    BY <1>4
  <2>2. UNCHANGED <<authCodes, minted, responses>>  BY <2>1 DEF UserinfoAnswered, server, history
  <2>3. \A code \in Codes : Grants(code)' = Grants(code)  BY <2>2 DEF Grants
  <2> DEFINE k == [phase |-> "identity", bearer |-> r.user,
                   sub |-> IF SubClaim[r.user] = Absent THEN r.user ELSE SubClaim[r.user]]
  <2>4. conns' = [conns EXCEPT ![c] = k] /\ k.phase = "identity"
    BY <2>1 DEF UserinfoAnswered
  <2> HIDE DEF k
  <2> QED  BY <2>2, <2>3, <2>4, Leaving
<1> QED  BY <1>1, <1>2, <1>3, <1>4

LEMMA SigningCodes ==
    ASSUME TypeOK, CodeInvariant, NEW c \in Conns, SigningStep(c)
    PROVE  CodeInvariant'
<1>1. CASE IdTokenSigned(c)
  <2>1. UNCHANGED <<authCodes, minted, responses>>  BY <1>1 DEF IdTokenSigned, server, history
  <2>2. \A code \in Codes : Grants(code)' = Grants(code)  BY <2>1 DEF Grants
  <2>3. conns[c] \in Signing  BY <1>1, InFlight DEF IdTokenSigned, Free
  <2>4. conns' = [conns EXCEPT ![c] = [conns[c] EXCEPT !.phase = "sign access"]]
    BY <1>1 DEF IdTokenSigned
  <2>5. /\ conns'[c] = [conns[c] EXCEPT !.phase = "sign access"]
        /\ \A d \in Conns \ {c} : conns'[d] = conns[d]
    BY <2>4 DEF TypeOK
  <2>6. /\ conns'[c].grant = conns[c].grant
        /\ conns'[c].source = conns[c].source
        /\ conns'[c].user = conns[c].user
        /\ conns'[c].clientId = conns[c].clientId
        /\ conns'[c].scope = conns[c].scope
        /\ conns'[c].nonce = conns[c].nonce
        /\ conns'[c].iat = conns[c].iat
    BY <2>3, <2>5 DEF Signing
  <2>7. ~Free(c)  BY <1>1 DEF IdTokenSigned, Free
  <2>8. \A d \in Conns, code \in Codes : Redeeming(d, code)' => Redeeming(d, code)
    BY <2>5, <2>6, <2>7 DEF Redeeming, Free
  <2> QED  BY <2>1, <2>2, <2>5, <2>6, <2>8, LettingGo
<1>2. CASE \E h \in Handles : CodeGrantAnswered(c, h)
  <2>1. PICK h \in Handles : CodeGrantAnswered(c, h)  BY <1>2
  <2>2. CASE conns[c].source \in Codes  BY <2>1, <2>2, Granting
  <2>3. CASE conns[c].source \notin Codes
    <3>1. UNCHANGED <<authCodes, minted>> /\ Answer(c, 200)
      BY <2>1 DEF CodeGrantAnswered
    <3>2. responses' = responses \cup {Response(c, h)}
          /\ Response(c, h).source \notin Codes
      BY <2>1, <2>3 DEF CodeGrantAnswered, Response
    <3>3. \A code \in Codes : Grants(code)' = Grants(code)  BY <3>2 DEF Grants
    <3> QED  BY <3>1, <3>3, Leaving DEF Answer
  <2> QED  BY <2>2, <2>3
<1>3. CASE RefreshGrantAnswered(c)
  <2>1. UNCHANGED <<authCodes, minted>> /\ Answer(c, 200)
    BY <1>3 DEF RefreshGrantAnswered, server
  <2>2. responses' = responses \cup {Response(c, Absent)}
        /\ Response(c, Absent).grant = "refresh_token"
    BY <1>3 DEF RefreshGrantAnswered, Response
  <2>3. \A code \in Codes : Grants(code)' = Grants(code)  BY <2>2 DEF Grants
  <2> QED  BY <2>1, <2>3, Leaving DEF Answer
<1>4. CASE SigningFails(c)
  <2>1. UNCHANGED <<authCodes, minted, responses>> /\ Answer(c, 500)
    BY <1>4 DEF SigningFails, server, history
  <2>2. \A code \in Codes : Grants(code)' = Grants(code)  BY <2>1 DEF Grants
  <2> QED  BY <2>1, <2>2, Leaving DEF Answer
<1> QED  BY <1>1, <1>2, <1>3, <1>4 DEF SigningStep

LEMMA CodeInvariantStep == TypeOK /\ CodeInvariant /\ [Next]_vars => CodeInvariant'
<1> SUFFICES ASSUME TypeOK, CodeInvariant, [Next]_vars PROVE CodeInvariant'
  OBVIOUS
<1>1. CASE BrowserNext  BY <1>1, BrowserCodes
<1>2. CASE ClientNext   BY <1>2, ClientCodes
<1>3. CASE \E c \in Conns : SigningStep(c)  BY <1>3, SigningCodes
<1>4. CASE Tick \/ UNCHANGED vars
  <2>1. UNCHANGED <<authCodes, minted, conns, responses>>
    BY <1>4 DEF Tick, vars, server, history
  <2>2. \A code \in Codes : Grants(code)' = Grants(code)  BY <2>1 DEF Grants
  <2>3. \A c \in Conns, code \in Codes : Redeeming(c, code)' = Redeeming(c, code)
    BY <2>1 DEF Redeeming, Free
  <2> QED  BY <2>1, <2>2, <2>3, LettingGo
<1>5. CASE Restart
  <2>1. UNCHANGED <<minted, responses>>  BY <1>5 DEF Restart, history
  <2>2. \A code \in Codes : authCodes'[code] = None  BY <1>5 DEF Restart
  <2>3. \A code \in Codes : Grants(code)' = Grants(code)  BY <2>1 DEF Grants
  <2>4. \A c \in Conns, code \in Codes : ~Redeeming(c, code)'
    BY <1>5 DEF Restart, Redeeming, Free, Idle
  <2> QED  BY <2>1, <2>2, <2>3, <2>4, LettingGo
<1> QED  BY <1>1, <1>2, <1>3, <1>4, <1>5 DEF Next

(* The inductive invariant holds in every reachable state.                 *)
THEOREM CodeInvariantHolds == Spec => []CodeInvariant
<1>1. Init => TypeOK /\ CodeInvariant
  BY InitType, CodeInvariantInit
<1>2. TypeOK /\ CodeInvariant /\ [Next]_vars => (TypeOK /\ CodeInvariant)'
  BY NextType, CodeInvariantStep
<1> QED  BY <1>1, <1>2, PTL DEF Spec

(* No authorization code yields tokens twice: with any number of           *)
(* connections and codes, any interleaving of the token endpoint's awaits, *)
(* any failures and restarts (server.ts:414-460).                          *)
THEOREM CodesAreSingleUse == Spec => []SingleUse
<1>1. CodeInvariant => SingleUse  BY DEF CodeInvariant
<1> QED  BY <1>1, CodeInvariantHolds, PTL

(* The tokens a code yields are those of the sign-in it was issued for,    *)
(* accepted before it expired (server.ts:188-198, 414-450).                *)
THEOREM CodeGrantsAreFaithful == Spec => []GrantIsTheSignIn
<1>1. CodeInvariant => GrantIsTheSignIn  BY DEF CodeInvariant
<1> QED  BY <1>1, CodeInvariantHolds, PTL
=============================================================================
