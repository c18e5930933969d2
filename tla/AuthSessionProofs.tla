-------------------------- MODULE AuthSessionProofs --------------------------
(***************************************************************************)
(* More theorems about AuthServer: what a browser carries from /authorize  *)
(* to the callback, what a refresh token stands for, and what a refusal    *)
(* costs.  AuthServerProofs has the type invariant that they rest on.      *)
(***************************************************************************)
EXTENDS AuthServerProofs

-----------------------------------------------------------------------------
(* Browsers.  CallbackAnswersRequest is not inductive: /login mints what   *)
(* the form it is sent carries and looks at nothing again, so that a form  *)
(* on a page must be known to carry the request of this very browser.      *)

FormCarriesRequest ==
    \A b \in Browsers : page[b].kind = "login" =>
        \/ page[b].form = NoFields
        \/ asked[b] # None /\ page[b].form = HiddenFields(asked[b])

BrowserInvariant == FormCarriesRequest /\ CallbackAnswersRequest

(* The conjuncts for one browser: another one's steps leave them alone.    *)
FormOf(b) ==
    page[b].kind = "login" =>
        \/ page[b].form = NoFields
        \/ asked[b] # None /\ page[b].form = HiddenFields(asked[b])

CallbackOf(b) ==
    page[b].kind = "callback" =>
        /\ asked[b] # None
        /\ minted[page[b].code] # None
        /\ minted[page[b].code].auth \in {asked[b], HiddenFields(asked[b])}
        /\ minted[page[b].code].user = cookie[b]
        /\ page[b].uri = minted[page[b].code].auth.redirectUri
        /\ page[b].state = minted[page[b].code].auth.state

LEMMA OneBrowser ==
    /\ FormCarriesRequest <=> \A b \in Browsers : FormOf(b)
    /\ CallbackAnswersRequest <=> \A b \in Browsers : CallbackOf(b)
  BY DEF FormCarriesRequest, CallbackAnswersRequest, FormOf, CallbackOf

(* A step of browser b that mints nothing and shows no callback.           *)
LEMMA PageStep ==
    ASSUME TypeOK, BrowserInvariant, NEW b \in Browsers, NEW p,
           page' = [page EXCEPT ![b] = p], p.kind # "callback",
           p.kind = "login" =>
              p.form = NoFields \/ (asked'[b] # None /\ p.form = HiddenFields(asked'[b])),
           \A d \in Browsers \ {b} : asked'[d] = asked[d] /\ cookie'[d] = cookie[d],
           UNCHANGED minted
    PROVE  BrowserInvariant'
<1>1. page'[b] = p /\ \A d \in Browsers \ {b} : page'[d] = page[d]
  BY DEF TypeOK
<1>3. ASSUME NEW d \in Browsers
      PROVE  FormOf(d)'
  <2>1. CASE d = b
    <3> SUFFICES ASSUME p.kind = "login"
                 PROVE  p.form = NoFields \/ (asked'[b] # None /\ p.form = HiddenFields(asked'[b]))
      BY <1>1, <2>1 DEF FormOf
    <3> QED  OBVIOUS
  <2>2. CASE d # b
    <3>1. page'[d] = page[d] /\ asked'[d] = asked[d]
      BY <1>1, <2>2
    <3>2. FormOf(d)
      BY OneBrowser DEF BrowserInvariant
    <3> QED  BY <3>1, <3>2 DEF FormOf
  <2> QED
    BY <2>1, <2>2
<1>4. ASSUME NEW d \in Browsers
      PROVE  CallbackOf(d)'
  <2>1. CASE d = b
    BY <1>1, <2>1 DEF CallbackOf
  <2>2. CASE d # b
    <3>1. page'[d] = page[d] /\ asked'[d] = asked[d] /\ cookie'[d] = cookie[d]
      BY <1>1, <2>2
    <3>2. CallbackOf(d)
      BY OneBrowser DEF BrowserInvariant
    <3> QED  BY <3>1, <3>2 DEF CallbackOf
  <2> QED
    BY <2>1, <2>2
<1>6. FormCarriesRequest'
  BY <1>3 DEF FormCarriesRequest, FormOf
<1>7. CallbackAnswersRequest'
  BY <1>4 DEF CallbackAnswersRequest, CallbackOf
<1> QED
  BY <1>6, <1>7 DEF BrowserInvariant

LEMMA CallbackPageKind ==
    ASSUME NEW auth, NEW code
    PROVE  /\ CallbackPage(auth, code).kind # "login"
           /\ auth.redirectUri \in Malformed => CallbackPage(auth, code).kind # "callback"
  BY DEF CallbackPage

(* A step of browser b that mints a code for auth, which is what b asked   *)
(* for or what its form made of that.                                      *)
LEMMA CallbackStep ==
    ASSUME TypeOK, BrowserInvariant, NEW b \in Browsers, NEW code \in Codes,
           NEW auth \in PendingAuthorization, NEW user \in Users,
           issueAuthCode(code, auth, user),
           page' = [page EXCEPT ![b] = CallbackPage(auth, code)],
           asked'[b] # None, auth \in {asked'[b], HiddenFields(asked'[b])},
           auth.redirectUri \notin Malformed => cookie'[b] = user,
           \A d \in Browsers \ {b} : asked'[d] = asked[d] /\ cookie'[d] = cookie[d]
    PROVE  BrowserInvariant'
<1>1. page'[b] = CallbackPage(auth, code) /\ \A d \in Browsers \ {b} : page'[d] = page[d]
  BY DEF TypeOK
<1>2. /\ minted[code] = None
      /\ minted'[code].auth = auth
      /\ minted'[code].user = user
      /\ \A other \in Codes \ {code} : minted'[other] = minted[other]
  BY DEF issueAuthCode, TypeOK
<1>3. minted'[code] # None
  <2>1. minted'[code] = [auth |-> auth, user |-> user,
                         expiresAt |-> now + CodeLife, used |-> FALSE]
    BY DEF issueAuthCode, TypeOK
  <2>2. now + CodeLife \in Nat
    BY LifetimeAssumption DEF TypeOK
  <2>3. minted'[code] \in AuthCodeRecord
    BY <2>1, <2>2 DEF AuthCodeRecord
  <2> QED
    BY <2>3, NoneAssumption
<1>5. ASSUME NEW d \in Browsers
      PROVE  FormOf(d)'
  <2>1. CASE d = b
    BY <1>1, <2>1, CallbackPageKind DEF FormOf
  <2>2. CASE d # b
    <3>1. page'[d] = page[d] /\ asked'[d] = asked[d]
      BY <1>1, <2>2
    <3>2. FormOf(d)
      BY OneBrowser DEF BrowserInvariant
    <3> QED  BY <3>1, <3>2 DEF FormOf
  <2> QED
    BY <2>1, <2>2
<1>6. ASSUME NEW d \in Browsers
      PROVE  CallbackOf(d)'
  <2>1. CASE d = b /\ auth.redirectUri \in Malformed
    BY <1>1, <2>1, CallbackPageKind DEF CallbackOf
  <2>2. CASE d = b /\ auth.redirectUri \notin Malformed
    <3>1. page'[d] = [kind |-> "callback", uri |-> auth.redirectUri,
                      code |-> code, state |-> auth.state]
      BY <1>1, <2>2 DEF CallbackPage
    <3>2. /\ page'[d].code = code
          /\ page'[d].uri = auth.redirectUri
          /\ page'[d].state = auth.state
      BY <3>1
    <3>3. asked'[d] # None /\ auth \in {asked'[d], HiddenFields(asked'[d])}
      BY <2>2
    <3>4. cookie'[d] = user
      BY <2>2
    <3> QED
      BY <1>2, <1>3, <3>2, <3>3, <3>4 DEF CallbackOf
  <2>3. CASE d # b
    <3> SUFFICES ASSUME page'[d].kind = "callback"
                 PROVE  CallbackOf(d)'
      BY DEF CallbackOf
    <3>1. page[d].kind = "callback" /\ page'[d] = page[d]
      BY <1>1, <2>3
    <3>2. CallbackOf(d)
      BY OneBrowser DEF BrowserInvariant
    <3>3. page[d].code \in Codes
      BY <3>1 DEF TypeOK, Page
    <3>4. page[d].code # code
      BY <1>2, <3>1, <3>2 DEF CallbackOf
    <3>5. minted'[page[d].code] = minted[page[d].code]
      BY <1>2, <3>3, <3>4
    <3>6. asked'[d] = asked[d] /\ cookie'[d] = cookie[d]
      BY <2>3
    <3> QED
      BY <3>1, <3>2, <3>5, <3>6 DEF CallbackOf
  <2> QED
    BY <2>1, <2>2, <2>3
<1>8. FormCarriesRequest'
  BY <1>5 DEF FormCarriesRequest, FormOf
<1>9. CallbackAnswersRequest'
  BY <1>6 DEF CallbackAnswersRequest, CallbackOf
<1> QED
  BY <1>8, <1>9 DEF BrowserInvariant

(* What /login makes of a form that carries a request: no default applies. *)
LEMMA FormIsPending ==
    ASSUME NEW auth \in PendingAuthorization
    PROVE  Pending(HiddenFields(auth)) = HiddenFields(auth)
<1>1. auth.scope # Absent /\ Substituted[auth.scope] # Absent
  BY ConfigAssumption, SubstitutionAssumption DEF PendingAuthorization
<1>2. HiddenFields(auth).scope = Substituted[auth.scope]
  BY <1>1 DEF HiddenFields
<1>3. ScopeOf(HiddenFields(auth)) = HiddenFields(auth).scope
  BY <1>1, <1>2 DEF ScopeOf
<1> QED  BY <1>3 DEF Pending, HiddenFields

LEMMA BrowserSteps == TypeOK /\ BrowserInvariant /\ BrowserNext => BrowserInvariant'
<1> SUFFICES ASSUME TypeOK, BrowserInvariant, NEW b \in Browsers,
                    \/ \E q \in AuthorizeParams :
                          \/ AuthorizeRefused(b, q)
                          \/ AuthorizeLoginForm(b, q)
                          \/ \E code \in Codes : AuthorizeWithSession(b, q, code)
                    \/ LoginRefused(b)
                    \/ \E form \in HandMade \cup Shown(b) :
                          \/ LoginWithoutRequest(b, form)
                          \/ \E user \in Users, code \in Codes :
                                LoginAccepted(b, form, user, code)
                    \/ \E clientId \in Optional(Clients), target \in Optional(Uris) :
                          \/ LogoutRedirect(b, clientId, target)
                          \/ LogoutWithHint(b, clientId, target)
                          \/ LogoutPage(b, clientId, target)
             PROVE  BrowserInvariant'
  BY DEF BrowserNext
<1>1. CASE \E q \in AuthorizeParams : AuthorizeRefused(b, q)
  <2>1. PICK q \in AuthorizeParams : AuthorizeRefused(b, q)  BY <1>1
  <2> DEFINE p == IF q.redirectUri # Absent /\ ~InvalidRedirect(q)
                  THEN authorizeErrorRedirect(q.redirectUri, q.state)
                  ELSE loginPage(NoFields, "invalid request")
  <2>2. p.kind # "callback" /\ (p.kind = "login" => p.form = NoFields)
    BY DEF authorizeErrorRedirect, loginPage
  <2>3. page' = [page EXCEPT ![b] = p] /\ UNCHANGED <<asked, cookie, minted>>
    BY <2>1 DEF AuthorizeRefused, history
  <2> HIDE DEF p
  <2>4. \A d \in Browsers \ {b} : asked'[d] = asked[d] /\ cookie'[d] = cookie[d]
    BY <2>3
  <2>5. p.kind = "login" =>
          p.form = NoFields \/ (asked'[b] # None /\ p.form = HiddenFields(asked'[b]))
    BY <2>2
  <2> QED  BY <2>2, <2>3, <2>4, <2>5, PageStep
<1>2. CASE \E q \in AuthorizeParams : AuthorizeLoginForm(b, q)
  <2>1. PICK q \in AuthorizeParams : AuthorizeLoginForm(b, q)  BY <1>2
  <2> DEFINE p == loginPage(HiddenFields(Pending(q)), "none")
  <2>2. p.kind # "callback" /\ p.form = HiddenFields(Pending(q))
    BY DEF loginPage
  <2>3. /\ page' = [page EXCEPT ![b] = p]
        /\ asked' = [asked EXCEPT ![b] = Pending(q)]
        /\ UNCHANGED <<cookie, minted>>
    BY <2>1 DEF AuthorizeLoginForm, history
  <2>4. asked'[b] = Pending(q) /\ \A d \in Browsers \ {b} : asked'[d] = asked[d]
    BY <2>3 DEF TypeOK
  <2>5. Pending(q) # None
    BY <2>1, PendingType, NoneAssumption DEF AuthorizeLoginForm
  <2> HIDE DEF p
  <2> QED  BY <2>2, <2>3, <2>4, <2>5, PageStep
<1>3. CASE \E q \in AuthorizeParams, code \in Codes : AuthorizeWithSession(b, q, code)
  <2>1. PICK q \in AuthorizeParams, code \in Codes : AuthorizeWithSession(b, q, code)  BY <1>3
  <2>2. Pending(q) \in PendingAuthorization  BY <2>1, PendingType DEF AuthorizeWithSession
  <2>3. asked'[b] # None
    BY <2>1, <2>2, NoneAssumption DEF AuthorizeWithSession, TypeOK
  <2>4. asked'[b] = Pending(q) /\ \A d \in Browsers \ {b} : asked'[d] = asked[d]
    BY <2>1 DEF AuthorizeWithSession, TypeOK
  <2>5. /\ cookie[b] \in Users
        /\ issueAuthCode(code, Pending(q), cookie[b])
        /\ page' = [page EXCEPT ![b] = CallbackPage(Pending(q), code)]
        /\ UNCHANGED cookie
    BY <2>1 DEF AuthorizeWithSession
  <2> QED  BY <2>2, <2>3, <2>4, <2>5, CallbackStep
<1>4. CASE LoginRefused(b) \/ \E form \in HandMade \cup Shown(b) : LoginWithoutRequest(b, form)
  <2>1. PICK message : page' = [page EXCEPT ![b] = loginPage(NoFields, message)]
    BY <1>4 DEF LoginRefused, LoginWithoutRequest
  <2> DEFINE p == loginPage(NoFields, message)
  <2>2. p.kind # "callback" /\ p.form = NoFields
    BY DEF loginPage
  <2>3. UNCHANGED <<asked, cookie, minted>>
    BY <1>4 DEF LoginRefused, LoginWithoutRequest, history
  <2>4. page' = [page EXCEPT ![b] = p]
    BY <2>1
  <2> HIDE DEF p
  <2>5. \A d \in Browsers \ {b} : asked'[d] = asked[d] /\ cookie'[d] = cookie[d]
    BY <2>3
  <2>6. p.kind = "login" =>
          p.form = NoFields \/ (asked'[b] # None /\ p.form = HiddenFields(asked'[b]))
    BY <2>2
  <2> QED  BY <2>2, <2>3, <2>4, <2>5, <2>6, PageStep
<1>5. CASE \E form \in HandMade \cup Shown(b), user \in Users, code \in Codes :
              LoginAccepted(b, form, user, code)
  <2>1. PICK form \in HandMade \cup Shown(b), user \in Users, code \in Codes :
             LoginAccepted(b, form, user, code)
    BY <1>5
  <2> DEFINE auth == Pending(form)
  <2>2. auth \in PendingAuthorization /\ auth.redirectUri = form.redirectUri
    BY <2>1, FormType, FormPendingType DEF LoginAccepted
  <2>3. asked'[b] # None /\ auth \in {asked'[b], HiddenFields(asked'[b])}
    <3>1. CASE form \in Shown(b)
      <4>1. page[b].kind = "login" /\ form = page[b].form
        BY <3>1 DEF Shown
      <4>2. form # NoFields
        BY <2>1 DEF LoginAccepted, NoFields
      <4>3. asked[b] # None /\ form = HiddenFields(asked[b])
        BY <4>1, <4>2 DEF BrowserInvariant, FormCarriesRequest
      <4>4. asked[b] \in PendingAuthorization
        BY <4>3 DEF TypeOK
      <4>5. auth = HiddenFields(asked[b])
        BY <4>3, <4>4, FormIsPending
      <4>6. asked'[b] = asked[b]
        BY <2>1, <3>1 DEF LoginAccepted
      <4> QED  BY <4>3, <4>5, <4>6
    <3>2. CASE form \notin Shown(b)
      <4>1. asked'[b] = auth
        BY <2>1, <3>2 DEF LoginAccepted, TypeOK
      <4> QED  BY <2>2, <4>1, NoneAssumption
    <3> QED  BY <3>1, <3>2
  <2>4. \A d \in Browsers \ {b} : asked'[d] = asked[d] /\ cookie'[d] = cookie[d]
    BY <2>1 DEF LoginAccepted, SetCookie, TypeOK
  <2>5. /\ issueAuthCode(code, auth, user)
        /\ page' = [page EXCEPT ![b] = CallbackPage(auth, code)]
    BY <2>1 DEF LoginAccepted
  <2>6. auth.redirectUri \notin Malformed => cookie'[b] = user
    BY <2>1, <2>2 DEF LoginAccepted, SetCookie, TypeOK
  <2> HIDE DEF auth
  <2> QED  BY <2>2, <2>3, <2>4, <2>5, <2>6, CallbackStep
<1>6. CASE \E clientId \in Optional(Clients), target \in Optional(Uris) :
              \/ LogoutRedirect(b, clientId, target)
              \/ LogoutWithHint(b, clientId, target)
              \/ LogoutPage(b, clientId, target)
  <2>1. PICK kind \in {"left", "home", "signed out"} :
           page' = [page EXCEPT ![b] = [kind |-> kind]]
    BY <1>6 DEF LogoutRedirect, LogoutWithHint, LogoutPage
  <2> DEFINE p == [kind |-> kind]
  <2>2. p.kind # "callback" /\ p.kind # "login"
    OBVIOUS
  <2>3. UNCHANGED <<asked, minted>>
    BY <1>6 DEF LogoutRedirect, LogoutWithHint, LogoutPage, history
  <2>4. \A d \in Browsers \ {b} : cookie'[d] = cookie[d]
    BY <1>6 DEF LogoutRedirect, LogoutWithHint, LogoutPage, TypeOK
  <2>6. page' = [page EXCEPT ![b] = p]
    BY <2>1
  <2> HIDE DEF p
  <2> QED  BY <2>2, <2>3, <2>4, <2>6, PageStep
<1> QED  BY <1>1, <1>2, <1>3, <1>4, <1>5, <1>6

(* Client connections, signatures, the clock and a restart touch nothing   *)
(* of a browser, and no code that it was given.                            *)
LEMMA BrowsersLeftAlone ==
    ASSUME Next, ~BrowserNext
    PROVE  UNCHANGED <<page, asked, cookie, minted>>
<1>1. CASE ClientNext
  <2>1. PICK c \in Conns :
           \/ UnsupportedGrant(c)
           \/ \E code \in Codes, uri \in Optional(Uris),
                 clientId \in Optional(Clients), verifier \in Optional(Verifiers) :
                 \/ CodeRefused(c, code, uri, clientId, verifier)
                 \/ CodeRedeemed(c, code, uri, clientId, verifier)
           \/ \E h \in Handles : RefreshRefused(c, h) \/ RefreshRedeemed(c, h)
           \/ \E r \in responses, life \in {IdLife, AccessLife} :
                 UserinfoAnswered(c, r, life)
           \/ UserinfoRefused(c)
    BY <1>1 DEF ClientNext
  <2>2. CASE \E code \in Codes, uri \in Optional(Uris),
                clientId \in Optional(Clients), verifier \in Optional(Verifiers) :
                CodeRefused(c, code, uri, clientId, verifier)
                \/ CodeRedeemed(c, code, uri, clientId, verifier)
    BY <2>2 DEF CodeRefused, CodeRedeemed, browser, history
  <2>3. CASE \E h \in Handles : RefreshRefused(c, h) \/ RefreshRedeemed(c, h)
    BY <2>3 DEF RefreshRefused, RefreshRedeemed, browser, history
  <2>4. CASE \E r \in responses, life \in {IdLife, AccessLife} : UserinfoAnswered(c, r, life)
    BY <2>4 DEF UserinfoAnswered, browser, history
  <2>5. CASE UnsupportedGrant(c) \/ UserinfoRefused(c)
    BY <2>5 DEF UnsupportedGrant, UserinfoRefused, browser, history
  <2> QED
    BY <2>1, <2>2, <2>3, <2>4, <2>5
<1>2. CASE \E c \in Conns : SigningStep(c)
  BY <1>2 DEF SigningStep, IdTokenSigned, CodeGrantAnswered, RefreshGrantAnswered,
              SigningFails, browser, history
<1>3. CASE Tick \/ Restart
  BY <1>3 DEF Tick, Restart, browser, history
<1> QED  BY <1>1, <1>2, <1>3 DEF Next

LEMMA BrowserInvariantStep == TypeOK /\ BrowserInvariant /\ [Next]_vars => BrowserInvariant'
<1> SUFFICES ASSUME TypeOK, BrowserInvariant, [Next]_vars PROVE BrowserInvariant'
  OBVIOUS
<1>1. CASE BrowserNext  BY <1>1, BrowserSteps
<1>2. CASE UNCHANGED <<page, asked, cookie, minted>>
  BY <1>2 DEF BrowserInvariant, FormCarriesRequest, CallbackAnswersRequest
<1> QED  BY <1>1, <1>2, BrowsersLeftAlone DEF vars, browser, history

LEMMA BrowserInvariantInit == Init => BrowserInvariant
  BY DEF Init, Blank, BrowserInvariant, FormCarriesRequest, CallbackAnswersRequest

(* What a form carries is what its browser last asked for, as rewritten,   *)
(* in every reachable state.                                               *)
THEOREM BrowserInvariantHolds == Spec => []BrowserInvariant
<1>1. Init => TypeOK /\ BrowserInvariant
  BY InitType, BrowserInvariantInit
<1>2. TypeOK /\ BrowserInvariant /\ [Next]_vars => (TypeOK /\ BrowserInvariant)'
  BY NextType, BrowserInvariantStep
<1> QED  BY <1>1, <1>2, PTL DEF Spec

(* A browser arrives at the callback with a code for its own last request, *)
(* changed by nothing but the form's String.replace, and for the user that *)
(* its cookie names: by form, by hand or by session, with any number of    *)
(* browsers, forms and logouts in between, whatever texts are rewritten    *)
(* (server.ts:344-349, 367, 384-404).                                      *)
THEOREM CallbacksAnswerRequests == Spec => []CallbackAnswersRequest
<1>1. BrowserInvariant => CallbackAnswersRequest  BY DEF BrowserInvariant
<1> QED  BY <1>1, BrowserInvariantHolds, PTL

(* The steps that change a cookie to anything but nothing.                 *)
LEMMA SessionStep ==
    ASSUME TypeOK, [Next]_vars, NEW d \in Browsers, cookie'[d] \notin {cookie[d], Absent}
    PROVE  /\ page'[d].kind = "callback"
           /\ minted[page'[d].code] = None
           /\ minted'[page'[d].code].user = cookie'[d]
<1>1. BrowserNext
  <2>1. cookie' # cookie
    OBVIOUS
  <2> QED  BY <2>1, BrowsersLeftAlone DEF vars, browser
<1>2. PICK b \in Browsers :
         \/ \E q \in AuthorizeParams :
               \/ AuthorizeRefused(b, q)
               \/ AuthorizeLoginForm(b, q)
               \/ \E code \in Codes : AuthorizeWithSession(b, q, code)
         \/ LoginRefused(b)
         \/ \E form \in HandMade \cup Shown(b) :
               \/ LoginWithoutRequest(b, form)
               \/ \E user \in Users, code \in Codes : LoginAccepted(b, form, user, code)
         \/ \E clientId \in Optional(Clients), target \in Optional(Uris) :
               \/ LogoutRedirect(b, clientId, target)
               \/ LogoutWithHint(b, clientId, target)
               \/ LogoutPage(b, clientId, target)
  BY <1>1 DEF BrowserNext
<1>3. CASE UNCHANGED cookie
  BY <1>3
<1>4. CASE \/ \E q \in AuthorizeParams :
                 \/ AuthorizeRefused(b, q)
                 \/ AuthorizeLoginForm(b, q)
                 \/ \E code \in Codes : AuthorizeWithSession(b, q, code)
           \/ LoginRefused(b)
           \/ \E form \in HandMade \cup Shown(b) : LoginWithoutRequest(b, form)
  BY <1>3, <1>4 DEF AuthorizeRefused, AuthorizeLoginForm, AuthorizeWithSession,
                    LoginRefused, LoginWithoutRequest
<1>5. CASE \E clientId \in Optional(Clients), target \in Optional(Uris) :
              \/ LogoutRedirect(b, clientId, target)
              \/ LogoutWithHint(b, clientId, target)
              \/ LogoutPage(b, clientId, target)
  BY <1>5 DEF LogoutRedirect, LogoutWithHint, LogoutPage, TypeOK
<1>6. CASE \E form \in HandMade \cup Shown(b), user \in Users, code \in Codes :
              LoginAccepted(b, form, user, code)
  <2>1. PICK form \in HandMade \cup Shown(b), user \in Users, code \in Codes :
             LoginAccepted(b, form, user, code)
    BY <1>6
  <2>2. form.redirectUri \notin Malformed /\ d = b /\ cookie'[d] = user
    BY <2>1 DEF LoginAccepted, SetCookie, TypeOK
  <2>3. Pending(form).redirectUri = form.redirectUri
    BY DEF Pending
  <2>4. page'[d].kind = "callback" /\ page'[d].code = code
    BY <2>1, <2>2, <2>3 DEF LoginAccepted, CallbackPage, TypeOK
  <2>5. minted[code] = None /\ minted'[code].user = user
    BY <2>1 DEF LoginAccepted, issueAuthCode, TypeOK
  <2> QED  BY <2>2, <2>4, <2>5
<1> QED  BY <1>2, <1>4, <1>5, <1>6

(* No step signs a browser in without handing it a new code of the same    *)
(* user in the same answer, whatever forms are posted and however many     *)
(* redirects cannot be built (server.ts:397-404).                          *)
THEOREM SessionsComeWithCodes == Spec => SessionComesWithCode
<1>1. TypeOK /\ [Next]_vars =>
        \A b \in Browsers : cookie'[b] \notin {cookie[b], Absent} =>
          /\ page'[b].kind = "callback"
          /\ minted[page'[b].code] = None
          /\ minted'[page'[b].code].user = cookie'[b]
  BY SessionStep
<1> QED  BY <1>1, TypeCorrect, PTL DEF Spec, SessionComesWithCode

-----------------------------------------------------------------------------
(* Refresh tokens.  RefreshIsTheSignIn speaks of answers only.  It takes   *)
(* that what is in flight is already right, that the map holds what was    *)
(* drawn, and that nothing is drawn except beside a code grant's answer.   *)

(* An answered code grant delivered h, and k is for the same sign-in.      *)
Traced(h, k) ==
    \E g \in responses :
        /\ g.grant = "authorization_code"
        /\ g.refreshToken = h
        /\ <<g.user, g.clientId, g.scope>> = <<k.user, k.clientId, k.scope>>

(* r, in flight or answered, is a rightful use of its refresh token.       *)
Refreshes(r) ==
    /\ r.source \in Handles
    /\ drawn[r.source] # None
    /\ r.nonce = Absent
    /\ r.iat <= drawn[r.source].expiresAt
    /\ Traced(r.source, r)

Refreshing(c) == ~Free(c) /\ conns[c].grant = "refresh_token"

RefreshInvariant ==
    /\ \A h \in Handles : refreshTokens[h] # None => refreshTokens[h] = drawn[h]
    /\ \A h \in Handles : drawn[h] # None => Traced(h, drawn[h])
    /\ \A c \in Conns : Refreshing(c) => Refreshes(conns[c])
    /\ \A r \in responses : r.grant = "refresh_token" => Refreshes(r)

(* What was drawn and answered stays so, and with it what rests on it.     *)
LEMMA StillRefreshes ==
    ASSUME \A h \in Handles : drawn[h] # None => drawn'[h] = drawn[h],
           responses \subseteq responses',
           NEW r, Refreshes(r)
    PROVE  Refreshes(r)'
  BY DEF Refreshes, Traced

(* A step that draws nothing: tokens may be forgotten and requests may     *)
(* end, and those that are new are rightful.                               *)
LEMMA NothingDrawn ==
    ASSUME RefreshInvariant, UNCHANGED drawn,
           \A h \in Handles : refreshTokens'[h] \in {refreshTokens[h], None},
           responses \subseteq responses',
           \A r \in responses' \ responses : r.grant = "refresh_token" => Refreshes(r),
           \A c \in Conns : Refreshing(c)' => Refreshes(conns'[c])
    PROVE  RefreshInvariant'
<1>1. \A h \in Handles : refreshTokens'[h] # None => refreshTokens'[h] = drawn'[h]
  BY DEF RefreshInvariant
<1>2. ASSUME NEW h \in Handles, drawn'[h] # None
      PROVE  Traced(h, drawn[h])'
  BY <1>2 DEF RefreshInvariant, Traced
<1>3. ASSUME NEW c \in Conns, Refreshing(c)'
      PROVE  Refreshes(conns[c])'
  <2>1. PICK k : k = conns'[c]  OBVIOUS
  <2>2. Refreshes(k)  BY <1>3, <2>1
  <2>3. Refreshes(k)'  BY <2>2, StillRefreshes
  <2> QED  BY <2>1, <2>3 DEF Refreshes, Traced
<1>4. ASSUME NEW r \in responses', r.grant = "refresh_token"
      PROVE  Refreshes(r)'
  <2>1. Refreshes(r)  BY <1>4 DEF RefreshInvariant
  <2> QED  BY <2>1, StillRefreshes
<1> QED  BY <1>1, <1>2, <1>3, <1>4 DEF RefreshInvariant

(* Connection c moves to k, and that is all.                               *)
LEMMA ConnectionMoves ==
    ASSUME TypeOK, RefreshInvariant, NEW c \in Conns, NEW k,
           conns' = [conns EXCEPT ![c] = k],
           (k.phase \in {"sign id", "sign access"} /\ k.grant = "refresh_token")
              => Refreshes(k),
           UNCHANGED <<refreshTokens, drawn, responses>>
    PROVE  RefreshInvariant'
<1>1. conns'[c] = k /\ \A d \in Conns \ {c} : conns'[d] = conns[d]
  BY DEF TypeOK
<1>2. ASSUME NEW d \in Conns, Refreshing(d)'
      PROVE  Refreshes(conns'[d])
  <2>1. CASE d = c
    BY <1>1, <1>2, <2>1 DEF Refreshing, Free
  <2>2. CASE d # c
    BY <1>1, <1>2, <2>2 DEF RefreshInvariant, Refreshing, Free
  <2> QED  BY <2>1, <2>2
<1> QED  BY <1>2, NothingDrawn

LEMMA ClientRefreshes == TypeOK /\ RefreshInvariant /\ ClientNext => RefreshInvariant'
<1> SUFFICES ASSUME TypeOK, RefreshInvariant, NEW c \in Conns,
                    \/ UnsupportedGrant(c)
                    \/ \E code \in Codes, uri \in Optional(Uris),
                          clientId \in Optional(Clients), verifier \in Optional(Verifiers) :
                          \/ CodeRefused(c, code, uri, clientId, verifier)
                          \/ CodeRedeemed(c, code, uri, clientId, verifier)
                    \/ \E h \in Handles : RefreshRefused(c, h) \/ RefreshRedeemed(c, h)
                    \/ \E r \in responses, life \in {IdLife, AccessLife} :
                          UserinfoAnswered(c, r, life)
                    \/ UserinfoRefused(c)
             PROVE  RefreshInvariant'
  BY DEF ClientNext
<1>1. CASE \/ UnsupportedGrant(c)
           \/ \E code \in Codes, uri \in Optional(Uris),
                 clientId \in Optional(Clients), verifier \in Optional(Verifiers) :
                 CodeRefused(c, code, uri, clientId, verifier)
           \/ \E h \in Handles : RefreshRefused(c, h)
           \/ UserinfoRefused(c)
  <2>1. Answer(c, 400) \/ Answer(c, 401)
    BY <1>1 DEF UnsupportedGrant, CodeRefused, RefreshRefused, UserinfoRefused
  <2>2. UNCHANGED <<refreshTokens, drawn, responses>>
    BY <1>1 DEF UnsupportedGrant, CodeRefused, RefreshRefused, UserinfoRefused,
                server, history
  <2>3. CASE Answer(c, 400)  BY <2>2, <2>3, ConnectionMoves DEF Answer
  <2>4. CASE Answer(c, 401)  BY <2>2, <2>4, ConnectionMoves DEF Answer
  <2> QED  BY <2>1, <2>3, <2>4
<1>2. CASE \E code \in Codes, uri \in Optional(Uris),
              clientId \in Optional(Clients), verifier \in Optional(Verifiers) :
              CodeRedeemed(c, code, uri, clientId, verifier)
  <2>1. PICK code \in Codes, uri \in Optional(Uris),
             clientId \in Optional(Clients), verifier \in Optional(Verifiers) :
             CodeRedeemed(c, code, uri, clientId, verifier)
    BY <1>2
  <2> DEFINE k ==
           [phase |-> "sign id", grant |-> "authorization_code", source |-> code,
            user |-> authCodes[code].user, clientId |-> authCodes[code].auth.clientId,
            scope |-> authCodes[code].auth.scope,
            nonce |-> authCodes[code].auth.nonce, iat |-> now]
  <2>2. conns' = [conns EXCEPT ![c] = k] /\ k.grant = "authorization_code"
    BY <2>1 DEF CodeRedeemed
  <2>3. UNCHANGED <<refreshTokens, drawn, responses>>
    BY <2>1 DEF CodeRedeemed, history
  <2> HIDE DEF k
  <2> QED  BY <2>2, <2>3, ConnectionMoves
<1>3. CASE \E h \in Handles : RefreshRedeemed(c, h)
  <2>1. PICK h \in Handles : RefreshRedeemed(c, h)  BY <1>3
  <2> DEFINE k ==
           [phase |-> "sign id", grant |-> "refresh_token", source |-> h,
            user |-> refreshTokens[h].user, clientId |-> refreshTokens[h].clientId,
            scope |-> refreshTokens[h].scope, nonce |-> Absent, iat |-> now]
  <2>2. conns' = [conns EXCEPT ![c] = k]
    BY <2>1 DEF RefreshRedeemed
  <2>3. UNCHANGED <<refreshTokens, drawn, responses>>
    BY <2>1 DEF RefreshRedeemed, server, history
  <2>4. refreshTokens[h] # None /\ refreshTokens[h] = drawn[h]
    BY <2>1 DEF RefreshRedeemed, RefreshAcceptable, RefreshInvariant
  <2>5. Traced(h, drawn[h])
    BY <2>4 DEF RefreshInvariant
  <2>6. now <= drawn[h].expiresAt
    <3>1. drawn[h].expiresAt \in Nat /\ now \in Nat
      BY <2>4 DEF TypeOK, RefreshTokenRecord
    <3>2. ~(drawn[h].expiresAt < now)
      BY <2>1, <2>4 DEF RefreshRedeemed, RefreshAcceptable
    <3> QED  BY <3>1, <3>2
  <2>7. Traced(h, k)
    BY <2>4, <2>5 DEF Traced
  <2>8. k.source = h /\ k.nonce = Absent /\ k.iat = now
    OBVIOUS
  <2> HIDE DEF k
  <2>9. Refreshes(k)
    BY <2>4, <2>6, <2>7, <2>8 DEF Refreshes
  <2> QED  BY <2>2, <2>3, <2>9, ConnectionMoves
<1>4. CASE \E r \in responses, life \in {IdLife, AccessLife} : UserinfoAnswered(c, r, life)
  <2>1. PICK r \in responses, life \in {IdLife, AccessLife} : UserinfoAnswered(c, r, life)
    BY <1>4
  <2> DEFINE k == [phase |-> "identity", bearer |-> r.user,
                   sub |-> IF SubClaim[r.user] = Absent THEN r.user ELSE SubClaim[r.user]]
  <2>2. conns' = [conns EXCEPT ![c] = k] /\ k.phase = "identity"
    BY <2>1 DEF UserinfoAnswered
  <2>3. UNCHANGED <<refreshTokens, drawn, responses>>
    BY <2>1 DEF UserinfoAnswered, server, history
  <2> HIDE DEF k
  <2> QED  BY <2>2, <2>3, ConnectionMoves
<1> QED  BY <1>1, <1>2, <1>3, <1>4

(* The one step that draws: the answer of a code grant, which delivers it. *)
LEMMA Drawing ==
    ASSUME TypeOK, RefreshInvariant, NEW c \in Conns, NEW h \in Handles,
           CodeGrantAnswered(c, h)
    PROVE  RefreshInvariant'
<1> DEFINE g == Response(c, h)
<1>1. /\ drawn[h] = None
      /\ responses' = responses \cup {g}
      /\ g.grant = "authorization_code" /\ g.refreshToken = h
  BY DEF CodeGrantAnswered, Response
<1>2. /\ drawn'[h] = refreshTokens'[h]
      /\ drawn'[h].user = g.user
      /\ drawn'[h].clientId = g.clientId
      /\ drawn'[h].scope = g.scope
  BY DEF CodeGrantAnswered, Response, RefreshTokenOf, TypeOK
<1>3. \A o \in Handles \ {h} : drawn'[o] = drawn[o] /\ refreshTokens'[o] = refreshTokens[o]
  BY DEF CodeGrantAnswered, TypeOK
<1>4. conns'[c].phase = "answered" /\ \A d \in Conns \ {c} : conns'[d] = conns[d]
  BY DEF CodeGrantAnswered, Answer, TypeOK
<1> HIDE DEF g
<1>5. \A o \in Handles : drawn[o] # None => drawn'[o] = drawn[o]
  BY <1>1, <1>3
<1>6. \A o \in Handles : refreshTokens'[o] # None => refreshTokens'[o] = drawn'[o]
  BY <1>2, <1>3 DEF RefreshInvariant
<1>7. ASSUME NEW o \in Handles, drawn'[o] # None
      PROVE  Traced(o, drawn[o])'
  <2>1. CASE o = h
    BY <1>1, <1>2, <2>1 DEF Traced
  <2>2. CASE o # h
    BY <1>1, <1>3, <1>7, <2>2 DEF RefreshInvariant, Traced
  <2> QED  BY <2>1, <2>2
<1>8. ASSUME NEW d \in Conns, Refreshing(d)'
      PROVE  Refreshes(conns[d])'
  <2>1. d # c
    BY <1>4, <1>8 DEF Refreshing, Free
  <2>2. PICK k : k = conns[d] /\ k = conns'[d]
    BY <1>4, <2>1
  <2>3. Refreshes(k)
    BY <1>8, <2>2 DEF RefreshInvariant, Refreshing, Free
  <2>4. Refreshes(k)'
    BY <1>1, <1>5, <2>3, StillRefreshes
  <2> QED  BY <2>2, <2>4 DEF Refreshes, Traced
<1>9. ASSUME NEW r \in responses', r.grant = "refresh_token"
      PROVE  Refreshes(r)'
  <2>1. r \in responses
    BY <1>1, <1>9
  <2>2. Refreshes(r)
    BY <1>9, <2>1 DEF RefreshInvariant
  <2> QED  BY <1>1, <1>5, <2>2, StillRefreshes
<1> QED  BY <1>6, <1>7, <1>8, <1>9 DEF RefreshInvariant

LEMMA SigningRefreshes ==
    ASSUME TypeOK, RefreshInvariant, NEW c \in Conns, SigningStep(c)
    PROVE  RefreshInvariant'
<1>1. CASE IdTokenSigned(c)
  <2> DEFINE k == [conns[c] EXCEPT !.phase = "sign access"]
  <2>1. conns[c] \in Signing /\ ~Free(c)
    BY <1>1, InFlight DEF IdTokenSigned, Free
  <2>2. conns' = [conns EXCEPT ![c] = k] /\ UNCHANGED <<refreshTokens, drawn, responses>>
    BY <1>1 DEF IdTokenSigned, server, history
  <2>3. /\ k.grant = conns[c].grant
        /\ k.source = conns[c].source
        /\ k.user = conns[c].user
        /\ k.clientId = conns[c].clientId
        /\ k.scope = conns[c].scope
        /\ k.nonce = conns[c].nonce
        /\ k.iat = conns[c].iat
    BY <2>1 DEF Signing
  <2> HIDE DEF k
  <2>4. ASSUME k.grant = "refresh_token"
        PROVE  Refreshes(k)
    <3>1. Refreshes(conns[c])
      BY <2>1, <2>3, <2>4 DEF RefreshInvariant, Refreshing
    <3>2. Traced(k.source, k)
      BY <2>3, <3>1 DEF Refreshes, Traced
    <3> QED
      BY <2>3, <3>1, <3>2 DEF Refreshes
  <2> QED  BY <2>2, <2>4, ConnectionMoves
<1>2. CASE \E h \in Handles : CodeGrantAnswered(c, h)
  BY <1>2, Drawing
<1>3. CASE RefreshGrantAnswered(c)
  <2> DEFINE r == Response(c, Absent)
  <2>1. Refreshing(c)
    BY <1>3 DEF RefreshGrantAnswered, Refreshing, Free
  <2>2. /\ r.source = conns[c].source
        /\ r.user = conns[c].user
        /\ r.clientId = conns[c].clientId
        /\ r.scope = conns[c].scope
        /\ r.nonce = conns[c].nonce
        /\ r.iat = conns[c].iat
    BY DEF Response
  <2>3. /\ responses' = responses \cup {r}
        /\ UNCHANGED <<refreshTokens, drawn>>
    BY <1>3 DEF RefreshGrantAnswered, server
  <2>4. conns'[c].phase = "answered" /\ \A d \in Conns \ {c} : conns'[d] = conns[d]
    BY <1>3 DEF RefreshGrantAnswered, Answer, TypeOK
  <2> HIDE DEF r
  <2>5. Refreshes(r)
    BY <2>1, <2>2 DEF RefreshInvariant, Refreshes, Traced
  <2>6. ASSUME NEW d \in Conns, Refreshing(d)'
        PROVE  Refreshes(conns'[d])
    BY <2>4, <2>6 DEF RefreshInvariant, Refreshing, Free
  <2> QED  BY <2>3, <2>5, <2>6, NothingDrawn
<1>4. CASE SigningFails(c)
  <2>1. UNCHANGED <<refreshTokens, drawn, responses>> /\ Answer(c, 500)
    BY <1>4 DEF SigningFails, server, history
  <2> QED  BY <2>1, ConnectionMoves DEF Answer
<1> QED  BY <1>1, <1>2, <1>3, <1>4 DEF SigningStep

LEMMA RefreshInvariantStep == TypeOK /\ RefreshInvariant /\ [Next]_vars => RefreshInvariant'
<1> SUFFICES ASSUME TypeOK, RefreshInvariant, [Next]_vars PROVE RefreshInvariant'
  OBVIOUS
<1>1. CASE UNCHANGED <<refreshTokens, drawn, responses, conns>>
  BY <1>1 DEF RefreshInvariant, Refreshing, Free, Refreshes, Traced
<1>2. CASE BrowserNext
  <2>1. UNCHANGED <<refreshTokens, drawn, responses, conns>>
    BY <1>2 DEF BrowserNext, AuthorizeRefused, AuthorizeLoginForm, AuthorizeWithSession,
                LoginRefused, LoginWithoutRequest, LoginAccepted,
                LogoutRedirect, LogoutWithHint, LogoutPage, server, history
  <2> QED  BY <1>1, <2>1
<1>3. CASE ClientNext  BY <1>3, ClientRefreshes
<1>4. CASE \E c \in Conns : SigningStep(c)  BY <1>4, SigningRefreshes
<1>5. CASE Tick \/ UNCHANGED vars
  BY <1>1, <1>5 DEF Tick, vars, server, history
<1>6. CASE Restart
  <2>1. \A h \in Handles : refreshTokens'[h] = None  BY <1>6 DEF Restart
  <2>2. \A c \in Conns : ~Refreshing(c)'
    BY <1>6 DEF Restart, Refreshing, Free, Idle
  <2>3. UNCHANGED <<drawn, responses>>  BY <1>6 DEF Restart, history
  <2> QED  BY <2>1, <2>2, <2>3, NothingDrawn
<1> QED  BY <1>2, <1>3, <1>4, <1>5, <1>6 DEF Next

LEMMA RefreshInvariantInit == Init => RefreshInvariant
<1> SUFFICES ASSUME Init PROVE RefreshInvariant
  OBVIOUS
<1>1. \A c \in Conns : ~Refreshing(c)
  BY DEF Init, Refreshing, Free, Idle
<1>2. \A h \in Handles : refreshTokens[h] = None /\ drawn[h] = None
  BY DEF Init
<1>3. responses = {}
  BY DEF Init
<1> QED
  BY <1>1, <1>2, <1>3 DEF RefreshInvariant

(* Whatever is stored, in flight or answered about a refresh token is as   *)
(* it was drawn, in every reachable state.                                 *)
THEOREM RefreshInvariantHolds == Spec => []RefreshInvariant
<1>1. Init => TypeOK /\ RefreshInvariant
  BY InitType, RefreshInvariantInit
<1>2. TypeOK /\ RefreshInvariant /\ [Next]_vars => (TypeOK /\ RefreshInvariant)'
  BY NextType, RefreshInvariantStep
<1> QED  BY <1>1, <1>2, PTL DEF Spec

(* Refreshed tokens are for the user, client and scope of one answered     *)
(* code grant, carry no nonce and were asked for in time, however refresh  *)
(* and code grants, their awaits and restarts interleave                   *)
(* (server.ts:463-473).                                                    *)
THEOREM RefreshesAreFaithful == Spec => []RefreshIsTheSignIn
<1>1. RefreshInvariant => RefreshIsTheSignIn
  BY DEF RefreshInvariant, RefreshIsTheSignIn, Refreshes, Traced
<1> QED  BY <1>1, RefreshInvariantHolds, PTL

-----------------------------------------------------------------------------
(* Refusals.                                                               *)

(* The steps of one connection that write a map.                           *)
Writes(c) ==
    \/ \E code \in Codes, uri \in Optional(Uris),
          clientId \in Optional(Clients), verifier \in Optional(Verifiers) :
          CodeRedeemed(c, code, uri, clientId, verifier)
    \/ \E h \in Handles : CodeGrantAnswered(c, h)

(* They answer 200 or go on to a signature.                                *)
LEMMA WritersDoNotRefuse ==
    ASSUME TypeOK, NEW c \in Conns,
           Writes(c)
    PROVE  \A d \in Conns :
              conns'[d] # conns[d] =>
                 \/ conns'[d].phase = "sign id"
                 \/ conns'[d].phase = "answered" /\ conns'[d].status = 200
<1>1. CASE \E code \in Codes, uri \in Optional(Uris),
              clientId \in Optional(Clients), verifier \in Optional(Verifiers) :
              CodeRedeemed(c, code, uri, clientId, verifier)
  <2>1. PICK code \in Codes, uri \in Optional(Uris),
             clientId \in Optional(Clients), verifier \in Optional(Verifiers) :
             CodeRedeemed(c, code, uri, clientId, verifier)
    BY <1>1
  <2> DEFINE k ==
           [phase |-> "sign id", grant |-> "authorization_code", source |-> code,
            user |-> authCodes[code].user, clientId |-> authCodes[code].auth.clientId,
            scope |-> authCodes[code].auth.scope,
            nonce |-> authCodes[code].auth.nonce, iat |-> now]
  <2>2. conns' = [conns EXCEPT ![c] = k] /\ k.phase = "sign id"
    BY <2>1 DEF CodeRedeemed
  <2> HIDE DEF k
  <2> QED  BY <2>2 DEF TypeOK
<1>2. CASE \E h \in Handles : CodeGrantAnswered(c, h)
  <2>1. conns' = [conns EXCEPT ![c] = [phase |-> "answered", status |-> 200]]
    BY <1>2 DEF CodeGrantAnswered, Answer
  <2> QED  BY <2>1 DEF TypeOK
<1> QED  BY <1>1, <1>2 DEF Writes

(* What the other steps do to the maps: nothing, unless no connection      *)
(* moves with them or every connection is cut.                             *)
LEMMA OthersWriteNothing ==
    ASSUME Next, ~UNCHANGED server
    PROVE  \/ UNCHANGED conns
           \/ conns' = [c \in Conns |-> Idle]
           \/ \E c \in Conns : Writes(c)
<1>1. CASE BrowserNext
  BY <1>1 DEF BrowserNext, AuthorizeRefused, AuthorizeLoginForm, AuthorizeWithSession,
              LoginRefused, LoginWithoutRequest, LoginAccepted,
              LogoutRedirect, LogoutWithHint, LogoutPage
<1>2. CASE ClientNext
  <2>1. PICK c \in Conns :
           \/ UnsupportedGrant(c)
           \/ \E code \in Codes, uri \in Optional(Uris),
                 clientId \in Optional(Clients), verifier \in Optional(Verifiers) :
                 \/ CodeRefused(c, code, uri, clientId, verifier)
                 \/ CodeRedeemed(c, code, uri, clientId, verifier)
           \/ \E h \in Handles : RefreshRefused(c, h) \/ RefreshRedeemed(c, h)
           \/ \E r \in responses, life \in {IdLife, AccessLife} :
                 UserinfoAnswered(c, r, life)
           \/ UserinfoRefused(c)
    BY <1>2 DEF ClientNext
  <2>2. CASE UnsupportedGrant(c) \/ UserinfoRefused(c)
    BY <2>2 DEF UnsupportedGrant, UserinfoRefused
  <2>3. CASE \E h \in Handles : RefreshRefused(c, h) \/ RefreshRedeemed(c, h)
    BY <2>3 DEF RefreshRefused, RefreshRedeemed
  <2>4. CASE \E r \in responses, life \in {IdLife, AccessLife} : UserinfoAnswered(c, r, life)
    BY <2>4 DEF UserinfoAnswered
  <2>5. CASE \E code \in Codes, uri \in Optional(Uris),
                clientId \in Optional(Clients), verifier \in Optional(Verifiers) :
                CodeRefused(c, code, uri, clientId, verifier)
    BY <2>5 DEF CodeRefused
  <2> QED  BY <2>1, <2>2, <2>3, <2>4, <2>5 DEF Writes
<1>3. CASE \E c \in Conns : SigningStep(c)
  BY <1>3 DEF SigningStep, IdTokenSigned, RefreshGrantAnswered, SigningFails, Writes
<1>4. CASE Tick \/ Restart
  BY <1>4 DEF Tick, Restart
<1> QED  BY <1>1, <1>2, <1>3, <1>4 DEF Next

(* No step that answers 400 or 401 writes to the maps of codes and refresh *)
(* tokens, whatever else is in flight: a mistyped verifier, a wrong        *)
(* callback or a stale token costs its client nothing (server.ts:414-442). *)
THEOREM RefusalsSpendNothing == Spec => RefusalSpendsNothing
<1>1. ASSUME TypeOK, [Next]_vars, NEW c \in Conns, conns'[c] # conns[c],
             conns'[c].phase = "answered", conns'[c].status \in {400, 401}
      PROVE  UNCHANGED server
  <2> SUFFICES ASSUME ~UNCHANGED server PROVE FALSE
    OBVIOUS
  <2>1. CASE UNCHANGED vars  BY <2>1 DEF vars
  <2>2. CASE UNCHANGED conns  BY <1>1, <2>2
  <2>3. CASE conns' = [d \in Conns |-> Idle]
    BY <1>1, <2>3 DEF Idle
  <2>4. CASE \E d \in Conns : Writes(d)
    <3>1. \/ conns'[c].phase = "sign id"
          \/ conns'[c].phase = "answered" /\ conns'[c].status = 200
      <4>1. PICK d \in Conns : Writes(d)
        BY <2>4
      <4>2. TypeOK /\ conns'[c] # conns[c]
        BY <1>1
      <4>3. \A e \in Conns :
              conns'[e] # conns[e] =>
                 \/ conns'[e].phase = "sign id"
                 \/ conns'[e].phase = "answered" /\ conns'[e].status = 200
        BY <4>1, <4>2, WritersDoNotRefuse
      <4> QED  BY <4>2, <4>3
    <3> QED  BY <1>1, <3>1
  <2> QED  BY <1>1, <2>1, <2>2, <2>3, <2>4, OthersWriteNothing
<1>2. TypeOK /\ [Next]_vars =>
        \A c \in Conns :
           (conns'[c] # conns[c] /\ conns'[c].phase = "answered"
              /\ conns'[c].status \in {400, 401})
           => UNCHANGED server
  BY <1>1
<1> QED  BY <1>2, TypeCorrect, PTL DEF Spec, RefusalSpendsNothing
=============================================================================
