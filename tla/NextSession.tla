----------------------------- MODULE NextSession ----------------------------
(***************************************************************************)
(* The sign-in of examples/nextjs: several tabs of one browser share its   *)
(* cookies and go through the routes signin, callback and signout and      *)
(* through the provider's pages (packages/local-auth/src/server.ts).       *)
(*                                                                         *)
(* A request carries the cookies of the moment it is sent; Set-Cookie acts *)
(* when the response arrives; between the two other tabs go on.  A step of *)
(* a tab is therefore a stretch from one such moment to the next.  The     *)
(* state and the PKCE verifier are drawn together and form a flow.         *)
(***************************************************************************)
EXTENDS Naturals

CONSTANTS
    Tabs, Users,
    Flows,          \* the pairs of state and verifier to draw from
    MaxRestarts,    \* bound on restarts of the provider
    None

ASSUME SessionAssumption == None \notin Users \cup Flows /\ MaxRestarts \in Nat

VARIABLES
    pkce,           \* the cookie ck_pkce: a flow or None
    session,        \* whom the cookie ck_session identifies, None if nobody:
                    \* absent, expired and unverifiable read the same
    local,          \* the provider's cookie ck_local_session
    tab,            \* what each tab shows or waits for
    provider,       \* what the provider's configuration says of this app
    restarts,       \* how often the provider was restarted
    quiet           \* history: the tab that began the last sign-in or sign-out,
                    \* if no other tab moved since

cookies == <<pkce, session, local>>
vars == <<pkce, session, local, tab, provider, restarts, quiet>>

(* Whether the app is one of the clients, or one with another callback     *)
(* URL, and whether the provider may redirect to the app after a logout:   *)
(* to an unknown client's page it always may.                              *)
Provider ==
    {p \in [client : {"known", "unknown", "other callback"}, logout : BOOLEAN] :
        p.client = "unknown" => p.logout}

(* code: whether the provider would still redeem it.                       *)
Tab ==
    [at : {"page", "signin", "refused", "signout", "signed out", "told signed out"}]
    \cup [at : {"authorize", "callback error"}, flow : Flows]
    \cup [at : {"login"}, flow : Flows \cup {None}]
    \cup [at : {"callback", "error"}, flow : Flows, user : Users, code : {"live", "gone"}]
    \cup [at : {"exchange"}, flow : Flows, user : Users, code : {"live", "gone"}, verifier : Flows]
    \cup [at : {"answered"}, user : Users]

Init ==
    /\ pkce = None /\ session = None
    /\ local \in Users \cup {None}
    /\ tab = [t \in Tabs |-> [at |-> "page"]]
    /\ provider \in Provider /\ restarts = 0 /\ quiet = {}

(* Nothing happens in a tab at rest until its user acts.                   *)
AtRest(t) == tab[t].at \in {"page", "login", "error", "signed out", "told signed out"}

Goes(t, to) ==
    /\ tab' = [tab EXCEPT ![t] = to]
    /\ quiet' = quiet \cap {t}

-----------------------------------------------------------------------------
(* GET /auth/signin                                                        *)

(* Any address of the app may be opened.                                   *)
Open(t) ==
    /\ tab[t].at \in {"login", "error", "signed out", "told signed out"}
    /\ Goes(t, [at |-> "page"])
    /\ UNCHANGED <<cookies, provider, restarts>>

(* The link, or the protected page when nobody is signed in.               *)
ToSignIn(t) ==
    /\ tab[t].at = "page"
    /\ Goes(t, [at |-> "signin"])
    /\ UNCHANGED <<cookies, provider, restarts>>

InUse == {pkce} \cup {tab[t].flow : t \in {s \in Tabs : "flow" \in DOMAIN tab[s]}}

(* The drawn texts are new: no cookie and no request holds them.           *)
SignIn(t, flow) ==
    /\ tab[t].at = "signin"
    /\ flow \notin InUse
    /\ pkce' = flow
    /\ tab' = [tab EXCEPT ![t] = [at |-> "authorize", flow |-> flow]]
    /\ quiet' = {t}
    /\ UNCHANGED <<session, local, provider, restarts>>

-----------------------------------------------------------------------------
(* The provider: /authorize and /login.                                    *)

(* Mutant: the state is not handed on.                                     *)
CallbackSansState(flow, user) == [at |-> "callback", flow |-> None, user |-> user, code |-> "live"]
Callback(flow, user) == [at |-> "callback", flow |-> flow, user |-> user, code |-> "live"]

(* A client that is not registered is sent back with an error and no code. *)
AuthorizeRefused(t) ==
    /\ tab[t].at = "authorize"
    /\ provider.client = "unknown"
    /\ Goes(t, [at |-> "callback error", flow |-> tab[t].flow])
    /\ UNCHANGED <<cookies, provider, restarts>>

(* A callback URL that is not registered is not followed: the page is a    *)
(* login form without the request.                                         *)
AuthorizeInvalid(t) ==
    /\ tab[t].at = "authorize"
    /\ provider.client = "other callback"
    /\ Goes(t, [at |-> "login", flow |-> None])
    /\ UNCHANGED <<cookies, provider, restarts>>

AuthorizeWithSession(t) ==
    /\ tab[t].at = "authorize" /\ provider.client = "known"
    /\ local # None
    /\ Goes(t, Callback(tab[t].flow, local))
    /\ UNCHANGED <<cookies, provider, restarts>>

AuthorizeLoginForm(t) ==
    /\ tab[t].at = "authorize" /\ provider.client = "known"
    /\ local = None
    /\ Goes(t, [at |-> "login", flow |-> tab[t].flow])
    /\ UNCHANGED <<cookies, provider, restarts>>

(* The page after a wrong password has lost the request, and a form that   *)
(* has lost it never leads to a callback.                                  *)
LoginRefused(t) ==
    /\ tab[t].at = "login"
    /\ Goes(t, [at |-> "login", flow |-> None])
    /\ UNCHANGED <<cookies, provider, restarts>>

LoginAccepted(t, user) ==
    /\ tab[t].at = "login"
    /\ tab[t].flow # None
    /\ local' = user
    /\ Goes(t, Callback(tab[t].flow, user))
    /\ UNCHANGED <<pkce, session, provider, restarts>>

-----------------------------------------------------------------------------
(* GET /auth/callback                                                      *)

NoState(t) == FALSE             \* mutant: it is compared with something else
StateMatches(t) == pkce = tab[t].flow

(* The provider's error arrives without a code and is refused.             *)
CallbackSansCode(t) ==
    /\ tab[t].at = "callback error"
    /\ Goes(t, [at |-> "refused"])
    /\ UNCHANGED <<cookies, provider, restarts>>

(* The handler reads the cookie of the request.  A match sends the code    *)
(* and the cookie's verifier to /token; anything else is refused at once.  *)
CallbackSent(t) ==
    /\ tab[t].at = "callback"
    /\ Goes(t, IF StateMatches(t)
               THEN [at |-> "exchange", flow |-> tab[t].flow, user |-> tab[t].user,
                     code |-> tab[t].code, verifier |-> pkce]
               ELSE [at |-> "refused"])
    /\ UNCHANGED <<cookies, provider, restarts>>

Redeemable(t) == tab[t].code = "live" /\ tab[t].verifier = tab[t].flow

TokenGranted(t) ==
    /\ tab[t].at = "exchange"
    /\ Redeemable(t)
    /\ Goes(t, [at |-> "answered", user |-> tab[t].user])
    /\ UNCHANGED <<cookies, provider, restarts>>

TokenRefused(t) ==
    /\ tab[t].at = "exchange"
    /\ ~Redeemable(t)
    /\ Goes(t, [at |-> "refused"])
    /\ UNCHANGED <<cookies, provider, restarts>>

(* The provider spends a good code, then fails to sign: its 500 is refused *)
(* like any other answer that is not ok.                                   *)
TokenFails(t) ==
    /\ tab[t].at = "exchange"
    /\ Redeemable(t)
    /\ Goes(t, [at |-> "refused"])
    /\ UNCHANGED <<cookies, provider, restarts>>

FetchFailed(t) ==
    \E code \in {tab[t].code, "gone"} :
        Goes(t, [at |-> "error", flow |-> tab[t].flow, user |-> tab[t].user, code |-> code])

(* Mutant: the error answer deletes ck_pkce too.                           *)
FetchThrowsDeleting(t) ==
    /\ tab[t].at = "exchange"
    /\ FetchFailed(t)
    /\ pkce' = None
    /\ UNCHANGED <<session, local, provider, restarts>>

(* fetch throws: the provider cannot be reached, or dies before it answers *)
(* and perhaps after it spent the code.  The route answers 500, without    *)
(* the Set-Cookie that deletes ck_pkce.                                    *)
FetchThrows(t) ==
    /\ tab[t].at = "exchange"
    /\ FetchFailed(t)
    /\ UNCHANGED <<cookies, provider, restarts>>

Reload(t) ==
    /\ tab[t].at = "error"
    /\ Goes(t, [tab[t] EXCEPT !.at = "callback"])
    /\ UNCHANGED <<cookies, provider, restarts>>

(* The redirect to /auth/signin?error=... deletes ck_pkce on arrival,      *)
(* whichever flow it holds by then, and starts the next flow at once.      *)
RefusalArrives(t) ==
    /\ tab[t].at = "refused"
    /\ pkce' = None
    /\ Goes(t, [at |-> "signin"])
    /\ UNCHANGED <<session, local, provider, restarts>>

SessionArrives(t) ==
    /\ tab[t].at = "answered"
    /\ pkce' = None
    /\ session' = tab[t].user
    /\ Goes(t, [at |-> "page"])
    /\ UNCHANGED <<local, provider, restarts>>

-----------------------------------------------------------------------------
(* GET /auth/signout, which redirects to the provider's /logout.           *)

SignOut(t) ==
    /\ tab[t].at = "page"
    /\ session' = None
    /\ tab' = [tab EXCEPT ![t] = [at |-> "signout"]]
    /\ quiet' = {t}
    /\ UNCHANGED <<pkce, local, provider, restarts>>

SansSetCookie == UNCHANGED local     \* mutant: the redirect clears nothing
EndSession == local' = None

LogoutRedirects(t) ==
    /\ tab[t].at = "signout"
    /\ provider.logout
    /\ EndSession
    /\ Goes(t, [at |-> "signed out"])
    /\ UNCHANGED <<pkce, session, provider, restarts>>

(* When the redirect is not allowed /logout shows a page: it says that the *)
(* session was cleared, and clears nothing.                                *)
LogoutTells(t) ==
    /\ tab[t].at = "signout"
    /\ ~provider.logout
    /\ Goes(t, [at |-> "told signed out"])
    /\ UNCHANGED <<cookies, provider, restarts>>

-----------------------------------------------------------------------------
(* The environment: an hour passes (the ID token and its cookie end), the  *)
(* provider is restarted and forgets its codes, with new keys or the old   *)
(* and with the same clients or others.                                    *)

SessionExpires ==
    /\ session # None
    /\ session' = None
    /\ UNCHANGED <<pkce, local, tab, provider, restarts, quiet>>

Restart ==
    /\ restarts < MaxRestarts
    /\ restarts' = restarts + 1
    /\ tab' = [t \in Tabs |-> IF "code" \in DOMAIN tab[t]
                              THEN [tab[t] EXCEPT !.code = "gone"]
                              ELSE tab[t]]
    /\ session' \in {session, None}
    /\ provider' \in Provider
    /\ UNCHANGED <<pkce, local, quiet>>

(* What goes on by itself: redirects are followed and requests answered.   *)
Follows(t) ==
    \/ \E flow \in Flows : SignIn(t, flow)
    \/ AuthorizeRefused(t)
    \/ AuthorizeInvalid(t)
    \/ AuthorizeWithSession(t)
    \/ AuthorizeLoginForm(t)
    \/ CallbackSansCode(t)
    \/ CallbackSent(t)
    \/ TokenGranted(t)
    \/ TokenRefused(t)
    \/ TokenFails(t)
    \/ FetchThrows(t)
    \/ RefusalArrives(t)
    \/ SessionArrives(t)
    \/ LogoutRedirects(t)
    \/ LogoutTells(t)

UserActs(t) ==
    \/ Open(t)
    \/ ToSignIn(t)
    \/ LoginRefused(t)
    \/ \E user \in Users : LoginAccepted(t, user)
    \/ Reload(t)
    \/ SignOut(t)

Next ==
    \/ \E t \in Tabs : Follows(t) \/ UserActs(t)
    \/ SessionExpires
    \/ Restart

(* Browsers follow redirects, both servers answer or the fetch fails.      *)
(* Nothing is assumed of users.                                            *)
Spec == Init /\ [][Next]_vars /\ \A t \in Tabs : WF_vars(Follows(t))

-----------------------------------------------------------------------------
(* Properties.                                                             *)

(* The cookies and tabs hold what the routes put there (lib/auth.ts:20).   *)
TypeOK ==
    /\ pkce \in Flows \cup {None}
    /\ session \in Users \cup {None} /\ local \in Users \cup {None}
    /\ tab \in [Tabs -> Tab]
    /\ provider \in Provider
    /\ quiet \subseteq Tabs

InFlow(t) == "flow" \in DOMAIN tab[t] /\ tab[t].flow # None

(* A sign-in that no other tab crosses keeps its cookie until its tokens   *)
(* are there, over wrong passwords, a restart of the provider, a failed    *)
(* fetch and the reload that presents the code again; so only the provider *)
(* can refuse it, never a state that does not match (callback:16, 25, 29). *)
QuietSignInKeepsItsCookie == \A t \in quiet : InFlow(t) => pkce = tab[t].flow

(* After a sign-out the app's session is gone, and the provider's too when *)
(* the provider redirects back rather than shows a page, whatever happened *)
(* before and unless another tab moved since it was clicked (signout:12-18,*)
(* server.ts:523-536).                                                     *)
QuietSignOutIsComplete ==
    \A t \in quiet :
        /\ tab[t].at \in {"signed out", "told signed out"} => session = None
        /\ tab[t].at = "signed out" => local = None

(* The redirects from callback to signin and back are no endless loop: a   *)
(* tab that is left alone by the others comes to rest at a page, a form or *)
(* an error (callback:25-26, 41-42; signin:28), provided the app is, in    *)
(* the end, a client of the provider and the provider able to sign.        *)
LoneTabSettles ==
    \A t \in Tabs :
        (/\ <>[](provider.client # "unknown" /\ \A s \in Tabs \ {t} : AtRest(s))
         /\ <>[][~TokenFails(t)]_vars)
        => (~AtRest(t) ~> AtRest(t))
=============================================================================
