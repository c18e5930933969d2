------------------------- MODULE NextSessionProofs --------------------------
(***************************************************************************)
(* Theorems about NextSession, for any number of tabs, users, flows and    *)
(* restarts: its type, that a sign-in that no other tab crosses keeps its  *)
(* cookie, and how far such a sign-out is complete.                        *)
(***************************************************************************)
EXTENDS NextSession, TLAPS

(* One step per action keeps the type; the shape of a tab's record is read *)
(* off the phase that the action's guard names.                            *)
LEMMA TypeStep ==
    ASSUME TypeOK, [Next]_vars
    PROVE  TypeOK'
<1> USE DEF TypeOK
<1>1. CASE UNCHANGED vars
  BY <1>1 DEF vars
<1>2. ASSUME NEW t \in Tabs, NEW to \in Tab, Goes(t, to)
      PROVE  tab' \in [Tabs -> Tab] /\ quiet' \subseteq Tabs
  BY <1>2 DEF Goes
<1>3. ASSUME NEW t \in Tabs, UserActs(t)
      PROVE  TypeOK'
  <2>1. CASE Open(t)
    <3>1. [at |-> "page"] \in Tab
      BY DEF Tab
    <3> QED
      BY <2>1, <3>1, <1>2 DEF Open, cookies
  <2>2. CASE ToSignIn(t)
    <3>1. [at |-> "signin"] \in Tab
      BY DEF Tab
    <3> QED
      BY <2>2, <3>1, <1>2 DEF ToSignIn, cookies
  <2>3. CASE LoginRefused(t)
    <3>1. [at |-> "login", flow |-> None] \in Tab
      BY DEF Tab
    <3> QED
      BY <2>3, <3>1, <1>2 DEF LoginRefused, cookies
  <2>4. ASSUME NEW user \in Users, LoginAccepted(t, user)
        PROVE  TypeOK'
    <3>1. tab[t].flow \in Flows
      BY <2>4 DEF LoginAccepted, Tab
    <3>2. Callback(tab[t].flow, user) \in Tab
      BY <3>1 DEF Callback, Tab
    <3> QED
      BY <2>4, <3>2, <1>2 DEF LoginAccepted
  <2>5. CASE Reload(t)
    <3>1. [tab[t] EXCEPT !.at = "callback"] \in Tab
      BY <2>5 DEF Reload, Tab
    <3> QED
      BY <2>5, <3>1, <1>2 DEF Reload, cookies
  <2>6. CASE SignOut(t)
    <3>1. [at |-> "signout"] \in Tab
      BY DEF Tab
    <3> QED
      BY <2>6, <3>1 DEF SignOut
  <2> QED
    BY <1>3, <2>1, <2>2, <2>3, <2>4, <2>5, <2>6 DEF UserActs
<1>4. ASSUME NEW t \in Tabs, Follows(t)
      PROVE  TypeOK'
  <2>1. ASSUME NEW flow \in Flows, SignIn(t, flow)
        PROVE  TypeOK'
    <3>1. [at |-> "authorize", flow |-> flow] \in Tab
      BY DEF Tab
    <3> QED
      BY <2>1, <3>1 DEF SignIn
  <2>2. CASE AuthorizeWithSession(t)
    <3>1. tab[t].flow \in Flows /\ local \in Users
      BY <2>2 DEF AuthorizeWithSession, Tab
    <3>2. Callback(tab[t].flow, local) \in Tab
      BY <3>1 DEF Callback, Tab
    <3> QED
      BY <2>2, <3>2, <1>2 DEF AuthorizeWithSession, cookies
  <2>3. CASE AuthorizeLoginForm(t)
    <3>1. tab[t].flow \in Flows
      BY <2>3 DEF AuthorizeLoginForm, Tab
    <3>2. [at |-> "login", flow |-> tab[t].flow] \in Tab
      BY <3>1 DEF Tab
    <3> QED
      BY <2>3, <3>2, <1>2 DEF AuthorizeLoginForm, cookies
  <2>4. CASE CallbackSent(t)
    <3>1. /\ tab[t].flow \in Flows /\ tab[t].user \in Users
          /\ tab[t].code \in {"live", "gone"}
      BY <2>4 DEF CallbackSent, Tab
    <3>2. CASE StateMatches(t)
      <4>1. [at |-> "exchange", flow |-> tab[t].flow, user |-> tab[t].user,
             code |-> tab[t].code, verifier |-> pkce] \in Tab
        BY <3>1, <3>2 DEF StateMatches, Tab
      <4> QED
        BY <2>4, <3>2, <4>1, <1>2 DEF CallbackSent, cookies
    <3>3. CASE ~StateMatches(t)
      <4>1. [at |-> "refused"] \in Tab
        BY DEF Tab
      <4> QED
        BY <2>4, <3>3, <4>1, <1>2 DEF CallbackSent, cookies
    <3> QED
      BY <3>2, <3>3
  <2>5. CASE TokenGranted(t)
    <3>1. tab[t].user \in Users
      BY <2>5 DEF TokenGranted, Tab
    <3>2. [at |-> "answered", user |-> tab[t].user] \in Tab
      BY <3>1 DEF Tab
    <3> QED
      BY <2>5, <3>2, <1>2 DEF TokenGranted, cookies
  <2>6. CASE TokenRefused(t)
    <3>1. [at |-> "refused"] \in Tab
      BY DEF Tab
    <3> QED
      BY <2>6, <3>1, <1>2 DEF TokenRefused, cookies
  <2>7. CASE FetchThrows(t)
    <3>1. /\ tab[t].flow \in Flows /\ tab[t].user \in Users
          /\ tab[t].code \in {"live", "gone"}
      BY <2>7 DEF FetchThrows, Tab
    <3>2. \A code \in {tab[t].code, "gone"} :
             [at |-> "error", flow |-> tab[t].flow, user |-> tab[t].user, code |-> code] \in Tab
      BY <3>1 DEF Tab
    <3> QED
      BY <2>7, <3>2, <1>2 DEF FetchThrows, FetchFailed, cookies
  <2>8. CASE RefusalArrives(t)
    <3>1. [at |-> "signin"] \in Tab
      BY DEF Tab
    <3> QED
      BY <2>8, <3>1, <1>2 DEF RefusalArrives
  <2>9. CASE SessionArrives(t)
    <3>1. [at |-> "page"] \in Tab /\ tab[t].user \in Users
      BY <2>9 DEF SessionArrives, Tab
    <3> QED
      BY <2>9, <3>1, <1>2 DEF SessionArrives
  <2>10. CASE LogoutRedirects(t)
    <3>1. [at |-> "signed out"] \in Tab
      BY DEF Tab
    <3> QED
      BY <2>10, <3>1, <1>2 DEF LogoutRedirects, EndSession
  <2>11. CASE LogoutTells(t)
    <3>1. [at |-> "told signed out"] \in Tab
      BY DEF Tab
    <3> QED
      BY <2>11, <3>1, <1>2 DEF LogoutTells, cookies
  <2>12. CASE AuthorizeRefused(t)
    <3>1. tab[t].flow \in Flows
      BY <2>12 DEF AuthorizeRefused, Tab
    <3>2. [at |-> "callback error", flow |-> tab[t].flow] \in Tab
      BY <3>1 DEF Tab
    <3> QED
      BY <2>12, <3>2, <1>2 DEF AuthorizeRefused, cookies
  <2>13. CASE AuthorizeInvalid(t)
    <3>1. [at |-> "login", flow |-> None] \in Tab
      BY DEF Tab
    <3> QED
      BY <2>13, <3>1, <1>2 DEF AuthorizeInvalid, cookies
  <2>14. CASE CallbackSansCode(t) \/ TokenFails(t)
    <3>1. [at |-> "refused"] \in Tab
      BY DEF Tab
    <3> QED
      BY <2>14, <3>1, <1>2 DEF CallbackSansCode, TokenFails, cookies
  <2> QED
    BY <1>4, <2>1, <2>2, <2>3, <2>4, <2>5, <2>6, <2>7, <2>8, <2>9, <2>10, <2>11, <2>12,
       <2>13, <2>14
       DEF Follows
<1>5. CASE SessionExpires
  BY <1>5 DEF SessionExpires
<1>6. CASE Restart
  <2>1. ASSUME NEW t \in Tabs
        PROVE  (IF "code" \in DOMAIN tab[t] THEN [tab[t] EXCEPT !.code = "gone"] ELSE tab[t]) \in Tab
    <3>1. CASE tab[t] \in [at : {"callback", "error"}, flow : Flows, user : Users,
                           code : {"live", "gone"}]
      <4>1. [tab[t] EXCEPT !.code = "gone"]
               \in [at : {"callback", "error"}, flow : Flows, user : Users, code : {"live", "gone"}]
        BY <3>1
      <4> QED
        BY <4>1 DEF Tab
    <3>2. CASE tab[t] \in [at : {"exchange"}, flow : Flows, user : Users,
                           code : {"live", "gone"}, verifier : Flows]
      <4>1. [tab[t] EXCEPT !.code = "gone"]
               \in [at : {"exchange"}, flow : Flows, user : Users,
                    code : {"live", "gone"}, verifier : Flows]
        BY <3>2
      <4> QED
        BY <4>1 DEF Tab
    <3>3. CASE \/ tab[t] \in [at : {"page", "signin", "refused", "signout", "signed out",
                                   "told signed out"}]
               \/ tab[t] \in [at : {"authorize", "callback error"}, flow : Flows]
               \/ tab[t] \in [at : {"login"}, flow : Flows \cup {None}]
               \/ tab[t] \in [at : {"answered"}, user : Users]
      <4>1. DOMAIN tab[t] \subseteq {"at", "flow", "user"}
        BY <3>3
      <4> QED
        BY <4>1
    <3> QED
      BY <3>1, <3>2, <3>3 DEF Tab
  <2> QED
    BY <1>6, <2>1 DEF Restart
<1> QED
  BY <1>1, <1>3, <1>4, <1>5, <1>6 DEF Next

(* What a restart does to a tab's record touches no other field.           *)
LEMMA RecordsKeep ==
    ASSUME NEW from, NEW to, to = [from EXCEPT !.code = "gone"]
    PROVE  to.at = from.at /\ to.flow = from.flow /\ DOMAIN to = DOMAIN from
OBVIOUS

(* A step of a tab leaves the others where they are, and of the history    *)
(* keeps at most that tab.                                                 *)
LEMMA OthersKeep ==
    ASSUME TypeOK, NEW t \in Tabs, Follows(t) \/ UserActs(t), NEW s \in Tabs, s # t
    PROVE  tab'[s] = tab[s] /\ s \notin quiet'
<1>1. ASSUME NEW to, Goes(t, to)
      PROVE  tab'[s] = tab[s] /\ s \notin quiet'
  BY <1>1 DEF Goes, TypeOK
<1>2. CASE Follows(t) /\ ~\E flow \in Flows : SignIn(t, flow)
  BY <1>1, <1>2 DEF Follows, AuthorizeRefused, AuthorizeInvalid, AuthorizeWithSession,
     AuthorizeLoginForm, CallbackSansCode, CallbackSent, TokenGranted, TokenRefused,
     TokenFails, FetchThrows, FetchFailed, RefusalArrives, SessionArrives, LogoutRedirects,
     LogoutTells
<1>3. CASE UserActs(t) /\ ~SignOut(t)
  BY <1>1, <1>3 DEF UserActs, Open, ToSignIn, LoginRefused, LoginAccepted, Reload
<1>4. CASE SignOut(t) \/ \E flow \in Flows : SignIn(t, flow)
  BY <1>4 DEF SignOut, SignIn, TypeOK
<1> QED
  BY <1>2, <1>3, <1>4

(* Only signing out leads to the phases of a sign-out.                     *)
LEMMA OthersNeverSignOut ==
    ASSUME TypeOK, NEW t \in Tabs, Follows(t) \/ UserActs(t), ~LogoutRedirects(t),
           ~LogoutTells(t), ~SignOut(t)
    PROVE  tab'[t].at \notin {"signout", "signed out", "told signed out"}
<1>1. CASE \E flow \in Flows : SignIn(t, flow)
  BY <1>1 DEF SignIn, TypeOK
<1>2. CASE AuthorizeWithSession(t)
  BY <1>2 DEF AuthorizeWithSession, Callback, Goes, TypeOK
<1>3. CASE AuthorizeLoginForm(t)
  BY <1>3 DEF AuthorizeLoginForm, Goes, TypeOK
<1>4. CASE CallbackSent(t)
  BY <1>4 DEF CallbackSent, Goes, TypeOK
<1>5. CASE TokenGranted(t)
  BY <1>5 DEF TokenGranted, Goes, TypeOK
<1>6. CASE TokenRefused(t)
  BY <1>6 DEF TokenRefused, Goes, TypeOK
<1>7. CASE FetchThrows(t)
  BY <1>7 DEF FetchThrows, FetchFailed, Goes, TypeOK
<1>8. CASE RefusalArrives(t)
  BY <1>8 DEF RefusalArrives, Goes, TypeOK
<1>9. CASE SessionArrives(t)
  BY <1>9 DEF SessionArrives, Goes, TypeOK
<1>10. CASE Open(t)
  BY <1>10 DEF Open, Goes, TypeOK
<1>11. CASE ToSignIn(t)
  BY <1>11 DEF ToSignIn, Goes, TypeOK
<1>12. CASE LoginRefused(t)
  BY <1>12 DEF LoginRefused, Goes, TypeOK
<1>13. CASE \E user \in Users : LoginAccepted(t, user)
  BY <1>13 DEF LoginAccepted, Callback, Goes, TypeOK
<1>14. CASE Reload(t)
  <2>1. tab'[t] = [tab[t] EXCEPT !.at = "callback"]
    BY <1>14 DEF Reload, Goes, TypeOK
  <2>2. "at" \in DOMAIN tab[t]
    BY DEF TypeOK, Tab
  <2> QED
    BY <2>1, <2>2
<1>15. CASE AuthorizeRefused(t)
  BY <1>15 DEF AuthorizeRefused, Goes, TypeOK
<1>16. CASE AuthorizeInvalid(t)
  BY <1>16 DEF AuthorizeInvalid, Goes, TypeOK
<1>17. CASE CallbackSansCode(t)
  BY <1>17 DEF CallbackSansCode, Goes, TypeOK
<1>18. CASE TokenFails(t)
  BY <1>18 DEF TokenFails, Goes, TypeOK
<1> QED
  BY <1>1, <1>2, <1>3, <1>4, <1>5, <1>6, <1>7, <1>8, <1>9, <1>10, <1>11, <1>12, <1>13, <1>14,
     <1>15, <1>16, <1>17, <1>18
  DEF Follows, UserActs

(* Every reachable state has the declared shape.                           *)
THEOREM TypeCorrect == Spec => []TypeOK
<1>1. Init => TypeOK
  <2>1. [at |-> "page"] \in Tab
    BY DEF Tab
  <2> QED
    BY <2>1 DEF Init, TypeOK
<1>2. TypeOK /\ [Next]_vars => TypeOK'
  BY TypeStep
<1> QED
  BY <1>1, <1>2, PTL DEF Spec

(* A tab with a request under way has its flow in its record.              *)
LEMMA FlowUnderWay ==
    ASSUME TypeOK, NEW t \in Tabs,
           tab[t].at \in {"authorize", "callback", "exchange", "error", "callback error"}
    PROVE  tab[t].flow \in Flows /\ InFlow(t)
<1>1. tab[t].flow \in Flows /\ "flow" \in DOMAIN tab[t]
  BY DEF TypeOK, Tab
<1> QED
  BY <1>1, SessionAssumption DEF InFlow

(* What may become of a flow in a step of its tab that is not a new        *)
(* sign-in: it goes on with the cookie as it is, or it is over.            *)
FlowGoesOn(t) ==
    InFlow(t)' => InFlow(t) /\ tab'[t].flow = tab[t].flow /\ pkce' = pkce

LEMMA Over ==
    ASSUME TypeOK, NEW t \in Tabs, NEW at, Goes(t, [at |-> at])
    PROVE  FlowGoesOn(t)
<1>1. tab'[t] = [at |-> at]
  BY DEF Goes, TypeOK
<1>2. "flow" \notin DOMAIN tab'[t]
  BY <1>1
<1> QED
  BY <1>2 DEF FlowGoesOn, InFlow

LEMMA FollowedFlow ==
    ASSUME TypeOK, NEW t \in Tabs, Follows(t), ~\E flow \in Flows : SignIn(t, flow)
    PROVE  FlowGoesOn(t)
<1>1. ASSUME NEW to, Goes(t, to), to.flow = tab[t].flow, UNCHANGED pkce,
             tab[t].at \in {"authorize", "callback", "exchange", "error", "callback error"}
      PROVE  FlowGoesOn(t)
  <2>1. tab'[t] = to /\ InFlow(t)
    BY <1>1, FlowUnderWay DEF Goes, TypeOK
  <2> QED
    BY <1>1, <2>1 DEF FlowGoesOn
<1>2. CASE AuthorizeRefused(t)
  BY <1>1, <1>2 DEF AuthorizeRefused, cookies
<1>3. CASE AuthorizeInvalid(t)
  <2>1. tab'[t] = [at |-> "login", flow |-> None]
    BY <1>3 DEF AuthorizeInvalid, Goes, TypeOK
  <2> QED
    BY <2>1 DEF FlowGoesOn, InFlow
<1>4. CASE AuthorizeWithSession(t)
  BY <1>1, <1>4 DEF AuthorizeWithSession, Callback, cookies
<1>5. CASE AuthorizeLoginForm(t)
  BY <1>1, <1>5 DEF AuthorizeLoginForm, cookies
<1>6. CASE CallbackSansCode(t) \/ TokenRefused(t) \/ TokenFails(t)
  BY <1>6, Over DEF CallbackSansCode, TokenRefused, TokenFails
<1>7. CASE CallbackSent(t)
  <2>1. CASE StateMatches(t)
    BY <1>1, <1>7, <2>1 DEF CallbackSent, cookies
  <2>2. CASE ~StateMatches(t)
    BY <1>7, <2>2, Over DEF CallbackSent
  <2> QED
    BY <2>1, <2>2
<1>8. CASE TokenGranted(t)
  <2>1. tab'[t] = [at |-> "answered", user |-> tab[t].user]
    BY <1>8 DEF TokenGranted, Goes, TypeOK
  <2>2. "flow" \notin DOMAIN tab'[t]
    BY <2>1
  <2> QED
    BY <2>2 DEF FlowGoesOn, InFlow
<1>9. CASE FetchThrows(t)
  BY <1>1, <1>9 DEF FetchThrows, FetchFailed, cookies
<1>10. CASE RefusalArrives(t) \/ SessionArrives(t)
  BY <1>10, Over DEF RefusalArrives, SessionArrives
<1>11. CASE LogoutRedirects(t) \/ LogoutTells(t)
  BY <1>11, Over DEF LogoutRedirects, LogoutTells
<1> QED
  BY <1>2, <1>3, <1>4, <1>5, <1>6, <1>7, <1>8, <1>9, <1>10, <1>11 DEF Follows

LEMMA UsedFlow ==
    ASSUME TypeOK, NEW t \in Tabs, UserActs(t)
    PROVE  FlowGoesOn(t)
<1>1. CASE Open(t) \/ ToSignIn(t)
  BY <1>1, Over DEF Open, ToSignIn
<1>2. CASE LoginRefused(t)
  <2>1. tab'[t] = [at |-> "login", flow |-> None]
    BY <1>2 DEF LoginRefused, Goes, TypeOK
  <2> QED
    BY <2>1 DEF FlowGoesOn, InFlow
<1>3. ASSUME NEW user \in Users, LoginAccepted(t, user)
      PROVE  FlowGoesOn(t)
  <2>1. tab'[t].flow = tab[t].flow /\ UNCHANGED pkce
    BY <1>3 DEF LoginAccepted, Callback, Goes, TypeOK
  <2>2. "flow" \in DOMAIN tab[t] /\ tab[t].flow # None
    BY <1>3 DEF LoginAccepted, TypeOK, Tab
  <2> QED
    BY <2>1, <2>2 DEF FlowGoesOn, InFlow
<1>4. CASE Reload(t)
  <2>1. tab'[t] = [tab[t] EXCEPT !.at = "callback"] /\ UNCHANGED pkce
    BY <1>4 DEF Reload, Goes, TypeOK, cookies
  <2>2. InFlow(t)
    BY <1>4, FlowUnderWay DEF Reload
  <2>3. tab'[t].flow = tab[t].flow
    BY <2>1
  <2> QED
    BY <2>1, <2>2, <2>3 DEF FlowGoesOn
<1>5. CASE SignOut(t)
  <2>1. tab'[t] = [at |-> "signout"]
    BY <1>5 DEF SignOut, TypeOK
  <2>2. "flow" \notin DOMAIN tab'[t]
    BY <2>1
  <2> QED
    BY <2>2 DEF FlowGoesOn, InFlow
<1> QED
  BY <1>1, <1>2, <1>3, <1>4, <1>5 DEF UserActs

(* A tab that the history names did not join it by a step that is neither  *)
(* a sign-in nor a sign-out.                                               *)
LEMMA QuietBefore ==
    ASSUME TypeOK, NEW t \in Tabs, Follows(t) \/ UserActs(t), t \in quiet', InFlow(t)',
           ~\E flow \in Flows : SignIn(t, flow)
    PROVE  t \in quiet
<1>1. ASSUME NEW to, Goes(t, to)
      PROVE  t \in quiet
  BY <1>1 DEF Goes
<1>2. CASE Follows(t)
  BY <1>1, <1>2 DEF Follows, AuthorizeRefused, AuthorizeInvalid, AuthorizeWithSession,
     AuthorizeLoginForm, CallbackSansCode, CallbackSent, TokenGranted, TokenRefused,
     TokenFails, FetchThrows, FetchFailed, RefusalArrives, SessionArrives, LogoutRedirects,
     LogoutTells
<1>3. CASE UserActs(t) /\ ~SignOut(t)
  BY <1>1, <1>3 DEF UserActs, Open, ToSignIn, LoginRefused, LoginAccepted, Reload
<1>4. CASE SignOut(t)
  <2>1. tab'[t] = [at |-> "signout"]
    BY <1>4 DEF SignOut, TypeOK
  <2>2. "flow" \notin DOMAIN tab'[t]
    BY <2>1
  <2> QED
    BY <2>2 DEF InFlow
<1> QED
  BY <1>2, <1>3, <1>4

(* A sign-in that no other tab crosses keeps its cookie: the cookie is set *)
(* with the flow, the tab's own steps carry both on or end the flow, and a *)
(* step of another tab ends the history.                                   *)
THEOREM QuietSignInsKeepTheirCookies == Spec => []QuietSignInKeepsItsCookie
<1>1. Init => QuietSignInKeepsItsCookie
  BY DEF Init, QuietSignInKeepsItsCookie
<1>2. TypeOK /\ QuietSignInKeepsItsCookie /\ [Next]_vars => QuietSignInKeepsItsCookie'
  <2> SUFFICES ASSUME TypeOK, QuietSignInKeepsItsCookie, [Next]_vars,
                      NEW s \in quiet', InFlow(s)'
               PROVE  pkce' = tab'[s].flow
    BY DEF QuietSignInKeepsItsCookie
  <2>1. s \in Tabs
    BY TypeStep DEF TypeOK
  <2>2. CASE UNCHANGED <<tab, pkce, quiet>>
    BY <2>2 DEF QuietSignInKeepsItsCookie, InFlow
  <2>3. CASE Restart
    <3>1. tab'[s] = tab[s] \/ tab'[s] = [tab[s] EXCEPT !.code = "gone"]
      BY <2>1, <2>3 DEF Restart
    <3>2. tab'[s].flow = tab[s].flow /\ DOMAIN tab'[s] = DOMAIN tab[s]
      BY <3>1, RecordsKeep
    <3>3. s \in quiet /\ pkce' = pkce
      BY <2>3 DEF Restart
    <3> QED
      BY <3>2, <3>3 DEF QuietSignInKeepsItsCookie, InFlow
  <2>4. ASSUME NEW t \in Tabs, Follows(t) \/ UserActs(t)
        PROVE  pkce' = tab'[s].flow
    <3>1. s = t
      BY <2>1, <2>4, OthersKeep
    <3>2. CASE \E flow \in Flows : SignIn(t, flow)
      BY <3>1, <3>2 DEF SignIn, TypeOK
    <3>3. CASE ~\E flow \in Flows : SignIn(t, flow)
      <4>1. FlowGoesOn(t)
        BY <2>4, <3>3, FollowedFlow, UsedFlow
      <4>2. t \in quiet
        BY <2>4, <3>1, <3>3, QuietBefore
      <4> QED
        BY <3>1, <4>1, <4>2 DEF FlowGoesOn, QuietSignInKeepsItsCookie
    <3> QED
      BY <3>2, <3>3
  <2>5. SessionExpires \/ UNCHANGED vars => UNCHANGED <<tab, pkce, quiet>>
    BY DEF SessionExpires, vars
  <2> QED
    BY <2>2, <2>3, <2>4, <2>5 DEF Next
<1> QED
  BY <1>1, <1>2, TypeCorrect, PTL DEF Spec

(* A sign-out in progress has ended the app's session, one that was        *)
(* redirected back the provider's too.                                     *)
SignOutGoes ==
    \A t \in quiet :
        /\ tab[t].at \in {"signout", "signed out", "told signed out"} => session = None
        /\ tab[t].at = "signed out" => local = None

(* The invariant is kept because a step of another tab ends the history,   *)
(* and the tab's own steps pass through both phases in order.              *)
LEMMA SignOutStep ==
    ASSUME TypeOK, SignOutGoes, [Next]_vars
    PROVE  SignOutGoes'
<1> SUFFICES ASSUME NEW s \in quiet'
             PROVE  /\ tab'[s].at \in {"signout", "signed out", "told signed out"} =>
                          session' = None
                    /\ tab'[s].at = "signed out" => local' = None
  BY DEF SignOutGoes
<1>1. CASE UNCHANGED vars
  BY <1>1 DEF vars, SignOutGoes
<1>2. CASE SessionExpires
  BY <1>2 DEF SessionExpires, SignOutGoes
<1>3. CASE Restart
  <2>1. s \in quiet /\ s \in Tabs
    BY <1>3 DEF Restart, TypeOK
  <2>2. tab'[s] = tab[s] \/ tab'[s] = [tab[s] EXCEPT !.code = "gone"]
    BY <1>3, <2>1 DEF Restart
  <2>3. tab'[s].at = tab[s].at
    BY <2>2, RecordsKeep
  <2> QED
    BY <1>3, <2>1, <2>3 DEF Restart, SignOutGoes
<1>4. ASSUME NEW t \in Tabs, Follows(t) \/ UserActs(t)
      PROVE  /\ tab'[s].at \in {"signout", "signed out", "told signed out"} => session' = None
             /\ tab'[s].at = "signed out" => local' = None
  <2>1. s = t
    <3>1. s \in Tabs
      BY TypeStep DEF TypeOK
    <3> QED
      BY <1>4, <3>1, OthersKeep
  <2>2. CASE LogoutRedirects(t) \/ LogoutTells(t)
    <3>1. quiet' = quiet \cap {t} /\ session' = session /\ tab[t].at = "signout"
      BY <2>2 DEF LogoutRedirects, LogoutTells, Goes, cookies
    <3>2. LogoutRedirects(t) => local' = None
      BY DEF LogoutRedirects, EndSession
    <3>3. ASSUME LogoutTells(t)
          PROVE  tab'[t].at = "told signed out"
      <4>1. tab' = [tab EXCEPT ![t] = [at |-> "told signed out"]]
        BY <3>3 DEF LogoutTells, Goes
      <4> QED
        BY <4>1 DEF TypeOK
    <3> QED
      BY <2>1, <2>2, <3>1, <3>2, <3>3 DEF SignOutGoes
  <2>3. CASE SignOut(t)
    BY <2>1, <2>3 DEF SignOut, TypeOK
  <2>4. CASE ~LogoutRedirects(t) /\ ~LogoutTells(t) /\ ~SignOut(t)
    BY <1>4, <2>1, <2>4, OthersNeverSignOut
  <2> QED
    BY <2>2, <2>3, <2>4
<1> QED
  BY <1>1, <1>2, <1>3, <1>4 DEF Next

(* A sign-out that no other tab crosses ends the app's session, and the    *)
(* provider's if the provider redirects back.                              *)
THEOREM SignOutCompletes == Spec => []QuietSignOutIsComplete
<1>1. Init => SignOutGoes
  BY DEF Init, SignOutGoes
<1>2. TypeOK /\ SignOutGoes /\ [Next]_vars => SignOutGoes'
  BY SignOutStep
<1>3. SignOutGoes => QuietSignOutIsComplete
  BY DEF SignOutGoes, QuietSignOutIsComplete
<1> QED
  BY <1>1, <1>2, <1>3, TypeCorrect, PTL DEF Spec
=============================================================================
