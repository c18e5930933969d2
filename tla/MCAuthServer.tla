---------------------------- MODULE MCAuthServer ----------------------------
(***************************************************************************)
(* Instances of AuthServer for TLC.  The client w is always registered,    *)
(* the client x only where two are; root has a "sub" among the extra       *)
(* claims in some configurations.  The texts s2 and cost hold a $-pattern: *)
(* the login form makes s1 and there of them.                              *)
(***************************************************************************)
EXTENDS AuthServer, TLC

CONSTANTS ada, root, gone, w, x, here, there, cost, broken, v1, n1, n2, s1, s2,
          cd1, cd2, rt1, rt2, c1, c2, b1, b2

OneClient  == {w}
TwoClients == {w, x}
OnlyHere  == [i \in OneClient |-> {here}]
HereOrBroken == [i \in OneClient |-> {here, cost, broken}]
HereForBoth == [i \in TwoClients |-> {here}]

NoSubClaim  == [u \in Users |-> Absent]
OneSubClaim == [u \in Users |-> IF u = root THEN ada ELSE Absent]

Texts == Clients \cup Uris \cup Scopes \cup States \cup Nonces \cup Verifiers
DollarTexts ==
    [text \in Texts |-> CASE text = s2 -> s1 [] text = cost -> there [] OTHER -> text]

Base == [responseType |-> "code", clientId |-> w, redirectUri |-> here,
         scope |-> Absent, state |-> s1, nonce |-> n1,
         codeChallenge |-> v1, codeChallengeMethod |-> "S256"]

(* A request with PKCE, state and nonce, and one without.                  *)
Plain == [Base EXCEPT !.state = Absent, !.nonce = Absent, !.codeChallenge = Absent,
                      !.codeChallengeMethod = "none"]
GoodParams == {Base, Plain}

(* Two sign-ins that differ in all that tokens are bound to, as the forms  *)
(* that bring them to /login.                                              *)
TwoSignIns ==
    {[NoFields EXCEPT !.clientId = w, !.redirectUri = here, !.nonce = n1,
                      !.codeChallenge = v1, !.codeChallengeMethod = "S256"],
     [NoFields EXCEPT !.clientId = x, !.redirectUri = here, !.nonce = n2, !.scope = "email"]}

NoParams == {}

(* The ways validateAuthorizeParams refuses, each with and without a       *)
(* redirect URI to send the error to, and a redirect URI that is no URL.   *)
OddParams ==
    {Base,
     [Base EXCEPT !.responseType = "other"],
     [Base EXCEPT !.clientId = Absent],
     [Base EXCEPT !.clientId = x],
     [Base EXCEPT !.redirectUri = Absent],
     [Base EXCEPT !.redirectUri = there],
     [Base EXCEPT !.redirectUri = broken],
     [Base EXCEPT !.redirectUri = cost, !.state = s2]}

(* Forms made by hand: one for a client and a callback that no /authorize  *)
(* accepts, without a scope, and one without a client.                     *)
HandMadeForms ==
    {[NoFields EXCEPT !.clientId = x, !.redirectUri = there],
     [NoFields EXCEPT !.redirectUri = here]}

Interchangeable ==
    Permutations({ada, root}) \cup Permutations({cd1, cd2})
    \cup Permutations({rt1, rt2}) \cup Permutations({c1, c2})

InterchangeableBrowsers == Permutations({cd1, cd2}) \cup Permutations({b1, b2})
=============================================================================
