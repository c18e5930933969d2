------------------------ MODULE AuthRefinementProofs ------------------------
(***************************************************************************)
(* AuthServer implements the safety part of CodeGrant, step by step, for   *)
(* every value of the constants.  What settles a spent code is fairness,   *)
(* and stays with the run AuthRefinement.                                  *)
(***************************************************************************)
EXTENDS AuthServerProofs

(* CodeInvariant says what a redemption of a code may do; that a code      *)
(* grant in flight is one of a code takes an invariant of its own.         *)
SourcesAreCodes ==
    \A c \in Conns :
        (~Free(c) /\ conns[c].grant = "authorization_code") => conns[c].source \in Codes

LEMMA SourcesInit == Init => SourcesAreCodes
<1>1. Init => \A c \in Conns : conns[c].phase = "idle"  BY DEF Init, Idle
<1> QED  BY <1>1 DEF SourcesAreCodes, Free

LEMMA SourceKept ==
    ASSUME TypeOK, SourcesAreCodes, NEW c \in Conns, NEW k,
           conns' = [conns EXCEPT ![c] = k],
           (k.phase \in {"sign id", "sign access"} /\ k.grant = "authorization_code")
              => k.source \in Codes
    PROVE  SourcesAreCodes'
<1>1. conns'[c] = k /\ \A d \in Conns \ {c} : conns'[d] = conns[d]
  BY DEF TypeOK
<1> SUFFICES ASSUME NEW d \in Conns, ~Free(d)', conns'[d].grant = "authorization_code"
             PROVE  conns'[d].source \in Codes
  BY DEF SourcesAreCodes
<1>2. CASE d = c  BY <1>1, <1>2 DEF Free
<1>3. CASE d # c  BY <1>1, <1>3 DEF Free, SourcesAreCodes
<1> QED  BY <1>2, <1>3

LEMMA ClientSources == TypeOK /\ SourcesAreCodes /\ ClientNext => SourcesAreCodes'
<1> SUFFICES ASSUME TypeOK, SourcesAreCodes, NEW c \in Conns,
                    \/ UnsupportedGrant(c)
                    \/ \E code \in Codes, uri \in Optional(Uris),
                          clientId \in Optional(Clients), verifier \in Optional(Verifiers) :
                          \/ CodeRefused(c, code, uri, clientId, verifier)
                          \/ CodeRedeemed(c, code, uri, clientId, verifier)
                    \/ \E h \in Handles : RefreshRefused(c, h) \/ RefreshRedeemed(c, h)
                    \/ \E r \in responses, life \in {IdLife, AccessLife} :
                          UserinfoAnswered(c, r, life)
                    \/ UserinfoRefused(c)
             PROVE  SourcesAreCodes'
  BY DEF ClientNext
<1>1. CASE Answer(c, 400) \/ Answer(c, 401)
  <2>1. CASE Answer(c, 400)  BY <2>1, SourceKept DEF Answer
  <2>2. CASE Answer(c, 401)  BY <2>2, SourceKept DEF Answer
  <2> QED  BY <1>1, <2>1, <2>2
<1>2. CASE \/ UnsupportedGrant(c)
           \/ \E code \in Codes, uri \in Optional(Uris),
                 clientId \in Optional(Clients), verifier \in Optional(Verifiers) :
                 CodeRefused(c, code, uri, clientId, verifier)
           \/ \E h \in Handles : RefreshRefused(c, h)
           \/ UserinfoRefused(c)
  BY <1>1, <1>2 DEF UnsupportedGrant, CodeRefused, RefreshRefused, UserinfoRefused
<1>3. CASE \E code \in Codes, uri \in Optional(Uris),
              clientId \in Optional(Clients), verifier \in Optional(Verifiers) :
              CodeRedeemed(c, code, uri, clientId, verifier)
  <2>1. PICK code \in Codes, uri \in Optional(Uris),
             clientId \in Optional(Clients), verifier \in Optional(Verifiers) :
             CodeRedeemed(c, code, uri, clientId, verifier)
    BY <1>3
  <2> DEFINE k ==
           [phase |-> "sign id", grant |-> "authorization_code", source |-> code,
            user |-> authCodes[code].user, clientId |-> authCodes[code].auth.clientId,
            scope |-> authCodes[code].auth.scope,
            nonce |-> authCodes[code].auth.nonce, iat |-> now]
  <2>2. conns' = [conns EXCEPT ![c] = k] /\ k.source \in Codes
    BY <2>1 DEF CodeRedeemed
  <2> HIDE DEF k
  <2> QED  BY <2>2, SourceKept
<1>4. CASE \E h \in Handles : RefreshRedeemed(c, h)
  <2>1. PICK h \in Handles : RefreshRedeemed(c, h)  BY <1>4
  <2> DEFINE k ==
           [phase |-> "sign id", grant |-> "refresh_token", source |-> h,
            user |-> refreshTokens[h].user, clientId |-> refreshTokens[h].clientId,
            scope |-> refreshTokens[h].scope, nonce |-> Absent, iat |-> now]
  <2>2. conns' = [conns EXCEPT ![c] = k] /\ k.grant = "refresh_token"
    BY <2>1 DEF RefreshRedeemed
  <2> HIDE DEF k
  <2> QED  BY <2>2, SourceKept
<1>5. CASE \E r \in responses, life \in {IdLife, AccessLife} : UserinfoAnswered(c, r, life)
  <2>1. PICK r \in responses, life \in {IdLife, AccessLife} : UserinfoAnswered(c, r, life)
    BY <1>5
  <2> DEFINE k == [phase |-> "identity", bearer |-> r.user,
                   sub |-> IF SubClaim[r.user] = Absent THEN r.user ELSE SubClaim[r.user]]
  <2>2. conns' = [conns EXCEPT ![c] = k] /\ k.phase = "identity"
    BY <2>1 DEF UserinfoAnswered
  <2> HIDE DEF k
  <2> QED  BY <2>2, SourceKept
<1> QED  BY <1>2, <1>3, <1>4, <1>5

LEMMA SigningSources ==
    ASSUME TypeOK, SourcesAreCodes, NEW c \in Conns, SigningStep(c)
    PROVE  SourcesAreCodes'
<1>1. CASE IdTokenSigned(c)
  <2> DEFINE k == [conns[c] EXCEPT !.phase = "sign access"]
  <2>1. conns[c] \in Signing /\ ~Free(c)
    BY <1>1, InFlight DEF IdTokenSigned, Free
  <2>2. conns' = [conns EXCEPT ![c] = k]
    BY <1>1 DEF IdTokenSigned
  <2>3. k.grant = conns[c].grant /\ k.source = conns[c].source
    BY <2>1 DEF Signing
  <2> HIDE DEF k
  <2> QED  BY <2>1, <2>2, <2>3, SourceKept DEF SourcesAreCodes
<1>2. CASE Answer(c, 200) \/ Answer(c, 500)
  <2>1. CASE Answer(c, 200)  BY <2>1, SourceKept DEF Answer
  <2>2. CASE Answer(c, 500)  BY <2>2, SourceKept DEF Answer
  <2> QED  BY <1>2, <2>1, <2>2
<1> QED
  BY <1>1, <1>2 DEF SigningStep, CodeGrantAnswered, RefreshGrantAnswered, SigningFails

LEMMA BrowserFrame ==
    ASSUME BrowserNext
    PROVE  UNCHANGED <<conns, responses, now>>
  BY DEF BrowserNext, AuthorizeRefused, AuthorizeLoginForm, AuthorizeWithSession,
         LoginRefused, LoginWithoutRequest, LoginAccepted,
         LogoutRedirect, LogoutWithHint, LogoutPage, history

LEMMA SourcesStep == TypeOK /\ SourcesAreCodes /\ [Next]_vars => SourcesAreCodes'
<1> SUFFICES ASSUME TypeOK, SourcesAreCodes, [Next]_vars PROVE SourcesAreCodes'
  OBVIOUS
<1>1. CASE UNCHANGED conns  BY <1>1 DEF SourcesAreCodes, Free
<1>2. CASE ClientNext  BY <1>2, ClientSources
<1>3. CASE \E c \in Conns : SigningStep(c)  BY <1>3, SigningSources
<1>4. CASE Restart  BY <1>4 DEF Restart, SourcesAreCodes, Free, Idle
<1> QED  BY <1>1, <1>2, <1>3, <1>4, BrowserFrame DEF Next, Tick, vars

-----------------------------------------------------------------------------
(* The refinement mapping, read off its cases.                             *)

Redeemed(code) == \E c \in Conns : Redeeming(c, code)

(* The stages exclude each other, by CodeInvariant.                        *)
LEMMA StageFacts ==
    ASSUME CodeInvariant, NEW code \in Codes
    PROVE  /\ Live(code) => minted[code] # None /\ ~Redeemed(code) /\ Grants(code) = {}
           /\ Redeemed(code) => minted[code] # None /\ ~Live(code) /\ Grants(code) = {}
           /\ Grants(code) # {} => minted[code] # None
  BY DEF CodeInvariant, SingleUse, GrantIsTheSignIn, Live, Spent, Redeemed, ForSignIn

LEMMA StageFactsNext ==
    ASSUME CodeInvariant', NEW code \in Codes
    PROVE  /\ Live(code)' => minted'[code] # None /\ ~Redeemed(code)' /\ Grants(code)' = {}
           /\ Redeemed(code)' => minted'[code] # None /\ ~Live(code)' /\ Grants(code)' = {}
           /\ Grants(code)' # {} => minted'[code] # None
  BY DEF CodeInvariant, SingleUse, GrantIsTheSignIn, Live, Spent, Redeemed, ForSignIn

LEMMA StageCases ==
    ASSUME CodeInvariant, NEW code \in Codes
    PROVE  /\ minted[code] = None => Stage(code) = "fresh"
           /\ Live(code) => Stage(code) = "live"
           /\ Redeemed(code) => Stage(code) = "spent"
           /\ Grants(code) # {} => Stage(code) = "granted"
           /\ (minted[code] # None /\ ~Live(code) /\ ~Redeemed(code) /\ Grants(code) = {})
                 => Stage(code) = "void"
<1>1. /\ Live(code) => minted[code] # None /\ ~Redeemed(code) /\ Grants(code) = {}
      /\ Redeemed(code) => minted[code] # None /\ Grants(code) = {}
      /\ Grants(code) # {} => minted[code] # None
  BY StageFacts
<1>2. CASE minted[code] = None
  BY <1>1, <1>2 DEF Stage, Redeemed
<1>3. CASE Live(code)
  BY <1>1, <1>3 DEF Stage, Redeemed
<1>4. CASE Redeemed(code)
  BY <1>1, <1>4 DEF Stage, Redeemed
<1>5. CASE Grants(code) # {}
  BY <1>1, <1>5 DEF Stage, Redeemed
<1>6. CASE minted[code] # None /\ ~Live(code) /\ ~Redeemed(code) /\ Grants(code) = {}
  BY <1>6 DEF Stage, Redeemed
<1> QED  BY <1>2, <1>3, <1>4, <1>5, <1>6

LEMMA StageCasesNext ==
    ASSUME CodeInvariant', NEW code \in Codes
    PROVE  /\ minted'[code] = None => Stage(code)' = "fresh"
           /\ Live(code)' => Stage(code)' = "live"
           /\ Redeemed(code)' => Stage(code)' = "spent"
           /\ Grants(code)' # {} => Stage(code)' = "granted"
           /\ (minted'[code] # None /\ ~Live(code)' /\ ~Redeemed(code)' /\ Grants(code)' = {})
                 => Stage(code)' = "void"
<1>1. /\ Live(code)' => minted'[code] # None /\ ~Redeemed(code)' /\ Grants(code)' = {}
      /\ Redeemed(code)' => minted'[code] # None /\ Grants(code)' = {}
      /\ Grants(code)' # {} => minted'[code] # None
  BY StageFactsNext
<1>2. CASE minted'[code] = None
  BY <1>1, <1>2 DEF Stage, Redeemed
<1>3. CASE Live(code)'
  BY <1>1, <1>3 DEF Stage, Redeemed
<1>4. CASE Redeemed(code)'
  BY <1>1, <1>4 DEF Stage, Redeemed
<1>5. CASE Grants(code)' # {}
  BY <1>1, <1>5 DEF Stage, Redeemed
<1>6. CASE minted'[code] # None /\ ~Live(code)' /\ ~Redeemed(code)' /\ Grants(code)' = {}
  BY <1>6 DEF Stage, Redeemed
<1> QED  BY <1>2, <1>3, <1>4, <1>5, <1>6

LEMMA SameStage ==
    ASSUME CodeInvariant, CodeInvariant', NEW code \in Codes, minted'[code] = minted[code],
           Live(code)' <=> Live(code), Redeemed(code)' <=> Redeemed(code),
           Grants(code)' = Grants(code)
    PROVE  Stage(code)' = Stage(code)
  BY StageCases, StageCasesNext

stageMap == [code \in Codes |-> Stage(code)]
bindingMap == [code \in Codes |->
                 IF minted[code] = None THEN None
                 ELSE SignIn(minted[code].user, minted[code].auth)]
grantedSet == {<<r.source, SignIn(r.user, r)>> :
                 r \in {x \in responses : x.grant = "authorization_code"}}

LEMMA Stutter ==
    ASSUME \A code \in Codes : Stage(code)' = Stage(code),
           UNCHANGED minted, grantedSet' = grantedSet
    PROVE  UNCHANGED Abstract!vars
<1>1. stageMap' = stageMap  BY DEF stageMap
<1>2. bindingMap' = bindingMap  BY DEF bindingMap
<1> QED  BY <1>1, <1>2 DEF Abstract!vars, stageMap, bindingMap, grantedSet

-----------------------------------------------------------------------------
(* The steps of the server, one lemma per abstract action.                 *)

(* Most steps are none of the abstract grant.                              *)
LEMMA Unmoved ==
    ASSUME CodeInvariant, CodeInvariant', UNCHANGED <<authCodes, minted, now>>,
           \A code \in Codes : Redeemed(code)' <=> Redeemed(code),
           \A r : r.grant = "authorization_code" => (r \in responses' <=> r \in responses)
    PROVE  UNCHANGED Abstract!vars
<1>1. grantedSet' = grantedSet
  BY DEF grantedSet
<1>2. ASSUME NEW code \in Codes
      PROVE  Stage(code)' = Stage(code)
  <2>1. Live(code)' <=> Live(code)
    BY DEF Live
  <2>2. Grants(code)' = Grants(code)
    BY DEF Grants
  <2> QED  BY <2>1, <2>2, SameStage
<1> QED  BY <1>1, <1>2, Stutter

LEMMA MintStep ==
    ASSUME TypeOK, CodeInvariant, CodeInvariant', NEW new \in Codes,
           NEW auth \in PendingAuthorization, NEW user \in Users,
           issueAuthCode(new, auth, user), UNCHANGED <<conns, responses, now>>
    PROVE  Abstract!Next
<1>1. /\ minted[new] = None
      /\ \A code \in Codes \ {new} :
            minted'[code] = minted[code] /\ authCodes'[code] = authCodes[code]
  BY DEF issueAuthCode, TypeOK
<1> DEFINE record == [auth |-> auth, user |-> user,
                      expiresAt |-> now + CodeLife, used |-> FALSE]
<1>2. minted'[new] = record /\ authCodes'[new] = record
  BY DEF issueAuthCode, TypeOK
<1>3. now \in Nat /\ now + CodeLife \in Nat /\ now + CodeLife >= now
  BY LifetimeAssumption DEF TypeOK
<1>4. record \in AuthCodeRecord
  BY <1>3 DEF AuthCodeRecord
<1>5. /\ record.auth = auth
      /\ record.user = user
      /\ record.used = FALSE
      /\ record.expiresAt = now + CodeLife
  OBVIOUS
<1> HIDE DEF record
<1>6. record # None
  BY <1>4, NoneAssumption
<1>7. Live(new)'
  BY <1>2, <1>3, <1>5, <1>6 DEF Live
<1>8. Stage(new) = "fresh" /\ Stage(new)' = "live"
  BY <1>1, <1>7, StageCases, StageCasesNext
<1>9. ASSUME NEW code \in Codes \ {new}
      PROVE  Stage(code)' = Stage(code)
  <2>1. Live(code)' <=> Live(code)
    BY <1>1 DEF Live
  <2>2. Redeemed(code)' <=> Redeemed(code)
    BY DEF Redeemed, Redeeming, Free
  <2>3. Grants(code)' = Grants(code)
    BY DEF Grants
  <2> QED  BY <1>1, <2>1, <2>2, <2>3, SameStage
<1>10. stageMap[new] = "fresh" /\ stageMap' = [stageMap EXCEPT ![new] = "live"]
  BY <1>8, <1>9 DEF stageMap
<1>11. bindingMap' = [bindingMap EXCEPT ![new] = SignIn(user, auth)]
  BY <1>1, <1>2, <1>5, <1>6 DEF bindingMap
<1>12. grantedSet' = grantedSet
  BY DEF grantedSet
<1>13. SignIn(user, auth) \in
          [user : Users, clientId : Clients, scope : Scopes, nonce : Optional(Nonces)]
  BY DEF SignIn, PendingAuthorization
<1>14. Abstract!Mint(new, SignIn(user, auth))
  BY <1>10, <1>11, <1>12 DEF Abstract!Mint, stageMap, bindingMap, grantedSet
<1> QED  BY <1>13, <1>14 DEF Abstract!Next

LEMMA SpendStep ==
    ASSUME TypeOK, CodeInvariant, CodeInvariant', NEW c \in Conns, NEW code \in Codes,
           NEW uri, NEW clientId, NEW verifier, CodeRedeemed(c, code, uri, clientId, verifier)
    PROVE  Abstract!Next
<1>1. /\ Free(c)
      /\ authCodes[code] # None /\ ~authCodes[code].used
      /\ ~(authCodes[code].expiresAt < now)
      /\ UNCHANGED <<minted, responses, now>>
  BY DEF CodeRedeemed, CodeAcceptable, CodeExpired, history
<1>2. authCodes[code] \in AuthCodeRecord
  BY <1>1 DEF TypeOK
<1>3. Live(code)
  <2>1. authCodes[code].expiresAt \in Nat /\ now \in Nat
    BY <1>2 DEF AuthCodeRecord, TypeOK
  <2> QED  BY <1>1, <2>1 DEF Live
<1>4. /\ conns'[c].phase = "sign id"
      /\ conns'[c].grant = "authorization_code"
      /\ conns'[c].source = code
      /\ \A d \in Conns \ {c} : conns'[d] = conns[d]
  BY DEF CodeRedeemed, TypeOK
<1>5. Redeemed(code)'
  BY <1>4 DEF Redeemed, Redeeming, Free
<1>6. Stage(code) = "live" /\ Stage(code)' = "spent"
  BY <1>3, <1>5, StageCases, StageCasesNext
<1>7. ASSUME NEW other \in Codes \ {code}
      PROVE  Stage(other)' = Stage(other)
  <2>1. Live(other)' <=> Live(other)
    <3>1. authCodes'[other] = authCodes[other]
      BY DEF CodeRedeemed, Spend, TypeOK
    <3> QED  BY <1>1, <3>1 DEF Live
  <2>2. \A d \in Conns : Redeeming(d, other)' <=> Redeeming(d, other)
    BY <1>1, <1>4 DEF Redeeming, Free
  <2>3. Redeemed(other)' <=> Redeemed(other)
    BY <2>2 DEF Redeemed
  <2>4. Grants(other)' = Grants(other)
    BY <1>1 DEF Grants
  <2> QED  BY <1>1, <2>1, <2>3, <2>4, SameStage
<1>8. stageMap[code] = "live" /\ stageMap' = [stageMap EXCEPT ![code] = "spent"]
  BY <1>6, <1>7 DEF stageMap
<1>9. bindingMap' = bindingMap /\ grantedSet' = grantedSet
  BY <1>1 DEF bindingMap, grantedSet
<1>10. Abstract!Spend(code)
  BY <1>8, <1>9 DEF Abstract!Spend, stageMap, bindingMap, grantedSet
<1> QED  BY <1>10 DEF Abstract!Next

(* Connection c, which alone redeems code, is answered.                    *)
LEMMA NoLongerRedeemed ==
    ASSUME TypeOK, CodeInvariant, NEW c \in Conns, NEW status, Answer(c, status),
           NEW code \in Codes, Redeeming(c, code)
    PROVE  /\ ~Redeemed(code)'
           /\ \A other \in Codes \ {code} : Redeemed(other)' <=> Redeemed(other)
<1>1. conns'[c].phase = "answered" /\ \A d \in Conns \ {c} : conns'[d] = conns[d]
  BY DEF Answer, TypeOK
<1>2. \A d \in Conns, o \in Codes : Redeeming(d, o)' <=> Redeeming(d, o) /\ d # c
  BY <1>1 DEF Redeeming, Free
<1>3. \A d \in Conns : Redeeming(d, code) => d = c
  BY DEF CodeInvariant, SingleUse
<1>4. \A o \in Codes : Redeeming(c, o) => o = code
  BY DEF Redeeming
<1> QED  BY <1>2, <1>3, <1>4 DEF Redeemed

LEMMA GrantStep ==
    ASSUME TypeOK, CodeInvariant, CodeInvariant', SourcesAreCodes,
           NEW c \in Conns, NEW h, CodeGrantAnswered(c, h)
    PROVE  Abstract!Next
<1>1. ~Free(c) /\ conns[c].grant = "authorization_code"
  BY DEF CodeGrantAnswered, Free
<1>2. PICK code \in Codes : code = conns[c].source
  BY <1>1 DEF SourcesAreCodes
<1>3. PICK r : r = Response(c, h)
  OBVIOUS
<1>4. /\ UNCHANGED <<authCodes, minted, now>>
      /\ responses' = responses \cup {r}
      /\ Answer(c, 200)
  BY <1>3 DEF CodeGrantAnswered
<1>5. Redeeming(c, code)
  BY <1>1, <1>2 DEF Redeeming
<1>6. r.grant = "authorization_code" /\ r.source = code
  BY <1>1, <1>2, <1>3 DEF Response
<1>7. /\ r.user = conns[c].user
      /\ r.clientId = conns[c].clientId
      /\ r.scope = conns[c].scope
      /\ r.nonce = conns[c].nonce
  BY <1>3 DEF Response
<1>8. ForSignIn(conns[c], code)
  BY <1>5 DEF CodeInvariant
<1>9. SignIn(r.user, r) = bindingMap[code]
  BY <1>5, <1>7, <1>8 DEF SignIn, bindingMap, ForSignIn
<1>10. r \in Grants(code)'
  BY <1>4, <1>6 DEF Grants
<1>11. Stage(code) = "spent" /\ Stage(code)' = "granted"
  <2>1. Redeemed(code)  BY <1>5 DEF Redeemed
  <2> QED  BY <1>5, <1>10, <2>1, StageCases, StageCasesNext
<1>12. ASSUME NEW other \in Codes \ {code}
      PROVE  Stage(other)' = Stage(other)
  <2>1. Live(other)' <=> Live(other)
    BY <1>4 DEF Live
  <2>2. Redeemed(other)' <=> Redeemed(other)
    BY <1>4, <1>5, NoLongerRedeemed
  <2>3. Grants(other)' = Grants(other)
    BY <1>4, <1>6 DEF Grants
  <2> QED  BY <1>4, <2>1, <2>2, <2>3, SameStage
<1>13. stageMap[code] = "spent" /\ stageMap' = [stageMap EXCEPT ![code] = "granted"]
  BY <1>5, <1>11, <1>12 DEF stageMap
<1>14. bindingMap' = bindingMap
  BY <1>4 DEF bindingMap
<1>15. grantedSet' = grantedSet \cup {<<code, bindingMap[code]>>}
  BY <1>4, <1>6, <1>9 DEF grantedSet
<1>16. Abstract!Grant(code)
  BY <1>13, <1>14, <1>15 DEF Abstract!Grant, stageMap, bindingMap, grantedSet
<1> QED  BY <1>5, <1>16 DEF Abstract!Next

(* Codes that are lost: void, where they were live or spent.               *)
LEMMA LoseStep ==
    ASSUME NEW lost \in SUBSET Codes,
           \A code \in lost : Stage(code) \in {"live", "spent"} /\ Stage(code)' = "void",
           \A code \in Codes \ lost : Stage(code)' = Stage(code),
           UNCHANGED <<minted, responses>>
    PROVE  Abstract!Next
<1>1. \A code \in lost : stageMap[code] \in {"live", "spent"}
  BY DEF stageMap
<1>2. stageMap' = [code \in Codes |-> IF code \in lost THEN "void" ELSE stageMap[code]]
  BY DEF stageMap
<1>3. bindingMap' = bindingMap /\ grantedSet' = grantedSet
  BY DEF bindingMap, grantedSet
<1>4. Abstract!Lose(lost)
  BY <1>1, <1>2, <1>3 DEF Abstract!Lose, stageMap, bindingMap, grantedSet
<1> QED  BY <1>4 DEF Abstract!Next

(* A code whose signature fails is lost.                                   *)
LEMMA FailureStep ==
    ASSUME TypeOK, CodeInvariant, CodeInvariant', SourcesAreCodes,
           NEW c \in Conns, SigningFails(c), conns[c].grant = "authorization_code"
    PROVE  Abstract!Next
<1>1. ~Free(c) /\ Answer(c, 500) /\ UNCHANGED <<authCodes, minted, now, responses>>
  BY DEF SigningFails, server, history
<1>2. PICK code \in Codes : Redeeming(c, code)
  BY <1>1 DEF SourcesAreCodes, Redeeming
<1>3. /\ ~Redeemed(code)'
      /\ \A other \in Codes \ {code} : Redeemed(other)' <=> Redeemed(other)
  BY <1>1, <1>2, NoLongerRedeemed
<1>4. \A o \in Codes : (Live(o)' <=> Live(o)) /\ Grants(o)' = Grants(o)
  BY <1>1 DEF Live, Grants
<1>5. Redeemed(code)
  BY <1>2 DEF Redeemed
<1>6. Stage(code) = "spent" /\ Stage(code)' = "void"
  BY <1>1, <1>2, <1>3, <1>4, <1>5, StageFacts, StageCases, StageCasesNext
<1>7. \A other \in Codes \ {code} : Stage(other)' = Stage(other)
  BY <1>1, <1>3, <1>4, SameStage
<1> QED  BY <1>1, <1>2, <1>6, <1>7, LoseStep

(* Codes expire by the clock.                                              *)
LEMMA TickStep ==
    ASSUME TypeOK, CodeInvariant, CodeInvariant', Tick
    PROVE  Abstract!Next
<1> DEFINE lost == {code \in Codes : Live(code) /\ ~Live(code)'}
<1>1. UNCHANGED <<authCodes, minted, conns, responses>>
  BY DEF Tick, server, history
<1>2. \A code \in Codes : (Redeemed(code)' <=> Redeemed(code)) /\ Grants(code)' = Grants(code)
  BY <1>1 DEF Redeemed, Redeeming, Free, Grants
<1>3. ASSUME NEW code \in Codes, Live(code)'
      PROVE  Live(code)
  <2>1. authCodes[code] \in AuthCodeRecord /\ ~authCodes[code].used
        /\ authCodes[code].expiresAt >= now'
    BY <1>1, <1>3 DEF Live, TypeOK
  <2>2. authCodes[code].expiresAt \in Nat /\ now \in Nat /\ now' = now + 1
    BY <2>1 DEF TypeOK, AuthCodeRecord, Tick
  <2>3. authCodes[code].expiresAt >= now
    BY <2>1, <2>2
  <2> QED  BY <1>1, <1>3, <2>1, <2>3 DEF Live
<1>4. \A code \in lost : Stage(code) \in {"live", "spent"} /\ Stage(code)' = "void"
  BY <1>1, <1>2, StageFacts, StageCases, StageCasesNext
<1>5. \A code \in Codes \ lost : Stage(code)' = Stage(code)
  BY <1>1, <1>2, <1>3, SameStage
<1>6. lost \in SUBSET Codes
  OBVIOUS
<1> HIDE DEF lost
<1> QED  BY <1>1, <1>4, <1>5, <1>6, LoseStep

(* A restart loses every code that has not yielded its tokens.             *)
LEMMA RestartStep ==
    ASSUME TypeOK, CodeInvariant, CodeInvariant', Restart
    PROVE  Abstract!Next
<1> DEFINE lost == {code \in Codes : Live(code) \/ Redeemed(code)}
<1>1. UNCHANGED <<minted, responses>>
  BY DEF Restart, history
<1>2. ASSUME NEW code \in Codes
      PROVE  ~Live(code)' /\ ~Redeemed(code)' /\ Grants(code)' = Grants(code)
  <2>1. authCodes'[code] = None /\ \A c \in Conns : conns'[c].phase = "idle"
    BY DEF Restart, Idle
  <2> QED  BY <1>1, <2>1 DEF Live, Redeemed, Redeeming, Free, Grants
<1>3. \A code \in lost : Stage(code) \in {"live", "spent"} /\ Stage(code)' = "void"
  BY <1>1, <1>2, StageFacts, StageCases, StageCasesNext
<1>4. \A code \in Codes \ lost : Stage(code)' = Stage(code)
  BY <1>1, <1>2, SameStage
<1>5. lost \in SUBSET Codes
  OBVIOUS
<1> HIDE DEF lost
<1> QED  BY <1>1, <1>3, <1>4, <1>5, LoseStep

-----------------------------------------------------------------------------
(* Every step is one of these or moves no code.                            *)

LEMMA NothingRedeemed ==
    ASSUME TypeOK, NEW c \in Conns, NEW k, conns' = [conns EXCEPT ![c] = k],
           Free(c) \/ conns[c].grant = "refresh_token",
           k.phase \in {"sign id", "sign access"} => k.grant = "refresh_token"
    PROVE  \A code \in Codes : Redeemed(code)' <=> Redeemed(code)
<1>1. conns'[c] = k /\ \A d \in Conns \ {c} : conns'[d] = conns[d]
  BY DEF TypeOK
<1>2. \A code \in Codes : ~Redeeming(c, code) /\ ~Redeeming(c, code)'
  BY <1>1 DEF Redeeming, Free
<1>3. \A d \in Conns \ {c}, code \in Codes : Redeeming(d, code)' <=> Redeeming(d, code)
  BY <1>1 DEF Redeeming, Free
<1> QED  BY <1>2, <1>3 DEF Redeemed

LEMMA BrowserStep ==
    ASSUME TypeOK, CodeInvariant, CodeInvariant', BrowserNext
    PROVE  Abstract!Next \/ UNCHANGED Abstract!vars
<1>1. UNCHANGED <<conns, responses, now>>
  BY BrowserFrame
<1>2. PICK b \in Browsers :
         \/ \E q \in AuthorizeParams :
               \/ AuthorizeRefused(b, q)
               \/ AuthorizeLoginForm(b, q)
               \/ \E code \in Codes : AuthorizeWithSession(b, q, code)
         \/ LoginRefused(b)
         \/ \E form \in HandMade \cup Shown(b) :
               \/ LoginWithoutRequest(b, form)
               \/ \E user \in Users, code \in Codes : LoginAccepted(b, form, user, code)
         \/ \E clientId \in Optional(Clients), target \in Optional(Uris) :
               \/ LogoutRedirect(b, clientId, target)
               \/ LogoutWithHint(b, clientId, target)
               \/ LogoutPage(b, clientId, target)
  BY DEF BrowserNext
<1>3. CASE \E q \in AuthorizeParams, code \in Codes : AuthorizeWithSession(b, q, code)
  <2>1. PICK q \in AuthorizeParams, code \in Codes : AuthorizeWithSession(b, q, code)  BY <1>3
  <2>2. Pending(q) \in PendingAuthorization  BY <2>1, PendingType DEF AuthorizeWithSession
  <2> QED  BY <1>1, <2>1, <2>2, MintStep DEF AuthorizeWithSession
<1>4. CASE \E form \in HandMade \cup Shown(b), user \in Users, code \in Codes :
              LoginAccepted(b, form, user, code)
  <2>1. PICK form \in HandMade \cup Shown(b), user \in Users, code \in Codes :
             LoginAccepted(b, form, user, code)
    BY <1>4
  <2>2. Pending(form) \in PendingAuthorization
    BY <2>1, FormType, FormPendingType DEF LoginAccepted
  <2> QED  BY <1>1, <2>1, <2>2, MintStep DEF LoginAccepted
<1>5. CASE UNCHANGED <<authCodes, minted>>
  <2>1. \A code \in Codes : Redeemed(code)' <=> Redeemed(code)
    BY <1>1 DEF Redeemed, Redeeming, Free
  <2> QED  BY <1>1, <1>5, <2>1, Unmoved
<1>6. CASE \/ \E q \in AuthorizeParams : AuthorizeRefused(b, q) \/ AuthorizeLoginForm(b, q)
           \/ LoginRefused(b)
           \/ \E form \in HandMade \cup Shown(b) : LoginWithoutRequest(b, form)
           \/ \E clientId \in Optional(Clients), target \in Optional(Uris) :
                 \/ LogoutRedirect(b, clientId, target)
                 \/ LogoutWithHint(b, clientId, target)
                 \/ LogoutPage(b, clientId, target)
  BY <1>5, <1>6
     DEF AuthorizeRefused, AuthorizeLoginForm, LoginRefused, LoginWithoutRequest,
         LogoutRedirect, LogoutWithHint, LogoutPage, server, history
<1> QED  BY <1>2, <1>3, <1>4, <1>6

LEMMA ClientStep ==
    ASSUME TypeOK, CodeInvariant, CodeInvariant', ClientNext
    PROVE  Abstract!Next \/ UNCHANGED Abstract!vars
<1>1. PICK c \in Conns :
         \/ UnsupportedGrant(c)
         \/ \E code \in Codes, uri \in Optional(Uris),
               clientId \in Optional(Clients), verifier \in Optional(Verifiers) :
               \/ CodeRefused(c, code, uri, clientId, verifier)
               \/ CodeRedeemed(c, code, uri, clientId, verifier)
         \/ \E h \in Handles : RefreshRefused(c, h) \/ RefreshRedeemed(c, h)
         \/ \E r \in responses, life \in {IdLife, AccessLife} : UserinfoAnswered(c, r, life)
         \/ UserinfoRefused(c)
  BY DEF ClientNext
<1>2. CASE \E code \in Codes, uri \in Optional(Uris),
              clientId \in Optional(Clients), verifier \in Optional(Verifiers) :
              CodeRedeemed(c, code, uri, clientId, verifier)
  BY <1>2, SpendStep
<1>3. CASE /\ Free(c)
           /\ UNCHANGED <<authCodes, minted, now, responses>>
           /\ \E k : /\ conns' = [conns EXCEPT ![c] = k]
                     /\ k.phase \in {"sign id", "sign access"} => k.grant = "refresh_token"
  BY <1>3, NothingRedeemed, Unmoved
<1>4. CASE \/ UnsupportedGrant(c)
           \/ \E code \in Codes, uri \in Optional(Uris),
                 clientId \in Optional(Clients), verifier \in Optional(Verifiers) :
                 CodeRefused(c, code, uri, clientId, verifier)
           \/ \E h \in Handles : RefreshRefused(c, h)
           \/ UserinfoRefused(c)
  <2>1. Free(c) /\ UNCHANGED <<authCodes, minted, now, responses>>
    BY <1>4 DEF UnsupportedGrant, CodeRefused, RefreshRefused, UserinfoRefused,
                server, history
  <2>2. PICK status : Answer(c, status)
    BY <1>4 DEF UnsupportedGrant, CodeRefused, RefreshRefused, UserinfoRefused
  <2> DEFINE k == [phase |-> "answered", status |-> status]
  <2>3. conns' = [conns EXCEPT ![c] = k] /\ k.phase = "answered"
    BY <2>2 DEF Answer
  <2> HIDE DEF k
  <2> QED  BY <1>3, <2>1, <2>3
<1>5. CASE \E h \in Handles : RefreshRedeemed(c, h)
  <2>1. PICK h \in Handles : RefreshRedeemed(c, h)  BY <1>5
  <2> DEFINE k ==
           [phase |-> "sign id", grant |-> "refresh_token", source |-> h,
            user |-> refreshTokens[h].user, clientId |-> refreshTokens[h].clientId,
            scope |-> refreshTokens[h].scope, nonce |-> Absent, iat |-> now]
  <2>2. conns' = [conns EXCEPT ![c] = k] /\ k.grant = "refresh_token"
    BY <2>1 DEF RefreshRedeemed
  <2>3. Free(c) /\ UNCHANGED <<authCodes, minted, now, responses>>
    BY <2>1 DEF RefreshRedeemed, server, history
  <2> HIDE DEF k
  <2> QED  BY <1>3, <2>2, <2>3
<1>6. CASE \E r \in responses, life \in {IdLife, AccessLife} : UserinfoAnswered(c, r, life)
  <2>1. PICK r \in responses, life \in {IdLife, AccessLife} : UserinfoAnswered(c, r, life)
    BY <1>6
  <2> DEFINE k == [phase |-> "identity", bearer |-> r.user,
                   sub |-> IF SubClaim[r.user] = Absent THEN r.user ELSE SubClaim[r.user]]
  <2>2. conns' = [conns EXCEPT ![c] = k] /\ k.phase = "identity"
    BY <2>1 DEF UserinfoAnswered
  <2>3. Free(c) /\ UNCHANGED <<authCodes, minted, now, responses>>
    BY <2>1 DEF UserinfoAnswered, server, history
  <2> HIDE DEF k
  <2> QED  BY <1>3, <2>2, <2>3
<1> QED  BY <1>1, <1>2, <1>4, <1>5, <1>6

LEMMA SignatureStep ==
    ASSUME TypeOK, CodeInvariant, CodeInvariant', SourcesAreCodes,
           NEW c \in Conns, SigningStep(c)
    PROVE  Abstract!Next \/ UNCHANGED Abstract!vars
<1>1. CASE IdTokenSigned(c)
  <2> DEFINE k == [conns[c] EXCEPT !.phase = "sign access"]
  <2>1. conns[c] \in Signing /\ ~Free(c)
    BY <1>1, InFlight DEF IdTokenSigned, Free
  <2>2. /\ conns' = [conns EXCEPT ![c] = k]
        /\ UNCHANGED <<authCodes, minted, now, responses>>
    BY <1>1 DEF IdTokenSigned, server, history
  <2>3. k.phase = "sign access" /\ k.grant = conns[c].grant /\ k.source = conns[c].source
    BY <2>1 DEF Signing
  <2> HIDE DEF k
  <2>4. conns'[c] = k /\ \A d \in Conns \ {c} : conns'[d] = conns[d]
    BY <2>2 DEF TypeOK
  <2>5. \A d \in Conns, code \in Codes : Redeeming(d, code)' <=> Redeeming(d, code)
    BY <2>1, <2>3, <2>4 DEF Redeeming, Free
  <2>6. \A code \in Codes : Redeemed(code)' <=> Redeemed(code)
    BY <2>5 DEF Redeemed
  <2> QED  BY <2>2, <2>6, Unmoved
<1>2. CASE \E h \in Handles : CodeGrantAnswered(c, h)
  BY <1>2, GrantStep
<1>3. CASE RefreshGrantAnswered(c)
  <2>1. PICK r : r = Response(c, Absent)
    OBVIOUS
  <2>2. /\ r.grant = "refresh_token" /\ conns[c].grant = "refresh_token"
        /\ responses' = responses \cup {r}
        /\ Answer(c, 200)
        /\ UNCHANGED <<authCodes, minted, now>>
    BY <1>3, <2>1 DEF RefreshGrantAnswered, Response, server
  <2>3. \A code \in Codes : Redeemed(code)' <=> Redeemed(code)
    BY <2>2, NothingRedeemed DEF Answer
  <2> QED  BY <2>2, <2>3, Unmoved
<1>4. CASE SigningFails(c) /\ conns[c].grant = "authorization_code"
  BY <1>4, FailureStep
<1>5. CASE SigningFails(c) /\ conns[c].grant # "authorization_code"
  <2>1. conns[c].grant = "refresh_token"
    BY <1>5, InFlight DEF SigningFails, Signing
  <2>2. Answer(c, 500) /\ UNCHANGED <<authCodes, minted, now, responses>>
    BY <1>5 DEF SigningFails, server, history
  <2>3. \A code \in Codes : Redeemed(code)' <=> Redeemed(code)
    BY <2>1, <2>2, NothingRedeemed DEF Answer
  <2> QED  BY <2>2, <2>3, Unmoved
<1> QED  BY <1>1, <1>2, <1>3, <1>4, <1>5 DEF SigningStep

LEMMA StepSimulation ==
    ASSUME TypeOK, CodeInvariant, CodeInvariant', SourcesAreCodes, [Next]_vars
    PROVE  Abstract!Next \/ UNCHANGED Abstract!vars
<1>1. CASE BrowserNext  BY <1>1, BrowserStep
<1>2. CASE ClientNext   BY <1>2, ClientStep
<1>3. CASE \E c \in Conns : SigningStep(c)  BY <1>3, SignatureStep
<1>4. CASE Tick  BY <1>4, TickStep
<1>5. CASE Restart  BY <1>5, RestartStep
<1>6. CASE UNCHANGED vars
  <2>1. UNCHANGED <<authCodes, minted, now, conns, responses>>
    BY <1>6 DEF vars, server, history
  <2>2. \A code \in Codes : Redeemed(code)' <=> Redeemed(code)
    BY <2>1 DEF Redeemed, Redeeming, Free
  <2> QED  BY <2>1, <2>2, Unmoved
<1> QED  BY <1>1, <1>2, <1>3, <1>4, <1>5, <1>6 DEF Next

LEMMA InitSimulation == Init => Abstract!Init
<1> SUFFICES ASSUME Init PROVE Abstract!Init
  OBVIOUS
<1>1. \A code \in Codes : minted[code] = None
  BY DEF Init
<1>2. stageMap = [code \in Codes |-> "fresh"]
  BY <1>1, CodeInvariantInit, StageCases DEF stageMap
<1>3. bindingMap = [code \in Codes |-> None]
  BY <1>1 DEF bindingMap
<1>4. grantedSet = {}
  BY DEF Init, grantedSet
<1> QED  BY <1>2, <1>3, <1>4 DEF Abstract!Init, stageMap, bindingMap, grantedSet

(* Every step of the server is one of the abstract code grant or none of   *)
(* its business: codes go from live to spent to granted or void and never  *)
(* back, and tokens are delivered for the sign-in that the code was minted *)
(* for, with any number of codes and connections in flight, expiries,      *)
(* failed signatures and restarts (server.ts:188-198, 414-460).            *)
THEOREM ServerImplementsCodeGrant == Spec => Abstract!Safety
<1>1. Init => Abstract!Init
  BY InitSimulation
<1>2. TypeOK /\ CodeInvariant /\ CodeInvariant' /\ SourcesAreCodes /\ [Next]_vars =>
         [Abstract!Next]_(Abstract!vars)
  BY StepSimulation
<1>3. Spec => []SourcesAreCodes
  BY SourcesInit, SourcesStep, TypeCorrect, PTL DEF Spec
<1> QED  BY <1>1, <1>2, <1>3, TypeCorrect, CodeInvariantHolds, PTL DEF Spec, Abstract!Safety
=============================================================================
