-------------------------- MODULE MigrationProofs ---------------------------
(***************************************************************************)
(* Theorems about Migration, for every set of config files, orders of URLs *)
(* and further documents: the risks of migrate agree with its changes, and *)
(* the pool that the construct makes is read back as what the file asks    *)
(* for, so that a replacement is foretold.                                 *)
(***************************************************************************)
EXTENDS Migration, FiniteSetTheorems, TLAPS

-----------------------------------------------------------------------------
(* Risks and changes.                                                      *)

(* Each critical risk compares what one of the fields it is about reads.   *)
LEMMA RisksCompareFields ==
    ASSUME NEW from, NEW to, NEW path \in CriticalRisks(from, to)
    PROVE  Changes(from, to) \cap High \cap About(path) # {}
<1>1. CASE path = "requiredAttributes"
  <2>1. get(from.pool, path) # get(to.pool, path)
    BY <1>1 DEF CriticalRisks, get
  <2> QED
    BY <1>1, <2>1 DEF Changes, FIELDS, High, About
<1>2. CASE path = "customAttributes"
  <2>1. CustomNames(from.pool) \ CustomNames(to.pool) # {}
    BY <1>2 DEF CriticalRisks
  <2>2. get(from.pool, path) # get(to.pool, path)
    BY <1>2, <2>1 DEF get
  <2> QED
    BY <1>2, <2>2 DEF Changes, FIELDS, High, About
<1>3. CASE path = "signIn"
  <2>1. \E field \in {"email", "username"} : get(from.pool, field) # get(to.pool, field)
    BY <1>3 DEF CriticalRisks, SignInChanged, get
  <2> QED
    BY <1>3, <2>1 DEF Changes, FIELDS, High, About
<1>4. CASE path = "caseSensitive"
  <2>1. get(from.pool, path) # get(to.pool, path)
    BY <1>4 DEF CriticalRisks, get
  <2> QED
    BY <1>4, <2>1 DEF Changes, FIELDS, High, About
<1> QED
  BY <1>1, <1>2, <1>3, <1>4 DEF CriticalRisks

(* What makes migrate exit 1 is always shown as a change of high impact,   *)
(* whatever documents it is given.                                         *)
THEOREM RisksAreShown == Spec => []CriticalRisksAreChanges
<1>1. Init => CriticalRisksAreChanges
  BY DEF Init, CriticalRisksAreChanges
<1>2. CriticalRisksAreChanges /\ [Next]_vars => CriticalRisksAreChanges'
  <2> SUFFICES ASSUME CriticalRisksAreChanges, [Next]_vars
               PROVE  CriticalRisksAreChanges'
    OBVIOUS
  <2>1. CASE last' = None \/ last' = last
    BY <2>1 DEF CriticalRisksAreChanges
  <2>2. ASSUME NEW from, NEW to, Migrates(from, to)
        PROVE  CriticalRisksAreChanges'
    <3>1. /\ last'.analysis.critical = CriticalRisks(from, to)
          /\ last'.analysis.changes = Changes(from, to)
      BY <2>2 DEF Migrates, analyzeMigration
    <3> QED
      BY <3>1, RisksCompareFields DEF CriticalRisksAreChanges
  <2>3. CASE MigrateFails
    <3>1. "analysis" \notin DOMAIN last'
      BY <2>3 DEF MigrateFails
    <3> QED
      BY <3>1 DEF CriticalRisksAreChanges
  <2> QED
    BY <2>1, <2>2, <2>3 DEF Next, vars, Edit, Deploy
<1> QED
  BY <1>1, <1>2, PTL DEF Spec

-----------------------------------------------------------------------------
(* The construct and its document.                                         *)

(* A default that was filled in is not filled in again.                    *)
LEMMA DefaultsSettle ==
    ASSUME NEW value, NEW default
    PROVE  OrElse(OrElse(value, default), default) = OrElse(value, default)
BY DEF OrElse

(* What the two sides of the AWS adapter say of the construct's pool, field *)
(* by field: first the fields of the pool ...                              *)
LEMMA PoolReadBack ==
    ASSUME NEW c, NEW p, p = ConfigDocument(c).pool, p.email \in BOOLEAN,
           NEW d, d = PoolDocument(CognitoKitAuth(c)).pool
    PROVE  /\ d.email = p.email /\ d.username = p.username /\ d.phone = p.phone
           /\ d.caseSensitive = p.caseSensitive
           /\ d.verification = p.verification /\ d.mfa = p.mfa
           /\ p.requiredAttributes = {"email"} /\ d.requiredAttributes = {"email", "sub"}
           /\ p.customAttributes = {} /\ d.customAttributes = {}
           /\ d.recovery = p.recovery /\ d.recoveryEnabled = p.recoveryEnabled
           /\ d.deletionProtection = p.deletionProtection
           /\ d.identity = p.identity /\ d.storesProfileData = p.storesProfileData
<1> DEFINE u == DeployedPool(p)
<1>1. /\ p.username = ~p.email /\ p.phone = FALSE /\ p.caseSensitive = FALSE
      /\ p.verification = IF p.email THEN "required" ELSE "optional"
      /\ p.mfa = "OFF" /\ p.requiredAttributes = {"email"} /\ p.customAttributes = {}
      /\ p.recovery = {"email"} /\ p.recoveryEnabled = TRUE /\ p.deletionProtection = TRUE
      /\ p.identity = "cognito_sub" /\ p.storesProfileData = FALSE
  BY DEF ConfigDocument, normalizeConfig
<1>2. /\ u.aliasAttributes = Absent
      /\ u.usernameAttributes = IF p.email THEN {"email"} ELSE Absent
      /\ u.caseSensitive = FALSE /\ u.schema = Attributes
      /\ u.requiredAttributes = {"email", "sub"} /\ u.customAttributes = {}
      /\ u.autoVerified = IF p.email THEN {"email"} ELSE {}
      /\ u.mfa = "OFF" /\ u.recovery = {"email"} /\ u.deletionProtection = TRUE
  BY <1>1 DEF DeployedPool, AutoVerified
<1>3. d = toNormalizedPool(u, DeployedClient(p))
  BY DEF PoolDocument, CognitoKitAuth, ConfigDocument
<1> HIDE DEF u
<1>4. /\ d.email = ("email" \in OrElse(u.aliasAttributes, OrElse(u.usernameAttributes, {})))
      /\ d.username = ~("email" \in OrElse(u.aliasAttributes, OrElse(u.usernameAttributes, {})))
      /\ d.phone = ("phone_number" \in OrElse(u.usernameAttributes, {}))
      /\ d.caseSensitive = OrElse(u.caseSensitive, TRUE)
      /\ d.mfa = OrElse(u.mfa, "OFF")
      /\ d.requiredAttributes = u.requiredAttributes /\ d.customAttributes = u.customAttributes
      /\ d.recovery = u.recovery /\ d.recoveryEnabled = (u.recovery # {})
      /\ d.deletionProtection = u.deletionProtection
      /\ d.identity = "cognito_sub" /\ d.storesProfileData = (u.customAttributes # {})
  BY <1>3 DEF toNormalizedPool
<1>5. /\ "email" \in u.autoVerified => d.verification = "required"
      /\ "email" \notin u.autoVerified /\ "email" \in u.schema => d.verification = "optional"
  <2>1. d.verification = CASE "email" \in u.autoVerified -> "required"
                           [] "email" \notin u.autoVerified /\ "email" \in u.schema -> "optional"
                           [] OTHER -> "disabled"
    BY <1>3 DEF toNormalizedPool
  <2> QED
    BY <2>1
<1>6. {"email"} # Absent /\ FALSE # Absent
  BY MigrationAssumption DEF Attributes
<1>7. OrElse(u.usernameAttributes, {}) = IF p.email THEN {"email"} ELSE {}
  BY <1>2, <1>6 DEF OrElse
<1>8. /\ d.email = p.email /\ d.username = p.username
  BY <1>1, <1>2, <1>4, <1>7 DEF OrElse
<1>9. d.phone = p.phone /\ d.caseSensitive = p.caseSensitive /\ d.mfa = p.mfa
  <2>1. "phone_number" \notin OrElse(u.usernameAttributes, {})
    BY <1>7
  <2>2. ("phone_number" \in OrElse(u.usernameAttributes, {})) = FALSE
    BY <2>1
  <2>4. d.phone = FALSE
    BY <1>4, <2>2, Zenon
  <2>3. OrElse(u.caseSensitive, TRUE) = FALSE /\ OrElse(u.mfa, "OFF") = "OFF"
    BY <1>2, <1>6 DEF OrElse
  <2> QED
    BY <1>1, <1>4, <2>4, <2>3
<1>10. d.verification = p.verification
  BY <1>1, <1>2, <1>5 DEF Attributes
<1> QED
  BY <1>1, <1>2, <1>4, <1>8, <1>9, <1>10

(* ... then those of the client.                                           *)
LEMMA ClientReadBack ==
    ASSUME NEW c, NEW p, p = ConfigDocument(c).pool,
           NEW d, d = PoolDocument(CognitoKitAuth(c)).pool
    PROVE  /\ d.callbackUrls = p.callbackUrls /\ d.logoutUrls = p.logoutUrls
           /\ d.codeFlow = p.codeFlow /\ d.implicitFlow = p.implicitFlow
           /\ d.clientCredentials = p.clientCredentials /\ d.userPassword = p.userPassword
           /\ d.idTokenMinutes = p.idTokenMinutes /\ d.accessTokenMinutes = p.accessTokenMinutes
<1> DEFINE w == DeployedClient(p)
<1>1. /\ p.codeFlow = TRUE /\ p.implicitFlow = FALSE /\ p.clientCredentials = FALSE
      /\ p.userPassword = FALSE
      /\ p.idTokenMinutes = OrElse(c.file.idTokenMinutes, 60)
      /\ p.accessTokenMinutes = OrElse(c.file.accessTokenMinutes, 60)
  BY DEF ConfigDocument, normalizeConfig, tokenMinutes
<1>2. /\ w.callbackUrls = p.callbackUrls /\ w.logoutUrls = p.logoutUrls
      /\ w.flows = Granted(p) /\ w.passwordAuth = FALSE
      /\ w.idTokenValidity = p.idTokenMinutes /\ w.accessTokenValidity = p.accessTokenMinutes
  BY DEF DeployedClient
<1>3. d = toNormalizedPool(DeployedPool(p), w)
  BY DEF PoolDocument, CognitoKitAuth, ConfigDocument
<1> HIDE DEF w
<1>4. /\ d.callbackUrls = w.callbackUrls /\ d.logoutUrls = w.logoutUrls
      /\ d.codeFlow = ("code" \in w.flows) /\ d.implicitFlow = ("implicit" \in w.flows)
      /\ d.clientCredentials = ("client_credentials" \in w.flows)
      /\ d.userPassword = w.passwordAuth
      /\ d.idTokenMinutes = OrElse(w.idTokenValidity, 60)
      /\ d.accessTokenMinutes = OrElse(w.accessTokenValidity, 60)
  BY <1>3 DEF toNormalizedPool, tokenMinutes
<1>5. "code" \in Granted(p) /\ "implicit" \notin Granted(p) /\ "client_credentials" \notin Granted(p)
  BY <1>1 DEF Granted
<1>6. d.idTokenMinutes = p.idTokenMinutes /\ d.accessTokenMinutes = p.accessTokenMinutes
  BY <1>1, <1>2, <1>4, DefaultsSettle
<1>7. d.codeFlow = TRUE /\ d.implicitFlow = FALSE /\ d.clientCredentials = FALSE
  <2>1. /\ ("code" \in Granted(p)) = TRUE /\ ("implicit" \in Granted(p)) = FALSE
        /\ ("client_credentials" \in Granted(p)) = FALSE
    BY <1>5
  <2> QED
    BY <1>2, <1>4, <2>1, Zenon
<1> QED
  BY <1>1, <1>2, <1>4, <1>6, <1>7

(* The sign-in mode of a config is either e-mail or not, and its client    *)
(* has a secret or not.                                                    *)
LEMMA FlagsAreBoolean ==
    ASSUME NEW c
    PROVE  /\ ConfigDocument(c).pool.email \in BOOLEAN
           /\ ConfigDocument(c).pool.generateSecret \in BOOLEAN
BY DEF ConfigDocument, normalizeConfig

(* Of a pool the construct has just made, or would make again unchanged,   *)
(* migrate reports sub, the secret of a web app, and besides them nothing  *)
(* but the unit of the refresh tokens, for every config file.              *)
THEOREM DriftIsBounded == Spec => []DriftIsKnown
<1>1. DriftIsKnown
  <2> SUFFICES ASSUME pool = CognitoKitAuth(config),
                      NEW field \in FIELDS \ {"refreshTokenDays"}
               PROVE  field \in Changes(ConfigDocument(config), PoolDocument(pool))
                      <=> \/ field = "requiredAttributes"
                          \/ field = "generateSecret" /\ ConfigDocument(config).pool.generateSecret
    BY DEF DriftIsKnown, Changes, FIELDS, High, Medium
  <2> DEFINE p == ConfigDocument(config).pool
             d == PoolDocument(CognitoKitAuth(config)).pool
  <2>1. d.generateSecret = FALSE
    BY DEF d, PoolDocument, CognitoKitAuth, DeployedClient, toNormalizedPool
  <2>2. field \in Changes(ConfigDocument(config), PoolDocument(pool)) <=> get(p, field) # get(d, field)
    BY DEF Changes
  <2>3. p.email \in BOOLEAN /\ p.generateSecret \in BOOLEAN
    BY FlagsAreBoolean
  <2> HIDE DEF p, d
  <2>4. /\ d.email = p.email /\ d.username = p.username /\ d.phone = p.phone
        /\ d.caseSensitive = p.caseSensitive
        /\ d.verification = p.verification /\ d.mfa = p.mfa
        /\ p.customAttributes = {} /\ d.customAttributes = {}
        /\ d.recovery = p.recovery
        /\ d.deletionProtection = p.deletionProtection /\ d.identity = p.identity
    BY <2>3, PoolReadBack DEF p, d
  <2>5. /\ d.callbackUrls = p.callbackUrls /\ d.logoutUrls = p.logoutUrls
        /\ d.codeFlow = p.codeFlow /\ d.implicitFlow = p.implicitFlow
        /\ d.clientCredentials = p.clientCredentials /\ d.userPassword = p.userPassword
        /\ d.idTokenMinutes = p.idTokenMinutes /\ d.accessTokenMinutes = p.accessTokenMinutes
    BY ClientReadBack DEF p, d
  <2>6. CASE field = "customAttributes"
    BY <2>2, <2>4, <2>6 DEF get, CustomNames, p
  <2>7. CASE field = "requiredAttributes"
    <3>1. p.requiredAttributes # d.requiredAttributes
      BY <2>3, PoolReadBack DEF p, d
    <3> QED
      BY <2>2, <2>7, <3>1 DEF get
  <2>8. CASE field = "generateSecret"
    <3>1. p.generateSecret # d.generateSecret <=> p.generateSecret
      BY <2>3, <2>1
    <3>2. p.generateSecret = ConfigDocument(config).pool.generateSecret
      BY DEF p
    <3> QED
      BY <2>2, <2>8, <3>1, <3>2 DEF get
  <2>9. CASE field \notin {"customAttributes", "requiredAttributes", "generateSecret"}
    <3>1. p[field] = d[field]
      BY <2>4, <2>5, <2>9 DEF FIELDS, High, Medium, Low
    <3> QED
      BY <2>2, <2>9, <3>1 DEF get
  <2> QED
    BY <2>6, <2>7, <2>8, <2>9
<1> QED
  BY <1>1, PTL DEF Spec

(* doctor says of the construct's pool what it says of the config file,    *)
(* for every config file, but for no-iac, for required-attributes where    *)
(* e-mail signs in, and for client-visibility where the client has a       *)
(* secret: these always differ.                                            *)
THEOREM DiagnosisSurvives == Spec => []DeployedDiagnosesAlike
<1>1. DeployedDiagnosesAlike
  <2> SUFFICES ASSUME pool = CognitoKitAuth(config), NEW rule \in DIAGNOSTIC_RULES
               PROVE  Status(rule, PoolDocument(pool).pool) # Status(rule, ConfigDocument(config).pool)
                      <=> \/ rule = "no-iac"
                          \/ rule = "required-attributes" /\ ConfigDocument(config).pool.email
                          \/ rule = "client-visibility" /\ ConfigDocument(config).pool.generateSecret
    BY DEF DeployedDiagnosesAlike
  <2> DEFINE p == ConfigDocument(config).pool
             d == PoolDocument(CognitoKitAuth(config)).pool
  <2>1. p.email \in BOOLEAN /\ p.generateSecret \in BOOLEAN
    BY FlagsAreBoolean
  <2>2. d.generateSecret = FALSE
    BY DEF d, PoolDocument, CognitoKitAuth, DeployedClient, toNormalizedPool
  <2>3. /\ p.username = ~p.email
        /\ p.reproducible = TRUE /\ p.provisionedBy = "cdk" /\ d.reproducible = FALSE
    BY DEF p, d, ConfigDocument, PoolDocument, normalizeConfig, toNormalizedPool
  <2> HIDE DEF p, d
  <2>4. /\ d.email = p.email /\ d.username = p.username
        /\ d.caseSensitive = p.caseSensitive /\ d.verification = p.verification
        /\ p.requiredAttributes = {"email"} /\ d.requiredAttributes = {"email", "sub"}
        /\ p.customAttributes = {} /\ d.customAttributes = {}
        /\ d.recovery = p.recovery /\ d.recoveryEnabled = p.recoveryEnabled
        /\ d.identity = p.identity /\ d.storesProfileData = p.storesProfileData
    BY <2>1, PoolReadBack DEF p, d
  <2>5. /\ d.callbackUrls = p.callbackUrls /\ d.logoutUrls = p.logoutUrls
        /\ d.implicitFlow = p.implicitFlow
        /\ d.clientCredentials = p.clientCredentials /\ d.userPassword = p.userPassword
        /\ d.idTokenMinutes = p.idTokenMinutes /\ d.accessTokenMinutes = p.accessTokenMinutes
    BY ClientReadBack DEF p, d
  <2>6. profileStorage(d) = profileStorage(p)
    <3>1. Cardinality({}) = 0 /\ Cardinality({"email"}) = 1 /\ Cardinality({"email", "sub"}) \in {1, 2}
      <4>1. Cardinality({}) = 0 /\ IsFiniteSet({"email"}) /\ Cardinality({"email"}) = 1
        BY FS_EmptySet, FS_Singleton
      <4>2. \A S, x : IsFiniteSet(S) =>
               Cardinality(S \cup {x}) = IF x \in S THEN Cardinality(S) ELSE Cardinality(S) + 1
        BY FS_AddElement
      <4>4. Cardinality({"email"} \cup {"sub"}) \in {1, 1 + 1}
        BY <4>1, <4>2
      <4>3. {"email", "sub"} = {"email"} \cup {"sub"}
        OBVIOUS
      <4> QED
        BY <4>1, <4>3, <4>4
    <3>2. /\ ~(Cardinality(d.customAttributes) + Cardinality(d.requiredAttributes) > 6)
          /\ ~(Cardinality(p.customAttributes) + Cardinality(p.requiredAttributes) > 6)
      BY <2>4, <3>1
    <3> QED
      BY <2>4, <3>2 DEF profileStorage, GoodUnless
  <2>7. /\ emailCaseSensitive(d) = emailCaseSensitive(p)
        /\ subIdentity(d) = subIdentity(p) /\ emailAsIdentity(d) = emailAsIdentity(p)
        /\ customAttributes(d) = customAttributes(p)
        /\ accountRecovery(d) = accountRecovery(p) /\ lockIn(d) = lockIn(p)
    BY <2>4 DEF emailCaseSensitive, subIdentity, emailAsIdentity, customAttributes,
       accountRecovery, lockIn
  <2>8. emailVerification(d) = emailVerification(p)
    BY <2>4 DEF emailVerification
  <2>9. /\ implicitFlow(d) = implicitFlow(p) /\ passwordFlow(d) = passwordFlow(p)
        /\ callbackUrls(d) = callbackUrls(p) /\ wildcardCallback(d) = wildcardCallback(p)
        /\ tokenDuration(d) = tokenDuration(p)
    BY <2>5 DEF implicitFlow, passwordFlow, callbackUrls, wildcardCallback, tokenDuration
  <2>10. noIac(d) = "warning" /\ noIac(p) = "good"
    BY <2>3 DEF noIac, GoodUnless
  <2>11. requiredAttributes(d) = "warning" /\ (requiredAttributes(p) = IF p.email THEN "good" ELSE "warning")
    BY <2>1, <2>4, <2>3 DEF requiredAttributes, Essentials, GoodUnless
  <2>12. clientVisibility(d) = "warning" /\ (clientVisibility(p) = IF p.generateSecret THEN "good" ELSE "warning")
    BY <2>1, <2>2 DEF clientVisibility, GoodUnless
  <2>13. Status(rule, d) # Status(rule, p)
        <=> \/ rule = "no-iac"
            \/ rule = "required-attributes" /\ p.email
            \/ rule = "client-visibility" /\ p.generateSecret
    <3>1. CASE rule = "no-iac"
      BY <2>10, <3>1 DEF Status
    <3>2. CASE rule = "required-attributes"
      BY <2>1, <2>11, <3>2 DEF Status
    <3>3. CASE rule = "client-visibility"
      BY <2>1, <2>12, <3>3 DEF Status
    <3>4. CASE rule \notin {"no-iac", "required-attributes", "client-visibility"}
      <4>1. Status(rule, d) = Status(rule, p)
        BY <2>6, <2>7, <2>8, <2>9, <3>4 DEF DIAGNOSTIC_RULES, Status
      <4> QED
        BY <3>4, <4>1
    <3> QED
      BY <3>1, <3>2, <3>3, <3>4
  <2> QED
    BY <2>13 DEF p, d
<1> QED
  BY <1>1, PTL DEF Spec

-----------------------------------------------------------------------------
(* Replacements.                                                           *)

(* What was deployed is what the construct made of some config.            *)
Made == pool = None \/ \E c : pool = CognitoKitAuth(c)

LEMMA MadeStep ==
    ASSUME Made, [Next]_vars
    PROVE  Made'
<1>1. CASE Deploy
  BY <1>1 DEF Deploy, Made
<1>2. CASE UNCHANGED pool
  BY <1>2 DEF Made
<1> QED
  BY <1>1, <1>2 DEF Next, Edit, Migrates, MigrateFails, vars

(* A replacement changes the sign-in mode: nothing else that replaces a    *)
(* pool depends on the config file.                                        *)
LEMMA ReplacementChangesSignIn ==
    ASSUME NEW old, NEW new, Replaced(CognitoKitAuth(old).user, CognitoKitAuth(new).user)
    PROVE  ConfigDocument(old).pool.email # ConfigDocument(new).pool.email
<1> DEFINE p == ConfigDocument(old).pool
           q == ConfigDocument(new).pool
<1>1. p.caseSensitive = q.caseSensitive
  BY DEF ConfigDocument, normalizeConfig
<1>2. CognitoKitAuth(old).user = DeployedPool(p) /\ CognitoKitAuth(new).user = DeployedPool(q)
  BY DEF CognitoKitAuth, ConfigDocument
<1> HIDE DEF p, q
<1>3. /\ DeployedPool(p).aliasAttributes = DeployedPool(q).aliasAttributes
      /\ DeployedPool(p).caseSensitive = DeployedPool(q).caseSensitive
      /\ DeployedPool(p).usernameAttributes = IF p.email THEN {"email"} ELSE Absent
      /\ DeployedPool(q).usernameAttributes = IF q.email THEN {"email"} ELSE Absent
  BY <1>1 DEF DeployedPool
<1>4. p.email # q.email
  BY <1>2, <1>3 DEF Replaced
<1> QED
  BY <1>4 DEF p, q

(* Before every deployment that replaces the pool migrate warned, for all  *)
(* config files and every history of edits and deployments.                *)
THEOREM ReplacementsAreForetold == Spec => ReplacementIsForetold
<1> DEFINE Foretold ==
        (pool # None /\ pool' # pool /\ Replaced(pool.user, pool'.user))
        => CriticalRisks(PoolDocument(pool), ConfigDocument(config))
              \cap {"signIn", "caseSensitive"} # {}
<1>1. Init => Made
  BY DEF Init, Made
<1>2. Made /\ [Next]_vars => Made'
  BY MadeStep
<1>3. Made /\ [Next]_vars => [Foretold]_vars
  <2> SUFFICES ASSUME Made, [Next]_vars, pool # None, pool' # pool,
                      Replaced(pool.user, pool'.user)
               PROVE  "signIn" \in CriticalRisks(PoolDocument(pool), ConfigDocument(config))
    OBVIOUS
  <2>1. PICK c : pool = CognitoKitAuth(c)
    BY DEF Made
  <2>2. pool' = CognitoKitAuth(config)
    BY DEF Next, Edit, Migrates, MigrateFails, Deploy, vars
  <2>3. ConfigDocument(c).pool.email # ConfigDocument(config).pool.email
    BY <2>1, <2>2, ReplacementChangesSignIn
  <2>4. PoolDocument(pool).pool.email = ConfigDocument(c).pool.email
    BY <2>1, FlagsAreBoolean, PoolReadBack
  <2> QED
    BY <2>3, <2>4 DEF CriticalRisks, SignInChanged
<1> QED
  BY <1>1, <1>2, <1>3, PTL DEF Spec, ReplacementIsForetold

-----------------------------------------------------------------------------
(* Types.                                                                  *)

(* The lifetimes that CDK accepts are numbers, whatever the config held.   *)
LEMMA LifetimesAreNumbers ==
    ASSUME NEW p, Synthesises(p)
    PROVE  p.idTokenMinutes \in Nat /\ p.accessTokenMinutes \in Nat /\ p.refreshTokenDays \in Nat
<1> DEFINE id == p.idTokenMinutes
           access == p.accessTokenMinutes
           refresh == p.refreshTokenDays
<1>1. id \in 5 .. 1440
  BY DEF Synthesises
<1>2. access \in 5 .. 1440
  BY DEF Synthesises
<1>3. refresh \in 1 .. 3650
  BY DEF Synthesises
<1> HIDE DEF id, access, refresh
<1>4. id \in Nat
  BY <1>1
<1>5. access \in Nat
  BY <1>2
<1>6. refresh \in Nat
  BY <1>3
<1> QED
  BY <1>4, <1>5, <1>6 DEF id, access, refresh

(* What AWS would describe of the pool and client that the construct makes *)
(* of a valid config that CDK synthesises.                                 *)
LEMMA DeployedType ==
    ASSUME NEW c \in [file : Configs, order : Orders], Deployable(c),
           Synthesises(normalizeConfig(c.file))
    PROVE  CognitoKitAuth(c) \in [user : UserPoolInfo, client : UserPoolClientInfo, order : Orders]
<1> DEFINE p == normalizeConfig(c.file)
           app == c.file.application
<1>1. c.file \in AuthConfig /\ c.order \in Orders
  BY MigrationAssumption
<1>2. app # Absent
  <2> DEFINE e == [c EXCEPT !.file.schemaVersion = Absent]
  <2>1. e.file.application = app
    BY <1>1 DEF AuthConfig
  <2>2. Valid(e)
    BY DEF Deployable
  <2> HIDE DEF e, app
  <2> QED
    BY <2>1, <2>2 DEF Valid, hasConfigErrors, ConfigErrors
<1>3. app \in Application
  BY <1>1, <1>2 DEF AuthConfig, Optional
<1>4. app.callbackUrls \in SUBSET Url /\ app.logoutUrls \in SUBSET Url
  BY <1>3 DEF Application
<1>5. /\ p.email \in BOOLEAN /\ p.caseSensitive = FALSE
      /\ p.generateSecret \in BOOLEAN
      /\ p.callbackUrls = app.callbackUrls /\ p.logoutUrls = app.logoutUrls
  BY DEF normalizeConfig
<1>6. Synthesises(p)
  OBVIOUS
<1> HIDE DEF p, app
<1>7. p.idTokenMinutes \in Nat /\ p.accessTokenMinutes \in Nat /\ p.refreshTokenDays \in Nat
  BY <1>6, LifetimesAreNumbers
<1>8. DeployedPool(p) \in UserPoolInfo
  <2>1. AutoVerified(p) \in SUBSET Attributes
    BY DEF AutoVerified, Attributes
  <2>2. (IF p.email THEN {"email"} ELSE Absent) \in Optional(SUBSET Attributes)
    BY DEF Optional, Attributes
  <2>3. /\ Absent \in Optional(SUBSET Attributes) /\ FALSE \in Optional(BOOLEAN)
        /\ "OFF" \in Optional({"OFF", "OPTIONAL", "ON"})
    BY DEF Optional
  <2>4. {"email", "sub"} \in SUBSET Attributes /\ {"email"} \in SUBSET Methods
    BY DEF Attributes, Methods
  <2> QED
    BY <1>5, <2>1, <2>2, <2>3, <2>4 DEF DeployedPool, UserPoolInfo
<1>9. DeployedClient(p) \in UserPoolClientInfo
  <2>1. Granted(p) \in SUBSET {"code", "implicit", "client_credentials"}
    BY DEF Granted
  <2>2. p.refreshTokenDays * 24 * 60 \in Nat
    BY <1>7
  <2>3. /\ p.idTokenMinutes \in Optional(Nat) /\ p.accessTokenMinutes \in Optional(Nat)
        /\ p.refreshTokenDays * 24 * 60 \in Optional(Nat)
    BY <1>7, <2>2 DEF Optional
  <2> QED
    BY <1>4, <1>5, <2>1, <2>3 DEF DeployedClient, UserPoolClientInfo
<1> QED
  BY <1>1, <1>8, <1>9 DEF CognitoKitAuth, p

(* For every set of valid and invalid files: a deployed pool is one that   *)
(* AWS could describe, so that doctor and migrate can read it, and migrate *)
(* exits with 0 or 1 (construct.ts:78-135, commands/migrate.ts:20-22).     *)
THEOREM TypeCorrect == Spec => []TypeOK
<1>1. Init => TypeOK
  BY DEF Init, TypeOK
<1>2. TypeOK /\ [Next]_vars => TypeOK'
  <2> SUFFICES ASSUME TypeOK, [Next]_vars
               PROVE  TypeOK'
    OBVIOUS
  <2>1. ASSUME NEW next \in [file : Configs, order : Orders], Edit(next)
        PROVE  TypeOK'
    BY <2>1 DEF TypeOK, Edit
  <2>2. CASE Deploy
    <3>1. pool' \in [user : UserPoolInfo, client : UserPoolClientInfo, order : Orders]
      BY <2>2, DeployedType DEF TypeOK, Deploy
    <3> QED
      BY <2>2, <3>1 DEF TypeOK, Deploy
  <2>3. ASSUME NEW from, NEW to, Migrates(from, to)
        PROVE  TypeOK'
    <3>1. last'.code \in {0, 1}
      BY <2>3 DEF Migrates, ExitCode
    <3> QED
      BY <2>3, <3>1 DEF TypeOK, Migrates
  <2>4. CASE MigrateFails
    BY <2>4 DEF TypeOK, MigrateFails
  <2>5. CASE UNCHANGED vars
    BY <2>5 DEF TypeOK, vars
  <2> QED
    BY <2>1, <2>2, <2>3, <2>4, <2>5 DEF Next
<1> QED
  BY <1>1, <1>2, PTL DEF Spec
=============================================================================
